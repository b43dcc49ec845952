------------------------- MODULE OfflineXactsProofs -------------------------
(***************************************************************************)
(* That offline circulation keeps what careful staff enter, and the other  *)
(* promises of OfflineXacts, for any tabs, transactions, sessions and      *)
(* uploads and any number of saves and imports.  First how the steps       *)
(* change a tab's queue of requests; then every step is looked at once for *)
(* each part of OfflineIInv; last comes the ledger.                        *)
(***************************************************************************)
EXTENDS OfflineXacts, FiniteSetTheorems, SequenceTheorems, NaturalsInduction,
        WellFoundedInduction, TLAPS

-----------------------------------------------------------------------------
(* Why they hold.                                                          *)

Entry == {"save", "import", "register", "nobody"}

\* A request is one that the code makes, by a page of its kind; an upload's list is
\* for an upload that waits for it.
Wellmade(t, r) ==
    /\ r.op = "insert" => r.job \in Entry /\ r.x \in entered
    /\ r.op = "date" => r.job \in Entry
    /\ r.op \in {"wipe", "undate"} => r.job \in {"clear", "nobody"} /\ t \in SessionTabs
    /\ r.op = "list" => r.job \in {"show", "upload", "nobody"}
    /\ In(r.got) \subseteq entered
    /\ r.job \in {"save", "register"} => t \in EntryTabs /\ r.k \in 1..MaxSaves
    /\ r.job = "upload" => r.k \in Uploads /\ up[r.k].tab = t /\ up[r.k].pc = "blob"

\* An upload has a tab of its own until it ends or the tab is closed, and the session
\* it goes to once it has the list.
Begun == {"load", "append", "loaded", "refused"}
WellUp(a) ==
    /\ a.pc \in {"none", "done"} => a.tab = None /\ a.to = None
    /\ a.tab # None => a.tab \in SessionTabs
    /\ a.pc \in {"asked", "blob"} => /\ a.to = None
                                     /\ a.tab # None => current[a.tab] \in Sessions
    /\ a.pc \in Begun => a.to \in Sessions
    /\ In(a.blob) \subseteq entered

\* Nothing but what was entered is anywhere, and only the entry form's page has any.
Known ==
    /\ In(stored) \subseteq entered /\ disk \subseteq entered
    /\ \A s \in Sessions : In(file[s]) \subseteq entered
    /\ \A t \in Tabs : page[t] \subseteq entered /\ In(shown[t]) \subseteq entered
    /\ \A t, o \in Tabs : \A x \in page[t] : x \in page[o] => o = t
    /\ \A t \in SessionTabs : page[t] = {} /\ saving[t] = {}
    /\ \A u \in Uploads : WellUp(up[u])
    /\ \A t \in Tabs : \A i \in DOMAIN mail[t] :
          /\ Wellmade(t, mail[t][i])
          /\ mail[t][i].job = "upload" => \A j \in DOMAIN mail[t] :
                mail[t][j].job = "upload" /\ mail[t][j].k = mail[t][i].k => j = i

\* Unless staff hurry to another tab, one tab is busy at a time.
OneBusy == "tabs" \notin Hurries => \A t, o \in Tabs : Busy(t) /\ Busy(o) => t = o

\* Without clicks the session asked for stays the current one.
StaysCurrent ==
    "click" \notin Hurries => \A u \in Uploads :
        Alive(u) /\ up[u].pc \in {"asked", "blob"} => current[up[u].tab] = up[u].asked

ToWipe(r) == r.op = "wipe" /\ r.st = "sent"
WipeComes == \E t \in Tabs : \E i \in DOMAIN mail[t] : ToWipe(mail[t][i])

Gone(x) == x \in dropped \/ \E s \in Sessions : file[s][x] > 0
Safe(x) == Gone(x) \/ x \in In(stored) \cup InMail \cup denied

\* An upload reads the list when no insert is left, so that what it has its tab delete is
\* on the server; what a save empties the page of is on its way.
CarefulTrue ==
    Careful =>
        /\ \A x \in entered : Safe(x) \/ \E t \in Tabs : x \in page[t]
        /\ \A t \in Tabs : saving[t] # {} => \A x \in page[t] : Safe(x)
        /\ MayClose => \A t \in Tabs : page[t] # {} => warns[t]
        /\ \A t \in Tabs : \A i, j \in DOMAIN mail[t] :
              mail[t][i].job = "upload" /\ mail[t][j].op = "insert" => j < i
        /\ \A t \in Tabs : \A i \in DOMAIN mail[t] :
              mail[t][i].job = "upload" /\ mail[t][i].st = "ok" =>
                  In(stored) \subseteq In(mail[t][i].got) /\ InMail = {}
        /\ \A u \in Uploads : Alive(u) /\ up[u].pc \in Begun =>
              /\ InMail = {}
              /\ up[u].pc \in {"load", "append"} => In(stored) \subseteq In(up[u].blob)
              /\ up[u].pc = "loaded" => \A x \in In(stored) : Gone(x)
        /\ WipeComes => InMail = {} /\ \A x \in In(stored) : Gone(x)

\* What is on a page and was not sent is nowhere else, and no upload has anything that is
\* on a page.
Fresh(x) ==
    /\ x \notin In(stored) \cup InMail \cup disk
    /\ \A t \in Tabs : x \notin In(shown[t])
    /\ \A t \in Tabs : \A i \in DOMAIN mail[t] : x \notin In(mail[t][i].got)
PagesFresh ==
    Careful => \A t \in Tabs : \A x \in page[t] :
        /\ saving[t] = {} => Fresh(x)
        /\ \A u \in Uploads : x \notin In(up[u].blob)

\* A date follows the inserts and is deleted after a wipe, and the two do not mix.
Undating(r) == (r.op = "wipe" /\ r.st = "ok") \/ (r.op = "undate" /\ r.st = "sent")
Dating(r) == (r.op = "insert" /\ r.job # "nobody") \/ (r.op = "date" /\ r.st = "sent")
DateComes == \E t \in Tabs : \E i \in DOMAIN mail[t] : Dating(mail[t][i])
DateGoes == \E t \in Tabs : \E i \in DOMAIN mail[t] : Undating(mail[t][i])
Deletes == {"wipe", "undate"}
DateTrue ==
    "tabs" \notin Hurries /\ ~MayClose /\ ~MayRefuse =>
        /\ \A t \in Tabs : \A s \in saving[t] : ~s.spoiled /\ (s.reload => date)
        /\ \A t \in Tabs : \A i \in DOMAIN mail[t] : LET r == mail[t][i] IN
              /\ r.st # "err"
              /\ r.op = "insert" /\ r.job = "nobody" => date
              /\ r.op = "date" /\ r.st = "ok" /\ r.job = "register" => date
              /\ r.op \in Deletes => r.job # "nobody"
              /\ (r.op = "insert" /\ r.st = "ok") \/ (r.op = "date" /\ r.st = "sent") =>
                    In(stored) # {}
              /\ Undating(r) => In(stored) = {}
              /\ \A j \in DOMAIN mail[t] : LET q == mail[t][j] IN
                    /\ r.op \in Deletes => q.op # "insert"
                    /\ r.op \in Deletes /\ q.op = "date" => j < i
                    /\ r.job = "upload" /\ q.op = "insert" => j < i
        /\ \A u \in Uploads : up[u].pc \in Begun =>
              /\ Alive(u)
              /\ \A i \in DOMAIN mail[up[u].tab] : mail[up[u].tab][i].op # "insert"
        /\ In(stored) # {} /\ ~date => DateComes
        /\ In(stored) = {} /\ date => DateGoes

\* A transaction is in one place at a time, but while it is on the server and its tab has
\* it deleted; a session has one script, and one child to run it.
Active(u) == up[u].pc \notin {"none", "done"}
ToInsert(r) == r.op = "insert" /\ r.st = "sent"
Nowhere(x) == stored[x] = 0 /\ \A s \in Sessions : file[s][x] = 0
RunTrue ==
    Orderly /\ imports = 0 =>
        /\ \A x \in InMail : Nowhere(x)
        /\ \A t, o \in Tabs : \A i \in DOMAIN mail[t] : \A j \in DOMAIN mail[o] :
              ToInsert(mail[t][i]) /\ ToInsert(mail[o][j]) /\ mail[t][i].x = mail[o][j].x =>
                  t = o /\ i = j
        /\ \A t \in Tabs : saving[t] = {} => \A x \in page[t] : x \notin InMail /\ Nowhere(x)
        /\ \A t \in Tabs : \A i \in DOMAIN mail[t] : LET r == mail[t][i] IN
              /\ r.st # "err"
              /\ r.job = "register" =>
                    saving[t] = {} /\ \A j \in DOMAIN mail[t] : mail[t][j].job = "register" => j = i
              /\ r.job = "upload" /\ r.st = "ok" => \A x \in Xacts : r.got[x] <= stored[x]
        /\ WipeComes => \A u \in Uploads : ~Active(u)
        /\ \A u \in Uploads : Active(u) =>
              /\ Alive(u) /\ ~Processing
              /\ \A v \in Uploads : Active(v) => u = v
              /\ up[u].pc \in {"load", "append"} => \A x \in Xacts : up[u].blob[x] <= stored[x]
              /\ up[u].pc = "append" => scripts[up[u].to] = 0
        /\ \A x \in Xacts : stored[x] <= 1
        /\ \A s \in Sessions :
              /\ scripts[s] <= 1 /\ Len(kids[s]) <= 1
              /\ kids[s] # <<>> => kids[s][1] = file[s] /\ ~ended[s]
        /\ \A s \in Sessions : \A x \in Xacts : file[s][x] > 0 =>
              /\ file[s][x] = 1 /\ scripts[s] = 1
              /\ \A r \in Sessions : file[r][x] > 0 => r = s
              /\ stored[x] > 0 => WipeComes \/ \E u \in Uploads : up[u].pc = "loaded"
        /\ \A x \in Xacts : ran[x] <= 1 /\ (ran[x] > 0 => \E s \in Sessions : ended[s] /\ file[s][x] > 0)

OfflineIInv ==
    /\ TypeOK /\ Known /\ OneBusy /\ StaysCurrent /\ SentWhereAsked
    /\ CarefulTrue /\ PagesFresh /\ DateTrue /\ RunTrue

-----------------------------------------------------------------------------
(* Sequences.                                                              *)

\* The least of some positions.
LEMMA LeastIs ==
    ASSUME NEW n \in Nat, NEW T \in SUBSET (1..n), T # {}
    PROVE  Min(T) \in T /\ \A y \in T : Min(T) <= y
<1> DEFINE R == OpToRel(<, Nat)
<1>1. IsWellFoundedOn(R, Nat)
  BY NatLessThanWellFounded
<1>2. R = {ss \in Nat \X Nat : ss[1] < ss[2]}
  BY DEF OpToRel
<1>3. T \subseteq Nat
  OBVIOUS
<1>4. PICK x \in T : \A y \in T : ~(<<y, x>> \in R)
  <2> HIDE DEF R
  <2> QED  BY <1>1, <1>3, WFMin
<1>5. \A y \in T : x <= y
  <2> SUFFICES ASSUME NEW y \in T PROVE x <= y
    OBVIOUS
  <2>1. ~(<<y, x>> \in R) /\ x \in Nat /\ y \in Nat
    BY <1>3, <1>4
  <2> HIDE DEF R
  <2>2. ~(y < x)
    BY <1>2, <2>1
  <2> QED  BY <2>1, <2>2
<1> QED  BY <1>5 DEF Min

\* A finite set as a sequence: each of its elements is at one position.
LEMMA SetToSeqIs ==
    ASSUME NEW S, IsFiniteSet(S)
    PROVE  /\ SetToSeq(S) \in Seq(S)
           /\ \A x \in S : \E i \in 1..Len(SetToSeq(S)) : SetToSeq(S)[i] = x
           /\ \A i, j \in 1..Len(SetToSeq(S)) : SetToSeq(S)[i] = SetToSeq(S)[j] => i = j
<1> DEFINE n == Cardinality(S)
           f == SetToSeq(S)
<1>1. PICK m \in Nat : ExistsBijection(1..m, S)
  BY FS_NatBijection
<1>2. n = m /\ n \in Nat
  BY <1>1, FS_CountingElements
<1>3. PICK g : g \in Bijection(1..n, S)
  BY <1>1, <1>2 DEF ExistsBijection
<1>4. g \in [1..n -> S] /\ IsInjective(g)
  BY <1>3 DEF Bijection, Injection
<1>5. f \in [1..n -> S] /\ IsInjective(f)
  BY <1>4 DEF SetToSeq
<1>6. f \in Injection(1..n, S)
  BY <1>5 DEF Injection
<1>7. f \in Surjection(1..n, S)
  BY <1>2, <1>6, FS_Interval, FS_Injection DEF Surjection
<1> HIDE DEF f, n
<1>8. f \in Seq(S) /\ Len(f) = n
  BY <1>2, <1>5
<1>9. \A x \in S : \E i \in 1..n : f[i] = x
  BY <1>7 DEF Surjection
<1>10. \A i, j \in 1..n : f[i] = f[j] => i = j
  BY <1>5 DEF IsInjective
<1> QED  BY <1>8, <1>9, <1>10 DEF f

-----------------------------------------------------------------------------
(* How the queues of requests change.                                      *)

Mails == [Tabs -> Seq(ReqType)]

\* The first d requests of the tab are gone and rs have come.
Moved(t, d, rs) ==
    /\ mail' \in Mails /\ d \in 0..Len(mail[t])
    /\ \A o \in Tabs : o # t => mail'[o] = mail[o]
    /\ Len(mail'[t]) = Len(mail[t]) - d + Len(rs)
    /\ \A i \in 1..(Len(mail[t]) - d) : mail'[t][i] = mail[t][i + d]
    /\ \A i \in 1..Len(rs) : mail'[t][Len(mail[t]) - d + i] = rs[i]

LEMMA MailType ==
    ASSUME mail \in Mails, NEW t \in Tabs
    PROVE  /\ mail[t] \in Seq(ReqType) /\ Len(mail[t]) \in Nat /\ DOMAIN mail[t] = 1..Len(mail[t])
           /\ \A i \in DOMAIN mail[t] : mail[t][i] \in ReqType
           /\ mail[t] # <<>> => 1 \in DOMAIN mail[t] /\ Head(mail[t]) = mail[t][1]
BY LenProperties, EmptySeq DEF Mails

LEMMA PostIs ==
    ASSUME mail \in Mails, NEW t \in Tabs, NEW rs \in Seq(ReqType), Post(t, rs)
    PROVE  Moved(t, 0, rs)
<1> DEFINE m == mail[t]
<1>1. m \in Seq(ReqType) /\ Len(m) \in Nat /\ Len(rs) \in Nat
  BY LenProperties DEF Mails
<1>2. /\ m \o rs \in Seq(ReqType) /\ Len(m \o rs) = Len(m) + Len(rs)
      /\ \A i \in 1..Len(m) + Len(rs) : (m \o rs)[i] = IF i <= Len(m) THEN m[i] ELSE rs[i - Len(m)]
  BY <1>1, ConcatProperties
<1>3. mail' = [mail EXCEPT ![t] = m \o rs]
  BY DEF Post
<1>4. mail' \in Mails /\ mail'[t] = m \o rs /\ \A o \in Tabs : o # t => mail'[o] = mail[o]
  BY <1>2, <1>3 DEF Mails
<1> DEFINE n == m \o rs
<1> HIDE DEF n
<1>5. \A i \in 1..Len(m) : n[i] = m[i]
  BY <1>1, <1>2 DEF n
<1>6. \A i \in 1..Len(rs) : n[Len(m) + i] = rs[i]
  <2> SUFFICES ASSUME NEW i \in 1..Len(rs) PROVE n[Len(m) + i] = rs[i]
    OBVIOUS
  <2>1. Len(m) + i \in 1..Len(m) + Len(rs) /\ ~(Len(m) + i <= Len(m)) /\ Len(m) + i - Len(m) = i
    BY <1>1
  <2> QED  BY <1>2, <2>1 DEF n
<1> HIDE DEF m
<1>7. 0 \in 0..Len(m) /\ Len(m) - 0 = Len(m) /\ Len(n) = Len(m) + Len(rs)
  BY <1>1, <1>2 DEF n
<1>8. \A i \in 1..Len(m) : n[i] = m[i + 0]
  BY <1>1, <1>5
<1> QED  BY <1>1, <1>4, <1>6, <1>7, <1>8 DEF Moved, m, n

LEMMA ReadIs ==
    ASSUME mail \in Mails, NEW t \in Tabs, mail[t] # <<>>, NEW rs \in Seq(ReqType), Read(t, rs)
    PROVE  Moved(t, 1, rs)
<1> DEFINE m == mail[t]
           u == Tail(m)
<1>1. /\ m \in Seq(ReqType) /\ Len(m) \in Nat \ {0} /\ Len(rs) \in Nat
      /\ u \in Seq(ReqType) /\ Len(u) = Len(m) - 1 /\ \A i \in 1..Len(u) : u[i] = m[i + 1]
  BY LenProperties, EmptySeq, HeadTailProperties DEF Mails
<1>0. Len(u) \in Nat /\ Len(rs) \in Nat
  BY <1>1
<1> HIDE DEF u
<1>2. /\ u \o rs \in Seq(ReqType) /\ Len(u \o rs) = Len(u) + Len(rs)
      /\ \A i \in 1..Len(u) + Len(rs) : (u \o rs)[i] = IF i <= Len(u) THEN u[i] ELSE rs[i - Len(u)]
  BY <1>1, ConcatProperties
<1>3. mail' = [mail EXCEPT ![t] = u \o rs]
  BY DEF Read, u
<1>4. mail' \in Mails /\ mail'[t] = u \o rs /\ \A o \in Tabs : o # t => mail'[o] = mail[o]
  BY <1>2, <1>3 DEF Mails
<1> DEFINE n == u \o rs
<1> HIDE DEF n
<1>5. \A i \in 1..Len(u) : n[i] = u[i]
  BY <1>1, <1>2 DEF n
<1>6. \A i \in 1..Len(rs) : n[Len(u) + i] = rs[i]
  <2> SUFFICES ASSUME NEW i \in 1..Len(rs) PROVE n[Len(u) + i] = rs[i]
    OBVIOUS
  <2>1. Len(u) + i \in 1..Len(u) + Len(rs) /\ ~(Len(u) + i <= Len(u)) /\ Len(u) + i - Len(u) = i
    BY <1>0
  <2> QED  BY <1>2, <2>1 DEF n
<1> HIDE DEF m
<1>7. 1 \in 0..Len(m) /\ Len(n) = Len(m) - 1 + Len(rs)
  BY <1>1, <1>2 DEF n
<1> QED  BY <1>1, <1>4, <1>5, <1>6, <1>7 DEF Moved, m, n

\* Requests that a page sends at once.
LEMMA OneRequest ==
    ASSUME NEW r \in ReqType
    PROVE  <<r>> \in Seq(ReqType) /\ Len(<<r>>) = 1 /\ <<r>>[1] = r
OBVIOUS

\* No request at all.
LEMMA NoRequest == <<>> \in Seq(ReqType) /\ Len(<<>>) = 0
BY EmptySeq

LEMMA NoRowsType == NoRows \in Rows /\ In(NoRows) = {}
BY DEF NoRows, Rows, In

LEMMA ReqIs ==
    ASSUME NEW op \in {"insert", "date", "wipe", "undate", "list"}, NEW x \in Xacts \cup {None},
           NEW job \in {"save", "import", "register", "clear", "upload", "show", "nobody"},
           NEW k \in Nat \cup Uploads \cup {None}
    PROVE  /\ Req(op, x, job, k) \in ReqType
           /\ Req(op, x, job, k).op = op /\ Req(op, x, job, k).x = x
           /\ Req(op, x, job, k).job = job /\ Req(op, x, job, k).k = k
           /\ Req(op, x, job, k).st = "sent" /\ Req(op, x, job, k).got = NoRows
BY NoRowsType DEF Req, ReqType

LEMMA ShowIs ==
    /\ Show \in Seq(ReqType) /\ Len(Show) = 1 /\ Show[1] = Req("list", None, "show", None)
    /\ Show[1].op = "list" /\ Show[1].job = "show" /\ Show[1].st = "sent" /\ Show[1].got = NoRows
<1> DEFINE r == Req("list", None, "show", None)
<1>1. /\ r \in ReqType /\ r.op = "list" /\ r.job = "show" /\ r.st = "sent" /\ r.got = NoRows
  BY NoRowsType DEF Req, ReqType
<1>2. Show = <<r>>
  BY DEF Show
<1> HIDE DEF r
<1> QED  BY <1>1, <1>2, OneRequest DEF r

\* One insert for each transaction.
InsertsOf(rs, xs, job, k) ==
    /\ rs \in Seq(ReqType)
    /\ \A i \in 1..Len(rs) : /\ rs[i].op = "insert" /\ rs[i].x \in xs /\ rs[i].job = job
                             /\ rs[i].k = k /\ rs[i].st = "sent" /\ rs[i].got = NoRows
    /\ \A x \in xs : \E i \in 1..Len(rs) : rs[i].x = x
    /\ \A i, j \in 1..Len(rs) : rs[i].x = rs[j].x => i = j

LEMMA InsertsIs ==
    ASSUME NEW xs \in SUBSET Xacts, NEW job \in {"save", "import"},
           NEW k \in Nat \cup Uploads \cup {None}
    PROVE  InsertsOf(Inserts(xs, job, k), xs, job, k)
<1> DEFINE q == SetToSeq(xs)
           rs == Inserts(xs, job, k)
<1>1. IsFiniteSet(xs)
  BY OfflineAssumption, FS_Subset
<1>2. /\ q \in Seq(xs) /\ \A x \in xs : \E i \in 1..Len(q) : q[i] = x
      /\ \A i, j \in 1..Len(q) : q[i] = q[j] => i = j
  BY <1>1, SetToSeqIs
<1>3. rs = [i \in 1..Len(q) |-> Req("insert", q[i], job, k)]
  BY DEF Inserts
<1> HIDE DEF q, rs
<1>4. Len(q) \in Nat /\ \A i \in 1..Len(q) : q[i] \in xs /\ q[i] \in Xacts \cup {None}
  BY <1>2, LenProperties
<1>5. \A i \in 1..Len(q) : /\ rs[i] \in ReqType /\ rs[i].op = "insert" /\ rs[i].x = q[i]
                           /\ rs[i].job = job /\ rs[i].k = k
                           /\ rs[i].st = "sent" /\ rs[i].got = NoRows
  <2> SUFFICES ASSUME NEW i \in 1..Len(q)
               PROVE  /\ rs[i] \in ReqType /\ rs[i].op = "insert" /\ rs[i].x = q[i]
                      /\ rs[i].job = job /\ rs[i].k = k
                      /\ rs[i].st = "sent" /\ rs[i].got = NoRows
    OBVIOUS
  <2> DEFINE r == Req("insert", q[i], job, k)
  <2>1. rs[i] = r /\ q[i] \in xs /\ q[i] \in Xacts \cup {None}
    BY <1>3, <1>4
  <2>2. /\ r \in ReqType /\ r.op = "insert" /\ r.x = q[i] /\ r.job = job /\ r.k = k
        /\ r.st = "sent" /\ r.got = NoRows
    <3>1. job \in {"save", "import", "register", "clear", "upload", "show", "nobody"}
      OBVIOUS
    <3> QED  BY <2>1, <3>1, ReqIs
  <2> HIDE DEF r
  <2> QED  BY <2>1, <2>2
<1>6. rs \in Seq(ReqType) /\ Len(rs) = Len(q)
  BY <1>3, <1>4, <1>5
<1>7. \A i \in 1..Len(rs) : /\ rs[i].op = "insert" /\ rs[i].x \in xs /\ rs[i].job = job
                            /\ rs[i].k = k /\ rs[i].st = "sent" /\ rs[i].got = NoRows
  BY <1>4, <1>5, <1>6
<1>8. \A x \in xs : \E i \in 1..Len(rs) : rs[i].x = x
  <2> SUFFICES ASSUME NEW x \in xs PROVE \E i \in 1..Len(rs) : rs[i].x = x
    OBVIOUS
  <2>1. PICK i \in 1..Len(q) : q[i] = x
    BY <1>2
  <2> QED  BY <1>5, <1>6, <2>1
<1>9. \A i, j \in 1..Len(rs) : rs[i].x = rs[j].x => i = j
  <2> SUFFICES ASSUME NEW i \in 1..Len(q), NEW j \in 1..Len(q), rs[i].x = rs[j].x PROVE i = j
    BY <1>6
  <2>1. q[i] = q[j]
    BY <1>5
  <2> QED  BY <1>2, <2>1
<1>10. InsertsOf(rs, xs, job, k)
  BY <1>6, <1>7, <1>8, <1>9, Zenon DEF InsertsOf
<1> QED  BY <1>10 DEF rs

\* The worker carries out the first request of the tab's that it has not answered yet.
Served(t, i) ==
    /\ mail' \in Mails /\ i \in 1..Len(mail[t])
    /\ \A o \in Tabs : o # t => mail'[o] = mail[o]
    /\ Len(mail'[t]) = Len(mail[t])
    /\ \A j \in 1..Len(mail[t]) : j # i => mail'[t][j] = mail[t][j]
    /\ mail[t][i].st = "sent" /\ \A j \in 1..Len(mail[t]) : j < i => mail[t][j].st # "sent"
    /\ mail'[t][i].op = mail[t][i].op /\ mail'[t][i].x = mail[t][i].x
    /\ mail'[t][i].job = mail[t][i].job /\ mail'[t][i].k = mail[t][i].k
    /\ \/ /\ Perform(mail[t][i]) /\ denied' = denied
          /\ mail'[t][i].st = "ok"
          /\ mail'[t][i].got = IF mail[t][i].job \in {"show", "upload"} THEN stored ELSE NoRows
       \/ /\ MayRefuse /\ UNCHANGED storeVars
          /\ denied' = IF mail[t][i].op = "insert" THEN denied \cup {mail[t][i].x} ELSE denied
          /\ mail'[t][i].st = "err" /\ mail'[t][i].got = mail[t][i].got

LEMMA WorkIs ==
    ASSUME mail \in Mails, stored \in Rows, NEW t \in Tabs, Work(t)
    PROVE  \E i \in 1..Len(mail[t]) : Served(t, i)
<1> DEFINE i == Min(ToDo(t))
           m == mail[t]
           a == [m[i] EXCEPT !.st = "ok",
                             !.got = IF m[i].job \in {"show", "upload"} THEN stored ELSE NoRows]
           b == [m[i] EXCEPT !.st = "err"]
<1>1. /\ m \in Seq(ReqType) /\ Len(m) \in Nat /\ DOMAIN m = 1..Len(m)
      /\ \A j \in 1..Len(m) : m[j] \in ReqType
  BY MailType
<1>2. i \in 1..Len(m) /\ m[i].st = "sent" /\ \A j \in 1..Len(m) : j < i => m[j].st # "sent"
  <2>1. ToDo(t) \in SUBSET (1..Len(m)) /\ ToDo(t) # {}
    BY <1>1, Zenon DEF Work, ToDo
  <2>2. i \in ToDo(t) /\ \A y \in ToDo(t) : i <= y
    BY <1>1, <2>1, LeastIs
  <2> HIDE DEF i
  <2>3. \A j \in 1..Len(m) : j < i => j \notin ToDo(t)
    BY <2>1, <2>2
  <2> QED  BY <1>1, <2>1, <2>2, <2>3 DEF ToDo
<1>3. \/ /\ Perform(m[i]) /\ denied' = denied
         /\ mail' = [mail EXCEPT ![t][i].st = "ok",
                       ![t][i].got = IF mail[t][i].job \in {"show", "upload"}
                                     THEN stored ELSE NoRows]
      \/ /\ MayRefuse /\ UNCHANGED storeVars
         /\ denied' = IF m[i].op = "insert" THEN denied \cup {m[i].x} ELSE denied
         /\ mail' = [mail EXCEPT ![t][i].st = "err"]
  BY DEF Work
<1> HIDE DEF i
<1>4. /\ a \in ReqType /\ a.op = m[i].op /\ a.x = m[i].x /\ a.job = m[i].job /\ a.k = m[i].k
      /\ a.st = "ok" /\ a.got = IF m[i].job \in {"show", "upload"} THEN stored ELSE NoRows
      /\ b \in ReqType /\ b.op = m[i].op /\ b.x = m[i].x /\ b.job = m[i].job /\ b.k = m[i].k
      /\ b.st = "err" /\ b.got = m[i].got
  <2>1. m[i] \in ReqType
    BY <1>1, <1>2
  <2> HIDE DEF m
  <2> QED  BY <2>1, NoRowsType, ZenonT(30) DEF ReqType
<1> HIDE DEF m
<1>5. ASSUME NEW c \in ReqType, mail' = [mail EXCEPT ![t] = [m EXCEPT ![i] = c]]
      PROVE  /\ mail' \in Mails /\ \A o \in Tabs : o # t => mail'[o] = mail[o]
             /\ Len(mail'[t]) = Len(m) /\ \A j \in 1..Len(m) : j # i => mail'[t][j] = m[j]
             /\ mail'[t][i] = c
  <2>1. /\ [m EXCEPT ![i] = c] \in Seq(ReqType) /\ Len([m EXCEPT ![i] = c]) = Len(m)
        /\ \A j \in 1..Len(m) : [m EXCEPT ![i] = c][j] = IF j = i THEN c ELSE m[j]
    BY <1>1, <1>2, ExceptSeq
  <2>2. mail'[t] = [m EXCEPT ![i] = c]
    BY <1>5, SMTT(30) DEF Mails
  <2> QED  BY <1>2, <1>5, <2>1, <2>2 DEF Mails
<1>6. CASE /\ Perform(m[i]) /\ denied' = denied
           /\ mail' = [mail EXCEPT ![t][i].st = "ok",
                         ![t][i].got = IF mail[t][i].job \in {"show", "upload"}
                                       THEN stored ELSE NoRows]
  <2>1. mail' = [mail EXCEPT ![t] = [m EXCEPT ![i] = a]]
    <3>1. [[m EXCEPT ![i].st = "ok"] EXCEPT ![i].got =
              IF m[i].job \in {"show", "upload"} THEN stored ELSE NoRows] = [m EXCEPT ![i] = a]
      BY <1>1, <1>2, <1>4 DEF ReqType
    <3> QED  BY <1>6, <3>1 DEF m, Mails
  <2> HIDE DEF a
  <2>2. /\ mail' \in Mails /\ \A o \in Tabs : o # t => mail'[o] = mail[o]
        /\ Len(mail'[t]) = Len(m) /\ \A j \in 1..Len(m) : j # i => mail'[t][j] = m[j]
        /\ mail'[t][i] = a
    BY <1>4, <1>5, <2>1
  <2> QED  BY <1>2, <1>4, <1>6, <2>2 DEF Served, m
<1>7. CASE /\ MayRefuse /\ UNCHANGED storeVars
           /\ denied' = IF m[i].op = "insert" THEN denied \cup {m[i].x} ELSE denied
           /\ mail' = [mail EXCEPT ![t][i].st = "err"]
  <2>1. mail' = [mail EXCEPT ![t] = [m EXCEPT ![i] = b]]
    BY <1>7 DEF m
  <2> HIDE DEF b
  <2>2. /\ mail' \in Mails /\ \A o \in Tabs : o # t => mail'[o] = mail[o]
        /\ Len(mail'[t]) = Len(m) /\ \A j \in 1..Len(m) : j # i => mail'[t][j] = m[j]
        /\ mail'[t][i] = b
    BY <1>4, <1>5, <2>1
  <2> QED  BY <1>2, <1>4, <1>7, <2>2 DEF Served, m
<1> QED  BY <1>2, <1>3, <1>6, <1>7 DEF m

\* What the worker has not answered is left to it, and the new page asks for the list.
Renewed(t, d) ==
    /\ mail' \in Mails /\ d \in 0..Len(mail[t])
    /\ \A o \in Tabs : o # t => mail'[o] = mail[o]
    /\ Len(mail'[t]) = Len(mail[t]) - d + 1
    /\ \A i \in 1..d : mail[t][i].st # "sent"
    /\ \A i \in 1..(Len(mail[t]) - d) :
          /\ mail'[t][i].op = mail[t][i + d].op /\ mail'[t][i].x = mail[t][i + d].x
          /\ mail'[t][i].st = mail[t][i + d].st /\ mail'[t][i].got = mail[t][i + d].got
          /\ mail'[t][i].job = "nobody"
    /\ mail'[t][Len(mail[t]) - d + 1] = Show[1]

LEMMA ReloadIs ==
    ASSUME mail \in Mails, NEW t \in Tabs, Reload(t)
    PROVE  \E d \in 0..Len(mail[t]) : Renewed(t, d)
<1> DEFINE m == mail[t]
           l == Left(t)
           q == Orphans(t)
<1>1. /\ m \in Seq(ReqType) /\ Len(m) \in Nat /\ DOMAIN m = 1..Len(m)
      /\ \A j \in 1..Len(m) : m[j] \in ReqType
  BY MailType
<1>2. PICK d \in 0..Len(m) :
        /\ l \in Seq(ReqType) /\ Len(l) = Len(m) - d
        /\ \A i \in 1..(Len(m) - d) : l[i] = m[i + d]
        /\ \A i \in 1..d : m[i].st # "sent"
  <2>1. CASE ToDo(t) = {}
    <3>1. l = <<>> /\ l \in Seq(ReqType) /\ Len(l) = 0
      BY <2>1, EmptySeq DEF Left
    <3>2. \A i \in 1..Len(m) : m[i].st # "sent"
      BY <1>1, <2>1 DEF ToDo
    <3> QED  BY <1>1, <3>1, <3>2
  <2>2. CASE ToDo(t) # {}
    <3> DEFINE s == Min(ToDo(t))
    <3>1. ToDo(t) \in SUBSET (1..Len(m))
      BY <1>1 DEF ToDo
    <3>2. s \in ToDo(t) /\ \A y \in ToDo(t) : s <= y
      BY <1>1, <2>2, <3>1, LeastIs
    <3> HIDE DEF s
    <3>3. s \in 1..Len(m) /\ \A i \in 1..(s - 1) : m[i].st # "sent"
      <4>1. s \in 1..Len(m) /\ \A i \in 1..(s - 1) : i \in 1..Len(m) /\ i \notin ToDo(t)
        BY <1>1, <3>1, <3>2
      <4> QED  BY <1>1, <4>1 DEF ToDo
    <3>4. l = SubSeq(m, s, Len(m))
      BY <2>2 DEF Left, s
    <3>5. /\ SubSeq(m, s, Len(m)) \in Seq(ReqType)
          /\ Len(SubSeq(m, s, Len(m))) = IF s <= Len(m) THEN Len(m) - s + 1 ELSE 0
          /\ \A i \in 1..(Len(m) - s + 1) : SubSeq(m, s, Len(m))[i] = m[s + i - 1]
      <4>1. s \in Int /\ Len(m) \in Int /\ \A i \in s..Len(m) : m[i] \in ReqType
        BY <1>1, <3>3
      <4> QED  BY <4>1, SubSeqProperties
    <3> HIDE DEF l, m
    <3>6. s - 1 \in 0..Len(m) /\ Len(l) = Len(m) - (s - 1) /\ l \in Seq(ReqType)
      BY <1>1, <3>3, <3>4, <3>5
    <3>7. ASSUME NEW i \in 1..(Len(m) - (s - 1)) PROVE l[i] = m[i + (s - 1)]
      <4>1. i \in 1..(Len(m) - s + 1) /\ s + i - 1 = i + (s - 1)
        BY <1>1, <3>3
      <4> QED  BY <3>4, <3>5, <4>1
    <3> QED  BY <3>3, <3>6, <3>7
  <2> QED  BY <2>1, <2>2
<1> HIDE DEF l
<1>3. Len(l) \in Nat /\ DOMAIN l = 1..Len(l) /\ \A i \in 1..Len(l) : l[i] \in ReqType
  BY <1>2, LenProperties
<1>4. q = [i \in 1..Len(l) |-> [l[i] EXCEPT !.job = "nobody"]]
  BY <1>3 DEF Orphans, l
<1> HIDE DEF q
<1>5. \A i \in 1..Len(l) : /\ q[i] \in ReqType /\ q[i].op = l[i].op /\ q[i].x = l[i].x
                           /\ q[i].st = l[i].st /\ q[i].got = l[i].got /\ q[i].job = "nobody"
  BY <1>3, <1>4, ZenonT(30) DEF ReqType
<1>6. q \in Seq(ReqType) /\ Len(q) = Len(l)
  BY <1>3, <1>4, <1>5
<1> DEFINE n == q \o Show
<1>7. /\ n \in Seq(ReqType) /\ Len(n) = Len(q) + Len(Show)
      /\ \A i \in 1..Len(q) + Len(Show) : n[i] = IF i <= Len(q) THEN q[i] ELSE Show[i - Len(q)]
  <2>1. Show \in Seq(ReqType)
    BY ShowIs
  <2> QED  BY <1>6, <2>1, ConcatProperties
<1>8. mail' = [mail EXCEPT ![t] = n]
  BY DEF Reload, q
<1> HIDE DEF n
<1>9. mail' \in Mails /\ mail'[t] = n /\ \A o \in Tabs : o # t => mail'[o] = mail[o]
  BY <1>7, <1>8 DEF Mails
<1>10. Len(n) = Len(l) + 1 /\ n[Len(l) + 1] = Show[1] /\ \A i \in 1..Len(l) : n[i] = q[i]
  BY <1>3, <1>6, <1>7, ShowIs
<1>11. ASSUME NEW i \in 1..(Len(m) - d)
       PROVE  /\ mail'[t][i].op = m[i + d].op /\ mail'[t][i].x = m[i + d].x
              /\ mail'[t][i].st = m[i + d].st /\ mail'[t][i].got = m[i + d].got
              /\ mail'[t][i].job = "nobody"
  <2>1. i \in 1..Len(l) /\ mail'[t][i] = q[i] /\ l[i] = m[i + d]
    BY <1>2, <1>9, <1>10
  <2> HIDE DEF m
  <2> QED  BY <1>5, <2>1
<1>12. Len(mail'[t]) = Len(m) - d + 1 /\ mail'[t][Len(m) - d + 1] = Show[1]
  <2> HIDE DEF m
  <2> QED  BY <1>2, <1>9, <1>10
<1> QED  BY <1>2, <1>9, <1>11, <1>12 DEF Renewed

\* A queue that moves on by d requests and gets some: each of its requests was there
\* before or is one of those, none is lost but those d, and all of those are there.
Flows(t, d, rs) ==
    /\ \A o \in Tabs : \A i \in DOMAIN mail'[o] :
          \/ \E j \in DOMAIN mail[o] : /\ mail'[o][i] = mail[o][j]
                                       /\ j = IF o = t THEN i + d ELSE i
          \/ o = t /\ \E j \in 1..Len(rs) : mail'[o][i] = rs[j] /\ i = Len(mail[t]) - d + j
    /\ \A o \in Tabs : \A j \in DOMAIN mail[o] :
          (o = t => d < j) => \E i \in DOMAIN mail'[o] : mail'[o][i] = mail[o][j]
    /\ \A j \in 1..Len(rs) : \E i \in DOMAIN mail'[t] : mail'[t][i] = rs[j]

\* Where the requests that are there after a step come from, and what becomes of those that
\* were there.
LEMMA MovedFlow ==
    ASSUME mail \in Mails, NEW t \in Tabs, NEW d \in Nat, NEW rs \in Seq(ReqType), Moved(t, d, rs)
    PROVE  Flows(t, d, rs)
<1> DEFINE m == mail[t]
           n == mail'[t]
<1>1. /\ m \in Seq(ReqType) /\ Len(m) \in Nat /\ DOMAIN m = 1..Len(m)
      /\ n \in Seq(ReqType) /\ Len(n) \in Nat /\ DOMAIN n = 1..Len(n)
      /\ Len(rs) \in Nat
  BY LenProperties DEF Moved, Mails
<1>2. /\ d \in 0..Len(m) /\ Len(n) = Len(m) - d + Len(rs)
      /\ \A i \in 1..(Len(m) - d) : n[i] = m[i + d]
      /\ \A i \in 1..Len(rs) : n[Len(m) - d + i] = rs[i]
      /\ \A o \in Tabs : o # t => mail'[o] = mail[o]
  BY DEF Moved
<1> HIDE DEF m, n
<1>3. ASSUME NEW i \in DOMAIN n
      PROVE  \/ \E j \in DOMAIN m : n[i] = m[j] /\ j = i + d
             \/ \E j \in 1..Len(rs) : n[i] = rs[j] /\ i = Len(m) - d + j
  <2>1. CASE i <= Len(m) - d
    <3>1. i \in 1..(Len(m) - d) /\ i + d \in DOMAIN m
      BY <1>1, <1>2, <2>1
    <3> QED  BY <1>2, <3>1
  <2>2. CASE ~(i <= Len(m) - d)
    <3> DEFINE j == i - (Len(m) - d)
    <3>1. j \in 1..Len(rs) /\ i = Len(m) - d + j
      BY <1>1, <1>2, <2>2
    <3> HIDE DEF j
    <3> QED  BY <1>2, <3>1
  <2> QED  BY <2>1, <2>2
<1>4. ASSUME NEW j \in DOMAIN m, d < j
      PROVE  \E i \in DOMAIN n : n[i] = m[j]
  <2>1. j - d \in 1..(Len(m) - d) /\ j - d \in DOMAIN n /\ j - d + d = j
    BY <1>1, <1>2, <1>4
  <2> QED  BY <1>2, <2>1
<1>5. ASSUME NEW j \in 1..Len(rs)
      PROVE  \E i \in DOMAIN n : n[i] = rs[j]
  <2>1. Len(m) - d + j \in DOMAIN n
    BY <1>1, <1>2
  <2> QED  BY <1>2, <2>1
<1>6. ASSUME NEW o \in Tabs, o # t
      PROVE  /\ \A i \in DOMAIN mail'[o] : \E j \in DOMAIN mail[o] : mail'[o][i] = mail[o][j] /\ j = i
             /\ \A j \in DOMAIN mail[o] : \E i \in DOMAIN mail'[o] : mail'[o][i] = mail[o][j]
  BY <1>2, <1>6
<1>7. \A i \in DOMAIN n : \/ \E j \in DOMAIN m : n[i] = m[j] /\ j = i + d
                         \/ \E j \in 1..Len(rs) : n[i] = rs[j] /\ i = Len(m) - d + j
  BY <1>3
<1>8. \A j \in DOMAIN m : d < j => \E i \in DOMAIN n : n[i] = m[j]
  BY <1>4
<1>9. \A o \in Tabs : \A i \in DOMAIN mail'[o] :
         \/ \E j \in DOMAIN mail[o] : /\ mail'[o][i] = mail[o][j]
                                      /\ j = IF o = t THEN i + d ELSE i
         \/ o = t /\ \E j \in 1..Len(rs) : mail'[o][i] = rs[j] /\ i = Len(mail[t]) - d + j
  <2> SUFFICES ASSUME NEW o \in Tabs, NEW i \in DOMAIN mail'[o]
               PROVE  \/ \E j \in DOMAIN mail[o] : /\ mail'[o][i] = mail[o][j]
                                                    /\ j = IF o = t THEN i + d ELSE i
                      \/ o = t /\ \E j \in 1..Len(rs) : mail'[o][i] = rs[j] /\ i = Len(mail[t]) - d + j
    OBVIOUS
  <2>1. CASE o = t
    BY <1>7, <2>1 DEF m, n
  <2>2. CASE o # t
    BY <1>6, <2>2
  <2> QED  BY <2>1, <2>2
<1>10. \A o \in Tabs : \A j \in DOMAIN mail[o] :
          (o = t => d < j) => \E i \in DOMAIN mail'[o] : mail'[o][i] = mail[o][j]
  BY <1>6, <1>8 DEF m, n
<1> QED  BY <1>5, <1>9, <1>10 DEF n, Flows

LEMMA ServedFlow ==
    ASSUME mail \in Mails, NEW t \in Tabs, NEW k \in 1..Len(mail[t]), Served(t, k)
    PROVE  /\ \A o \in Tabs : DOMAIN mail'[o] = DOMAIN mail[o]
           /\ \A o \in Tabs : \A i \in DOMAIN mail[o] :
                 /\ mail'[o][i].op = mail[o][i].op /\ mail'[o][i].x = mail[o][i].x
                 /\ mail'[o][i].job = mail[o][i].job /\ mail'[o][i].k = mail[o][i].k
                 /\ o # t \/ i # k => mail'[o][i] = mail[o][i]
           /\ k \in DOMAIN mail[t] /\ mail[t][k].st = "sent" /\ mail'[t][k].st # "sent"
           /\ \A i \in DOMAIN mail[t] : i < k => mail[t][i].st # "sent"
<1>1. \A o \in Tabs : /\ Len(mail[o]) \in Nat /\ DOMAIN mail[o] = 1..Len(mail[o])
                      /\ DOMAIN mail'[o] = 1..Len(mail'[o])
  BY LenProperties DEF Served, Mails
<1>2. \A o \in Tabs : Len(mail'[o]) = Len(mail[o])
  BY DEF Served
<1> QED  BY <1>1, <1>2 DEF Served

LEMMA RenewedFlow ==
    ASSUME mail \in Mails, NEW t \in Tabs, NEW d \in 0..Len(mail[t]), Renewed(t, d)
    PROVE  /\ \A o \in Tabs : o # t => mail'[o] = mail[o]
           /\ \A i \in DOMAIN mail'[t] :
                 \/ /\ mail'[t][i].op = "list" /\ mail'[t][i].job = "show"
                    /\ mail'[t][i].st = "sent" /\ mail'[t][i].got = NoRows
                    /\ i = Len(mail[t]) - d + 1
                 \/ \E j \in DOMAIN mail[t] :
                       /\ j = i + d /\ mail'[t][i].job = "nobody"
                       /\ mail'[t][i].op = mail[t][j].op /\ mail'[t][i].x = mail[t][j].x
                       /\ mail'[t][i].st = mail[t][j].st /\ mail'[t][i].got = mail[t][j].got
           /\ \A j \in DOMAIN mail[t] : mail[t][j].st = "sent" =>
                 \E i \in DOMAIN mail'[t] :
                       /\ mail'[t][i].job = "nobody"
                       /\ mail'[t][i].op = mail[t][j].op /\ mail'[t][i].x = mail[t][j].x
                       /\ mail'[t][i].st = mail[t][j].st /\ mail'[t][i].got = mail[t][j].got
<1> DEFINE m == mail[t]
           n == mail'[t]
<1>1. /\ m \in Seq(ReqType) /\ Len(m) \in Nat /\ DOMAIN m = 1..Len(m)
      /\ n \in Seq(ReqType) /\ Len(n) \in Nat /\ DOMAIN n = 1..Len(n)
  BY LenProperties DEF Renewed, Mails
<1>2. /\ d \in 0..Len(m) /\ Len(n) = Len(m) - d + 1
      /\ \A i \in 1..d : m[i].st # "sent"
      /\ \A i \in 1..(Len(m) - d) :
            /\ n[i].op = m[i + d].op /\ n[i].x = m[i + d].x
            /\ n[i].st = m[i + d].st /\ n[i].got = m[i + d].got
            /\ n[i].job = "nobody"
      /\ n[Len(m) - d + 1] = Show[1]
      /\ \A o \in Tabs : o # t => mail'[o] = mail[o]
  BY DEF Renewed
<1> HIDE DEF m, n
<1>3. ASSUME NEW i \in DOMAIN n
      PROVE  \/ n[i] = Show[1] /\ i = Len(m) - d + 1
             \/ i \in 1..(Len(m) - d) /\ i + d \in DOMAIN m
  BY <1>1, <1>2
<1>4. ASSUME NEW j \in DOMAIN m, m[j].st = "sent"
      PROVE  j - d \in 1..(Len(m) - d) /\ j - d \in DOMAIN n /\ j - d + d = j
  <2>1. ~(j <= d)
    BY <1>1, <1>2, <1>4
  <2> QED  BY <1>1, <1>2, <2>1
<1>5. ASSUME NEW i \in DOMAIN n
      PROVE  \/ /\ n[i].op = "list" /\ n[i].job = "show" /\ n[i].st = "sent" /\ n[i].got = NoRows
                /\ i = Len(m) - d + 1
             \/ \E j \in DOMAIN m :
                   /\ j = i + d /\ n[i].job = "nobody"
                   /\ n[i].op = m[j].op /\ n[i].x = m[j].x
                   /\ n[i].st = m[j].st /\ n[i].got = m[j].got
  BY <1>2, <1>3, ShowIs
<1>6. ASSUME NEW j \in DOMAIN m, m[j].st = "sent"
      PROVE  \E i \in DOMAIN n : /\ n[i].job = "nobody"
                                 /\ n[i].op = m[j].op /\ n[i].x = m[j].x
                                 /\ n[i].st = m[j].st /\ n[i].got = m[j].got
  <2>1. PICK i \in 1..(Len(m) - d) : i \in DOMAIN n /\ i + d = j
    BY <1>4, <1>6
  <2>2. /\ n[i].op = m[j].op /\ n[i].x = m[j].x /\ n[i].st = m[j].st /\ n[i].got = m[j].got
        /\ n[i].job = "nobody"
    BY <1>2, <2>1
  <2> QED  BY <2>1, <2>2
<1> QED  BY <1>2, <1>5, <1>6 DEF m, n

-----------------------------------------------------------------------------
(* What each step does to the queues.                                      *)

\* A request for the list, as a page sends it.
IsShow(r) == r.op = "list" /\ r.job = "show" /\ r.st = "sent" /\ r.got = NoRows

LEMMA TypeMails == ASSUME TypeOK PROVE mail \in Mails /\ stored \in Rows
BY DEF TypeOK, Mails

LEMMA AnswerIs ==
    ASSUME TypeOK, NEW t \in Tabs, NEW op, Answer(t, op)
    PROVE  /\ mail[t] # <<>> /\ 1 \in DOMAIN mail[t] /\ Head(mail[t]) = mail[t][1]
           /\ mail[t][1] \in ReqType /\ mail[t][1].op = op /\ mail[t][1].st = "ok"
BY TypeMails, MailType DEF Answer

\* Requests of one page, one after the other.
Sole(rs, op, x, job, k) ==
    /\ rs \in Seq(ReqType) /\ Len(rs) = 1
    /\ rs[1].op = op /\ rs[1].x = x /\ rs[1].job = job /\ rs[1].k = k
    /\ rs[1].st = "sent" /\ rs[1].got = NoRows

LEMMA SoleIs ==
    ASSUME NEW op \in {"insert", "date", "wipe", "undate", "list"}, NEW x \in Xacts \cup {None},
           NEW job \in {"save", "import", "register", "clear", "upload", "show", "nobody"},
           NEW k \in Nat \cup Uploads \cup {None}
    PROVE  Sole(<<Req(op, x, job, k)>>, op, x, job, k)
<1> DEFINE r == Req(op, x, job, k)
<1>1. /\ r \in ReqType /\ r.op = op /\ r.x = x /\ r.job = job /\ r.k = k
      /\ r.st = "sent" /\ r.got = NoRows
  BY ReqIs, SMTT(30)
<1>2. Sole(<<r>>, op, x, job, k)
  <2> HIDE DEF r
  <2> QED  BY <1>1, OneRequest DEF Sole
<1> QED  BY <1>2

\* A page asks for the list, or for nothing.
LEMMA ShowOrNone ==
    ASSUME NEW rs, rs = Show \/ rs = <<>>
    PROVE  rs \in Seq(ReqType) /\ Len(rs) \in {0, 1} /\ \A i \in 1..Len(rs) : IsShow(rs[i])
<1>1. CASE rs = Show
  <2>1. rs \in Seq(ReqType) /\ Len(rs) = 1 /\ IsShow(rs[1])
    BY <1>1, ShowIs DEF IsShow
  <2> QED  BY <2>1
<1>2. CASE rs = <<>>
  <2>1. rs \in Seq(ReqType) /\ Len(rs) = 0
    BY <1>2, NoRequest
  <2> QED  BY <2>1
<1> QED  BY <1>1, <1>2

LEMMA InsertedIs ==
    ASSUME TypeOK, NEW t \in Tabs, Inserted(t)
    PROVE  \E rs \in Seq(ReqType) :
              /\ Moved(t, 1, rs)
              /\ Len(rs) = IF mail[t][1].job = "nobody" THEN 0 ELSE 1
              /\ \A i \in 1..Len(rs) :
                    /\ rs[i].op = "date" /\ rs[i].job = mail[t][1].job /\ rs[i].k = mail[t][1].k
                    /\ rs[i].st = "sent" /\ rs[i].got = NoRows
<1> DEFINE r == mail[t][1]
           rs == IF r.job = "nobody" THEN <<>> ELSE <<Req("date", r.x, r.job, r.k)>>
<1>1. mail[t] # <<>> /\ r \in ReqType /\ Read(t, rs) /\ mail \in Mails
  BY AnswerIs, TypeMails DEF Inserted
<1>2. /\ r.x \in Xacts \cup {None} /\ r.k \in Nat \cup Uploads \cup {None}
      /\ r.job \in {"save", "import", "register", "clear", "upload", "show", "nobody"}
  BY <1>1 DEF ReqType
<1> HIDE DEF r
<1>3. /\ rs \in Seq(ReqType) /\ Len(rs) = IF r.job = "nobody" THEN 0 ELSE 1
      /\ \A i \in 1..Len(rs) : /\ rs[i].op = "date" /\ rs[i].job = r.job /\ rs[i].k = r.k
                               /\ rs[i].st = "sent" /\ rs[i].got = NoRows
  <2>1. CASE r.job = "nobody"
    BY <2>1, NoRequest
  <2>2. CASE r.job # "nobody"
    <3> DEFINE q == <<Req("date", r.x, r.job, r.k)>>
    <3>1. Sole(q, "date", r.x, r.job, r.k)
      BY <1>2, SoleIs
    <3>2. rs = q
      BY <2>2
    <3>3. /\ rs \in Seq(ReqType) /\ Len(rs) = 1 /\ rs[1].op = "date"
          /\ rs[1].job = r.job /\ rs[1].k = r.k /\ rs[1].st = "sent" /\ rs[1].got = NoRows
      <4> HIDE DEF q, rs
      <4> QED  BY <3>1, <3>2 DEF Sole
    <3> HIDE DEF rs
    <3> QED  BY <2>2, <3>3
  <2> QED  BY <2>1, <2>2
<1> HIDE DEF rs
<1>4. Moved(t, 1, rs)
  BY <1>1, <1>3, ReadIs
<1> QED  BY <1>3, <1>4 DEF r

LEMMA DatedIs ==
    ASSUME TypeOK, NEW t \in Tabs, Dated(t)
    PROVE  \E rs \in Seq(ReqType) :
              /\ Moved(t, 1, rs)
              /\ \/ /\ mail[t][1].job = "register" /\ StartSave(t, mail[t][1].k, TRUE)
                    /\ InsertsOf(rs, page[t], "save", mail[t][1].k)
                 \/ /\ mail[t][1].job # "register" /\ saving' = saving
                    /\ Len(rs) \in {0, 1} /\ \A i \in 1..Len(rs) : IsShow(rs[i])
<1> DEFINE r == mail[t][1]
<1>1. /\ mail[t] # <<>> /\ r \in ReqType /\ mail \in Mails /\ Head(mail[t]) = r
      /\ r.k \in Nat \cup Uploads \cup {None} /\ page[t] \in SUBSET Xacts
  BY AnswerIs, TypeMails DEF Dated, ReqType, TypeOK
<1>2. CASE /\ r.job = "register" /\ StartSave(t, r.k, TRUE)
           /\ Read(t, Inserts(page[t], "save", r.k))
  <2>1. InsertsOf(Inserts(page[t], "save", r.k), page[t], "save", r.k)
    BY <1>1, InsertsIs
  <2>2. Inserts(page[t], "save", r.k) \in Seq(ReqType)
    BY <2>1 DEF InsertsOf
  <2>3. Moved(t, 1, Inserts(page[t], "save", r.k))
    BY <1>1, <1>2, <2>2, ReadIs
  <2> QED  BY <1>2, <2>1, <2>2, <2>3
<1>3. CASE /\ r.job # "register" /\ saving' = saving
           /\ Read(t, IF r.job = "import" /\ LastImport(t) THEN Show ELSE <<>>)
  <2> DEFINE rs == IF r.job = "import" /\ LastImport(t) THEN Show ELSE <<>>
  <2>1. rs \in Seq(ReqType) /\ Len(rs) \in {0, 1} /\ \A i \in 1..Len(rs) : IsShow(rs[i])
    BY ShowOrNone
  <2> HIDE DEF rs
  <2>2. Moved(t, 1, rs)
    BY <1>1, <1>3, <2>1, ReadIs DEF rs
  <2> QED  BY <1>3, <2>1, <2>2
<1> QED  BY <1>1, <1>2, <1>3 DEF Dated

LEMMA WipedIs ==
    ASSUME TypeOK, NEW t \in Tabs, Wiped(t)
    PROVE  \E rs \in Seq(ReqType) :
              /\ Moved(t, 1, rs)
              /\ Len(rs) = IF mail[t][1].job = "nobody" THEN 0 ELSE 1
              /\ \A i \in 1..Len(rs) : /\ rs[i].op = "undate" /\ rs[i].job = "clear"
                                       /\ rs[i].st = "sent" /\ rs[i].got = NoRows
<1> DEFINE r == mail[t][1]
           q == <<Req("undate", None, "clear", None)>>
           rs == IF r.job = "nobody" THEN <<>> ELSE q
<1>1. mail[t] # <<>> /\ Read(t, rs) /\ mail \in Mails
  BY AnswerIs, TypeMails DEF Wiped
<1>2. Sole(q, "undate", None, "clear", None)
  BY SoleIs
<1> HIDE DEF q
<1>3. /\ rs \in Seq(ReqType) /\ Len(rs) = IF r.job = "nobody" THEN 0 ELSE 1
      /\ \A i \in 1..Len(rs) : /\ rs[i].op = "undate" /\ rs[i].job = "clear"
                               /\ rs[i].st = "sent" /\ rs[i].got = NoRows
  <2>1. CASE r.job = "nobody"
    BY <2>1, NoRequest
  <2>2. CASE r.job # "nobody"
    BY <1>2, <2>2, SMTT(30) DEF Sole
  <2> QED  BY <2>1, <2>2
<1> HIDE DEF rs
<1>4. Moved(t, 1, rs)
  BY <1>1, <1>3, ReadIs
<1> QED  BY <1>3, <1>4

LEMMA UndatedIs ==
    ASSUME TypeOK, NEW t \in Tabs, Undated(t)
    PROVE  \E rs \in Seq(ReqType) :
              Moved(t, 1, rs) /\ Len(rs) \in {0, 1} /\ \A i \in 1..Len(rs) : IsShow(rs[i])
<1> DEFINE rs == IF Head(mail[t]).job = "nobody" THEN <<>> ELSE Show
<1>1. mail[t] # <<>> /\ Read(t, rs) /\ mail \in Mails
  BY AnswerIs, TypeMails DEF Undated
<1>2. rs \in Seq(ReqType) /\ Len(rs) \in {0, 1} /\ \A i \in 1..Len(rs) : IsShow(rs[i])
  BY ShowOrNone, SMTT(30)
<1> HIDE DEF rs
<1> QED  BY <1>1, <1>2, ReadIs

LEMMA ListedIs ==
    ASSUME TypeOK, NEW t \in Tabs, Listed(t)
    PROVE  /\ Moved(t, 1, <<>>) /\ 1 \in DOMAIN mail[t] /\ mail[t][1] \in ReqType
           /\ mail[t][1].op = "list" /\ mail[t][1].st = "ok" /\ Head(mail[t]) = mail[t][1]
BY AnswerIs, TypeMails, NoRequest, ReadIs DEF Listed

LEMMA RefusedIs ==
    ASSUME TypeOK, NEW t \in Tabs, Refused(t)
    PROVE  /\ Moved(t, 1, <<>>) /\ 1 \in DOMAIN mail[t] /\ mail[t][1] \in ReqType
           /\ mail[t][1].st = "err" /\ Head(mail[t]) = mail[t][1]
BY TypeMails, MailType, NoRequest, ReadIs DEF Refused

LEMMA ShowPosted ==
    ASSUME TypeOK, NEW t \in Tabs, Post(t, Show)
    PROVE  \E rs \in Seq(ReqType) : Moved(t, 0, rs) /\ Len(rs) = 1 /\ IsShow(rs[1])
BY TypeMails, PostIs, ShowIs DEF IsShow

LEMMA InsertsPosted ==
    ASSUME TypeOK, NEW t \in Tabs, NEW xs \in SUBSET Xacts, NEW job \in {"save", "import"},
           NEW k \in Nat \cup Uploads \cup {None}, Post(t, Inserts(xs, job, k))
    PROVE  \E rs \in Seq(ReqType) : Moved(t, 0, rs) /\ InsertsOf(rs, xs, job, k)
<1> DEFINE rs == Inserts(xs, job, k)
<1>1. InsertsOf(rs, xs, job, k) /\ Post(t, rs)
  BY InsertsIs
<1>2. rs \in Seq(ReqType)
  BY <1>1 DEF InsertsOf
<1> HIDE DEF rs
<1>3. Moved(t, 0, rs)
  BY <1>1, <1>2, TypeMails, PostIs
<1> QED  BY <1>1, <1>2, <1>3

LEMMA SolePosted ==
    ASSUME TypeOK, NEW t \in Tabs,
           NEW op \in {"insert", "date", "wipe", "undate", "list"}, NEW x \in Xacts \cup {None},
           NEW job \in {"save", "import", "register", "clear", "upload", "show", "nobody"},
           NEW k \in Nat \cup Uploads \cup {None}, Post(t, <<Req(op, x, job, k)>>)
    PROVE  \E rs \in Seq(ReqType) : Moved(t, 0, rs) /\ Sole(rs, op, x, job, k)
<1> DEFINE rs == <<Req(op, x, job, k)>>
<1>1. Sole(rs, op, x, job, k) /\ Post(t, rs)
  BY SoleIs
<1>2. rs \in Seq(ReqType)
  BY <1>1 DEF Sole
<1> HIDE DEF rs
<1>3. Moved(t, 0, rs)
  BY <1>1, <1>2, TypeMails, PostIs
<1> QED  BY <1>1, <1>2, <1>3

-----------------------------------------------------------------------------
(* The variables keep their types.                                         *)

LEMMA RowsAre ==
    /\ NoRows \in Rows
    /\ \A a, b \in Rows : Sum2(a, b) \in Rows
    /\ \A a \in Rows, x \in Xacts : [a EXCEPT ![x] = @ + 1] \in Rows
BY DEF NoRows, Rows, Sum2

UpType == [tab : Tabs \cup {None}, asked : Sessions \cup {None}, pc : UploadPc, blob : Rows,
           to : Sessions \cup {None}]
SaveType == [k : 1..MaxSaves, reload : BOOLEAN, spoiled : BOOLEAN]

LEMMA UpsAre ==
    /\ Finished \in UpType /\ Finished.tab = None /\ Finished.pc = "done" /\ Finished.to = None
    /\ Finished.blob = NoRows /\ Finished.asked = None
    /\ \A a \in UpType : /\ a.tab \in Tabs \cup {None} /\ a.asked \in Sessions \cup {None}
                         /\ a.pc \in UploadPc /\ a.blob \in Rows /\ a.to \in Sessions \cup {None}
    /\ \A a \in UpType : \A pc \in UploadPc : [a EXCEPT !.pc = pc] \in UpType
    /\ \A a \in UpType : [a EXCEPT !.tab = None] \in UpType
    /\ \A a \in UpType : \A b \in Rows : \A s \in Sessions \cup {None} :
          [a EXCEPT !.blob = b, !.pc = "load", !.to = s] \in UpType
    /\ \A t \in Tabs, s \in Sessions :
          [tab |-> t, asked |-> s, pc |-> "asked", blob |-> NoRows, to |-> None] \in UpType
BY RowsAre DEF Finished, NoUpload, UpType, UploadPc

LEMMA SavesAre ==
    /\ \A s \in SaveType : /\ s.k \in 1..MaxSaves /\ s.reload \in BOOLEAN /\ s.spoiled \in BOOLEAN
                           /\ [s EXCEPT !.spoiled = TRUE] \in SaveType
    /\ \A k \in 1..MaxSaves : \A r \in BOOLEAN : [k |-> k, reload |-> r, spoiled |-> FALSE] \in SaveType
BY DEF SaveType

LEMMA TypeUps ==
    /\ TypeOK => up \in [Uploads -> UpType] /\ saving \in [Tabs -> SUBSET SaveType]
BY DEF TypeOK, UpType, SaveType

\* What a request is about.
LEMMA HeadOf ==
    ASSUME TypeOK, Known, NEW t \in Tabs, NEW i \in DOMAIN mail[t]
    PROVE  /\ mail[t][i] \in ReqType /\ Wellmade(t, mail[t][i])
           /\ mail[t][i].op = "insert" => mail[t][i].x \in Xacts
           /\ mail[t][i].job \in {"save", "register"} => mail[t][i].k \in 1..MaxSaves /\ t \in EntryTabs
           /\ mail[t][i].job = "upload" => /\ mail[t][i].k \in Uploads
                                           /\ up[mail[t][i].k].tab = t /\ up[mail[t][i].k].pc = "blob"
           /\ mail[t][i].got \in Rows
<1>1. mail[t][i] \in ReqType /\ Wellmade(t, mail[t][i])
  BY TypeMails, MailType DEF Known
<1>2. mail[t][i].x \in Xacts \cup {None} /\ mail[t][i].got \in Rows
  BY <1>1 DEF ReqType
<1>3. entered \subseteq Xacts
  BY DEF TypeOK
<1> QED  BY <1>1, <1>2, <1>3, OfflineAssumption DEF Wellmade

LEMMA TypeReload ==
    ASSUME TypeOK, NEW t \in Tabs, Reload(t), UNCHANGED <<saves, storeVars, diskVars, serverVars, ways>>,
           entered' = entered, denied' = denied, dropped' \in SUBSET entered
    PROVE  TypeOK'
<1>1. mail' \in [Tabs -> Seq(ReqType)]
  BY TypeMails, ReloadIs DEF Renewed, Mails
<1>2. /\ page' \in [Tabs -> SUBSET Xacts] /\ warns' \in [Tabs -> BOOLEAN]
      /\ saving' \in [Tabs -> SUBSET SaveType]
      /\ shown' \in [Tabs -> Rows] /\ current' \in [Tabs -> Sessions \cup {None}]
  BY RowsAre, TypeUps DEF TypeOK, Reload
<1>3. up' \in [Uploads -> UpType]
  BY TypeUps, UpsAre DEF Reload
<1> QED  BY <1>1, <1>2, <1>3 DEF TypeOK, storeVars, diskVars, serverVars, UpType, SaveType

LEMMA TypeStep ==
    ASSUME TypeOK, Known, Next
    PROVE  TypeOK'
<1> USE DEF tabVars, storeVars, diskVars, serverVars, staffVars
<1>0. /\ mail \in Mails /\ ways' = ways
      /\ \A t \in Tabs, d \in Nat, rs \in Seq(ReqType) : Moved(t, d, rs) => mail' \in [Tabs -> Seq(ReqType)]
  BY TypeMails DEF Moved, Mails, Next
<1>1. ASSUME NEW t \in Tabs, Work(t) PROVE TypeOK'
  <2>1. PICK i \in 1..Len(mail[t]) : Served(t, i)
    BY <1>1, TypeMails, WorkIs
  <2>2. i \in DOMAIN mail[t] /\ (mail[t][i].op = "insert" => mail[t][i].x \in Xacts /\ mail[t][i].x \in entered)
    BY <2>1, <1>0, MailType, HeadOf DEF Wellmade
  <2>3. mail' \in [Tabs -> Seq(ReqType)]
    BY <2>1 DEF Served, Mails
  <2>4. stored' \in Rows /\ date' \in BOOLEAN /\ denied' \subseteq entered
    <3>1. CASE Perform(mail[t][i]) /\ denied' = denied
      BY <2>2, <3>1, RowsAre DEF Perform, TypeOK
    <3>2. CASE /\ UNCHANGED storeVars
               /\ denied' = IF mail[t][i].op = "insert" THEN denied \cup {mail[t][i].x} ELSE denied
      BY <2>2, <3>2 DEF TypeOK
    <3> QED  BY <2>1, <3>1, <3>2 DEF Served
  <2> QED  BY <1>0, <1>1, <2>3, <2>4 DEF TypeOK, Work
<1>2. ASSUME NEW t \in Tabs, Inserted(t) PROVE TypeOK'
  <2>1. mail' \in [Tabs -> Seq(ReqType)]
    BY <1>0, <1>2, InsertedIs
  <2> QED  BY <1>0, <1>2, <2>1 DEF TypeOK, Inserted
<1>3. ASSUME NEW t \in Tabs, Dated(t) PROVE TypeOK'
  <2>1. /\ mail' \in [Tabs -> Seq(ReqType)]
        /\ \/ StartSave(t, mail[t][1].k, TRUE) /\ mail[t][1].job = "register"
           \/ saving' = saving
    BY <1>0, <1>3, DatedIs
  <2>2. saving' \in [Tabs -> SUBSET SaveType]
    <3>1. CASE StartSave(t, mail[t][1].k, TRUE) /\ mail[t][1].job = "register"
      <4>1. mail[t][1].k \in 1..MaxSaves
        BY <1>3, <3>1, AnswerIs, HeadOf DEF Dated
      <4>2. [k |-> mail[t][1].k, reload |-> TRUE, spoiled |-> FALSE] \in SaveType
        BY <4>1, SavesAre
      <4> QED  BY <3>1, <4>2, TypeUps DEF StartSave
    <3> QED  BY <2>1, <3>1, TypeUps
  <2> QED  BY <1>0, <1>3, <2>1, <2>2 DEF TypeOK, Dated, SaveType
<1>4. ASSUME NEW t \in Tabs, Wiped(t) PROVE TypeOK'
  <2>1. mail' \in [Tabs -> Seq(ReqType)]
    BY <1>0, <1>4, WipedIs
  <2> QED  BY <1>0, <1>4, <2>1 DEF TypeOK, Wiped
<1>5. ASSUME NEW t \in Tabs, Undated(t) PROVE TypeOK'
  <2>1. mail' \in [Tabs -> Seq(ReqType)]
    BY <1>0, <1>5, UndatedIs
  <2> QED  BY <1>0, <1>5, <2>1, SMTT(30) DEF TypeOK, Undated
<1>6. ASSUME NEW t \in Tabs, Listed(t) PROVE TypeOK'
  <2> DEFINE r == mail[t][1]
  <2>1. /\ mail' \in [Tabs -> Seq(ReqType)] /\ r \in ReqType /\ r.got \in Rows /\ Head(mail[t]) = r
        /\ r.job = "upload" => r.k \in Uploads
    BY <1>0, <1>6, NoRequest, ListedIs, HeadOf
  <2> HIDE DEF r
  <2>2. shown' \in [Tabs -> Rows]
    BY <1>6, <2>1 DEF Listed, TypeOK
  <2>3. up' \in [Uploads -> UpType]
    <3>1. CASE r.job # "upload"
      BY <1>6, <2>1, <3>1, TypeUps DEF Listed
    <3>2. CASE r.job = "upload"
      <4>1. up' = [up EXCEPT ![r.k].blob = r.got, ![r.k].pc = "load", ![r.k].to = current[t]]
        BY <1>6, <2>1, <3>2, Zenon DEF Listed
      <4>2. current[t] \in Sessions \cup {None} /\ up[r.k] \in UpType
        BY <2>1, <3>2, TypeUps DEF TypeOK
      <4>3. [up[r.k] EXCEPT !.blob = r.got, !.pc = "load", !.to = current[t]] \in UpType
        BY <2>1, <4>2, UpsAre
      <4>4. up' = [up EXCEPT ![r.k] = [up[r.k] EXCEPT !.blob = r.got, !.pc = "load", !.to = current[t]]]
        BY <2>1, <3>2, <4>1, TypeUps
      <4> QED  BY <4>3, <4>4, TypeUps, Zenon
    <3> QED  BY <3>1, <3>2, Zenon
  <2> QED  BY <1>0, <1>6, <2>1, <2>2, <2>3, Zenon DEF TypeOK, Listed, UpType
<1>7. ASSUME NEW t \in Tabs, Refused(t) PROVE TypeOK'
  <2> DEFINE r == mail[t][1]
  <2>1. /\ mail' \in [Tabs -> Seq(ReqType)] /\ Head(mail[t]) = r
        /\ r.job = "upload" => r.k \in Uploads
    BY <1>0, <1>7, NoRequest, RefusedIs, HeadOf
  <2> HIDE DEF r
  <2>2. saving' \in [Tabs -> SUBSET SaveType]
    BY <1>7, <2>1, TypeUps, SavesAre DEF Refused
  <2>3. up' \in [Uploads -> UpType]
    BY <1>7, TypeUps DEF Refused
  <2> QED  BY <1>0, <1>7, <2>1, <2>2, <2>3 DEF TypeOK, Refused, UpType, SaveType
<1>8. ASSUME NEW t \in Tabs, NEW s \in saving[t], SaveSettled(t, s) PROVE TypeOK'
  <2>1. CASE s.reload
    BY <1>0, <1>8, <2>1, TypeReload DEF SaveSettled, TypeOK
  <2>2. CASE ~s.reload
    <3>1. mail' \in [Tabs -> Seq(ReqType)]
      BY <1>0, <1>8, <2>2, ShowPosted DEF SaveSettled
    <3>4. saving' = [saving EXCEPT ![t] = @ \ {s}] /\ page' = [page EXCEPT ![t] = {}]
      BY <1>8, <2>2 DEF SaveSettled
    <3>2. saving' \in [Tabs -> SUBSET SaveType] /\ page' \in [Tabs -> SUBSET Xacts]
      BY <3>4, TypeUps DEF TypeOK
    <3>3. warns' \in [Tabs -> BOOLEAN]
      BY <1>8, <2>2 DEF SaveSettled, TypeOK
    <3> QED  BY <1>0, <1>8, <2>2, <3>1, <3>2, <3>3 DEF TypeOK, SaveSettled, SaveType
  <2> QED  BY <2>1, <2>2
<1>9. ASSUME NEW t \in Tabs, NEW x \in Xacts, Add(t, x) PROVE TypeOK'
  BY <1>0, <1>9 DEF Add, TypeOK
<1>10. ASSUME NEW t \in Tabs, NEW x \in Xacts, Register(t, x) PROVE TypeOK'
  <2>1. mail' \in [Tabs -> Seq(ReqType)]
    <3>1. saves[t] + 1 \in Nat /\ Post(t, <<Req("insert", x, "register", saves[t] + 1)>>)
      BY <1>10, OfflineAssumption DEF Register, TypeOK
    <3> QED  BY <1>0, <3>1, SolePosted
  <2>2. saves' \in [Tabs -> 0..MaxSaves]
    BY <1>10, OfflineAssumption DEF Register, TypeOK
  <2>3. entered' \subseteq Xacts
    BY <1>10 DEF Register, TypeOK
  <2> QED  BY <1>0, <1>10, <2>1, <2>2, <2>3 DEF Register, TypeOK
<1>11. ASSUME NEW t \in Tabs, Save(t) PROVE TypeOK'
  <2>0. saves[t] + 1 \in 1..MaxSaves
    BY <1>11, OfflineAssumption DEF Save, TypeOK
  <2>1. mail' \in [Tabs -> Seq(ReqType)]
    <3>1. page[t] \in SUBSET Xacts /\ saves[t] + 1 \in Nat /\ Post(t, Inserts(page[t], "save", saves[t] + 1))
      BY <1>11, <2>0 DEF Save, TypeOK
    <3> QED  BY <1>0, <3>1, InsertsPosted
  <2>2. saves' \in [Tabs -> 0..MaxSaves]
    BY <1>11, <2>0, OfflineAssumption DEF Save, TypeOK
  <2>3. saving' \in [Tabs -> SUBSET SaveType]
    <3>1. [k |-> saves[t] + 1, reload |-> FALSE, spoiled |-> FALSE] \in SaveType
      BY <2>0, SavesAre
    <3> QED  BY <1>11, <3>1, TypeUps DEF Save, StartSave
  <2> QED  BY <1>0, <1>11, <2>1, <2>2, <2>3 DEF Save, TypeOK, SaveType
<1>12. ASSUME NEW t \in Tabs, Close(t) PROVE TypeOK'
  <2>1. dropped' \in SUBSET entered
    BY <1>12 DEF Close, TypeOK, Known
  <2> QED  BY <1>0, <1>12, <2>1, TypeReload DEF Close
<1>13. ASSUME NEW t \in Tabs, Stay(t) PROVE TypeOK'
  BY <1>0, <1>13 DEF Stay, TypeOK
<1>14. ASSUME NEW t \in Tabs, Look(t) PROVE TypeOK'
  <2>1. mail' \in [Tabs -> Seq(ReqType)]
    BY <1>0, <1>14, ShowPosted DEF Look
  <2> QED  BY <1>0, <1>14, <2>1 DEF Look, TypeOK
<1>15. ASSUME NEW t \in Tabs, ClearPending(t) PROVE TypeOK'
  <2>1. mail' \in [Tabs -> Seq(ReqType)]
    BY <1>0, <1>15, SolePosted DEF ClearPending
  <2>2. dropped' \subseteq entered
    <3>1. InMail \subseteq entered
      BY HeadOf DEF InMail, Wellmade
    <3> QED  BY <1>15, <3>1 DEF ClearPending, TypeOK, Known
  <2> QED  BY <1>0, <1>15, <2>1, <2>2 DEF ClearPending, TypeOK
<1>16. ASSUME NEW t \in Tabs, Export(t) PROVE TypeOK'
  BY <1>0, <1>16 DEF Export, TypeOK, In
<1>17. ASSUME NEW t \in Tabs, Import(t) PROVE TypeOK'
  <2>1. mail' \in [Tabs -> Seq(ReqType)]
    <3>1. disk \in SUBSET Xacts /\ Post(t, Inserts(disk, "import", None))
      BY <1>17 DEF Import, TypeOK
    <3> QED  BY <1>0, <3>1, InsertsPosted
  <2>2. imports' \in 0..MaxImports
    BY <1>17, OfflineAssumption DEF Import, TypeOK
  <2> QED  BY <1>0, <1>17, <2>1, <2>2 DEF Import, TypeOK
<1>18. ASSUME NEW t \in Tabs, NEW s \in Sessions, Select(t, s) PROVE TypeOK'
  BY <1>0, <1>18 DEF Select, TypeOK
<1>19. ASSUME NEW t \in Tabs, NEW s \in Sessions, Process(t, s) PROVE TypeOK'
  <2>1. [x \in Xacts |-> scripts[s] * file[s][x]] \in Rows
    <3>1. scripts[s] \in Nat /\ \A x \in Xacts : file[s][x] \in Nat
      BY DEF TypeOK, Rows
    <3> QED  BY <3>1 DEF Rows
  <2>2. kids' \in [Sessions -> Seq(Rows)]
    <3> DEFINE a == [x \in Xacts |-> scripts[s] * file[s][x]]
    <3> HIDE DEF a
    <3>1. kids' = [kids EXCEPT ![s] = Append(@, a)] /\ a \in Rows
      BY <1>19, <2>1 DEF Process, a
    <3>2. kids[s] \in Seq(Rows) /\ Append(kids[s], a) \in Seq(Rows)
      BY <3>1, AppendProperties DEF TypeOK
    <3> QED  BY <3>1, <3>2 DEF TypeOK
  <2> QED  BY <1>0, <1>19, <2>2 DEF Process, TypeOK
<1>20. ASSUME NEW t \in Tabs, NEW s \in Sessions, NEW u \in Uploads, AskUpload(t, u, s) PROVE TypeOK'
  <2>1. up' \in [Uploads -> UpType]
    BY <1>20, UpsAre, TypeUps DEF AskUpload
  <2> QED  BY <1>0, <1>20, <2>1 DEF AskUpload, TypeOK, UpType
<1>21. ASSUME NEW u \in Uploads, GotExceptions(u) PROVE TypeOK'
  <2>1. mail' \in [Tabs -> Seq(ReqType)]
    <3>1. up[u].tab \in Tabs
      BY <1>21 DEF GotExceptions, Alive, TypeOK
    <3>2. PICK rs \in Seq(ReqType) : Moved(up[u].tab, 0, rs)
      BY <1>21, <3>1, SolePosted, ZenonT(30) DEF GotExceptions
    <3> QED  BY <1>0, <3>1, <3>2
  <2>2. up' \in [Uploads -> UpType]
    <3>1. "blob" \in UploadPc /\ up' = [up EXCEPT ![u] = [@ EXCEPT !.pc = "blob"]]
      BY <1>21 DEF GotExceptions, UploadPc
    <3> QED  BY <3>1, UpsAre, TypeUps
  <2> QED  BY <1>0, <1>21, <2>1, <2>2 DEF GotExceptions, TypeOK, UpType
<1>22. ASSUME NEW u \in Uploads, LoadCheck(u) PROVE TypeOK'
  <2>1. up' \in [Uploads -> UpType]
    <3> DEFINE pc == IF scripts[up[u].to] > 0 \/ ended[up[u].to] THEN "refused" ELSE "append"
    <3>1. pc \in UploadPc /\ up' = [up EXCEPT ![u] = [@ EXCEPT !.pc = pc]]
      BY <1>22 DEF LoadCheck, UploadPc
    <3> HIDE DEF pc
    <3> QED  BY <3>1, UpsAre, TypeUps
  <2> QED  BY <1>0, <1>22, <2>1 DEF LoadCheck, TypeOK, UpType
<1>23. ASSUME NEW u \in Uploads, LoadAppend(u) PROVE TypeOK'
  <2> DEFINE s == up[u].to
  <2>1. up' \in [Uploads -> UpType]
    <3>1. "loaded" \in UploadPc /\ up' = [up EXCEPT ![u] = [@ EXCEPT !.pc = "loaded"]]
      BY <1>23 DEF LoadAppend, UploadPc
    <3> QED  BY <3>1, UpsAre, TypeUps
  <2>2. up[u].blob \in Rows /\ file \in [Sessions -> Rows] /\ scripts \in [Sessions -> Nat]
    BY DEF TypeOK
  <2>3. /\ file' = [file EXCEPT ![s] = Sum2(@, up[u].blob)]
        /\ scripts' = [scripts EXCEPT ![s] = @ + 1]
    BY <1>23 DEF LoadAppend
  <2>5. s \in Sessions
    BY <1>23 DEF LoadAppend, Known, WellUp, Begun
  <2> HIDE DEF s
  <2>4. file' \in [Sessions -> Rows] /\ scripts' \in [Sessions -> Nat]
    BY <2>2, <2>3, <2>5, RowsAre
  <2> HIDE DEF s
  <2> QED  BY <1>0, <1>23, <2>1, <2>4 DEF LoadAppend, TypeOK, UpType
<1>24. ASSUME NEW u \in Uploads, Loaded(u) PROVE TypeOK'
  <2>1. mail' \in [Tabs -> Seq(ReqType)]
    <3>1. CASE Alive(u)
      <4>1. up[u].tab \in Tabs
        BY <3>1 DEF Alive, TypeOK
      <4>2. PICK rs \in Seq(ReqType) : Moved(up[u].tab, 0, rs)
        BY <1>24, <3>1, <4>1, SolePosted DEF Loaded
      <4> QED  BY <1>0, <4>1, <4>2
    <3>2. CASE ~Alive(u)
      BY <1>24, <3>2 DEF Loaded, TypeOK
    <3> QED  BY <3>1, <3>2
  <2>2. up' \in [Uploads -> UpType]
    BY <1>24, UpsAre, TypeUps DEF Loaded
  <2> QED  BY <1>0, <1>24, <2>1, <2>2 DEF Loaded, TypeOK, UpType
<1>25. ASSUME NEW u \in Uploads, NotLoaded(u) PROVE TypeOK'
  <2>1. up' \in [Uploads -> UpType]
    BY <1>25, UpsAre, TypeUps DEF NotLoaded
  <2> QED  BY <1>0, <1>25, <2>1 DEF NotLoaded, TypeOK, UpType
<1>26. ASSUME NEW s \in Sessions, ChildRuns(s) PROVE TypeOK'
  <2>1. ran' \in Rows /\ kids' \in [Sessions -> Seq(Rows)]
    <3>1. kids[s] \in Seq(Rows) /\ kids[s] # <<>>
      BY <1>26 DEF ChildRuns, TypeOK
    <3>2. Head(kids[s]) \in Rows /\ Tail(kids[s]) \in Seq(Rows)
      BY <3>1
    <3> QED  BY <1>26, <3>2, RowsAre DEF ChildRuns, TypeOK
  <2> QED  BY <1>0, <1>26, <2>1 DEF ChildRuns, TypeOK
<1> QED
  BY <1>1, <1>2, <1>3, <1>4, <1>5, <1>6, <1>7, <1>8, <1>9, <1>10, <1>11, <1>12, <1>13, <1>14,
     <1>15, <1>16, <1>17, <1>18, <1>19, <1>20, <1>21, <1>22, <1>23, <1>24, <1>25, <1>26
     DEF Next, Machine, Network, Staff

-----------------------------------------------------------------------------
(* Nothing but what was entered is anywhere, and requests are well made.   *)

KnownData ==
    /\ In(stored) \subseteq entered /\ disk \subseteq entered
    /\ \A s \in Sessions : In(file[s]) \subseteq entered
    /\ \A t \in Tabs : page[t] \subseteq entered /\ In(shown[t]) \subseteq entered
    /\ \A t, o \in Tabs : \A x \in page[t] : x \in page[o] => o = t
    /\ \A t \in SessionTabs : page[t] = {} /\ saving[t] = {}

KnownUps == \A u \in Uploads : WellUp(up[u])

KnownMail ==
    \A t \in Tabs : \A i \in DOMAIN mail[t] :
        /\ Wellmade(t, mail[t][i])
        /\ mail[t][i].job = "upload" => \A j \in DOMAIN mail[t] :
              mail[t][j].job = "upload" /\ mail[t][j].k = mail[t][i].k => j = i

LEMMA KnownIs == /\ Known <=> KnownData /\ KnownUps /\ KnownMail
                 /\ Known' <=> KnownData' /\ KnownUps' /\ KnownMail'
BY DEF Known, KnownData, KnownUps, KnownMail

LEMMA WellKept ==
    ASSUME NEW t, NEW r, Wellmade(t, r), entered \subseteq entered',
           r.job = "upload" => up'[r.k] = up[r.k]
    PROVE  Wellmade(t, r)'
BY DEF Wellmade

LEMMA ShowWell == ASSUME NEW t, NEW r, IsShow(r) PROVE Wellmade(t, r)'
BY NoRowsType DEF IsShow, Wellmade

LEMMA MailMoved ==
    ASSUME TypeOK, KnownMail, NEW t \in Tabs, NEW d \in Nat, NEW rs \in Seq(ReqType), Moved(t, d, rs),
           entered \subseteq entered',
           \A o \in Tabs : \A j \in DOMAIN mail[o] :
              (o = t => d < j) /\ mail[o][j].job = "upload" => up'[mail[o][j].k] = up[mail[o][j].k],
           \A i \in 1..Len(rs) : Wellmade(t, rs[i])',
           \/ \A i \in 1..Len(rs) : rs[i].job # "upload"
           \/ Len(rs) = 1 /\ \A j \in DOMAIN mail[t] : mail[t][j].job = "upload" => mail[t][j].k # rs[1].k
    PROVE  KnownMail'
<1> DEFINE New(o, i) == o = t /\ \E j \in 1..Len(rs) : mail'[o][i] = rs[j] /\ i = Len(mail[t]) - d + j
           Old(o, i) == \E j \in DOMAIN mail[o] : /\ mail'[o][i] = mail[o][j]
                                                  /\ j = IF o = t THEN i + d ELSE i
<1>1. \A o \in Tabs : \A i \in DOMAIN mail'[o] : Old(o, i) \/ New(o, i)
  <2>1. Flows(t, d, rs)
    BY TypeMails, MovedFlow
  <2> QED  BY <2>1 DEF Flows
<1>2. /\ Len(mail[t]) \in Nat /\ d \in 0..Len(mail[t]) /\ Len(rs) \in Nat
      /\ \A o \in Tabs : DOMAIN mail'[o] = 1..Len(mail'[o]) /\ Len(mail'[o]) \in Nat
  BY TypeMails, MailType, LenProperties DEF Moved, Mails
<1>3. ASSUME NEW o \in Tabs, NEW i \in DOMAIN mail'[o]
      PROVE  Wellmade(o, mail[o][i])'
  <2>1. CASE Old(o, i)
    <3>1. PICK j \in DOMAIN mail[o] : mail'[o][i] = mail[o][j] /\ j = IF o = t THEN i + d ELSE i
      BY <2>1
    <3>2. o = t => d < j
      BY <1>2, <3>1
    <3> DEFINE r == mail[o][j]
    <3>3. Wellmade(o, r) /\ (r.job = "upload" => up'[r.k] = up[r.k])
      BY <3>2 DEF KnownMail
    <3>4. PICK q : q = mail'[o][i]
      OBVIOUS
    <3>5. Wellmade(o, q) /\ (q.job = "upload" => up'[q.k] = up[q.k])
      BY <3>1, <3>3, <3>4
    <3>6. Wellmade(o, q)'
      BY <3>5, WellKept
    <3> QED  BY <3>4, <3>6 DEF Wellmade
  <2>2. CASE New(o, i)
    <3>1. PICK j \in 1..Len(rs) : mail'[o][i] = rs[j]
      BY <2>2
    <3> QED  BY <2>2, <3>1 DEF Wellmade
  <2> HIDE DEF Old, New
  <2> QED  BY <1>1, <2>1, <2>2
<1>4. ASSUME NEW o \in Tabs, NEW i \in DOMAIN mail'[o], NEW k \in DOMAIN mail'[o],
             mail'[o][i].job = "upload", mail'[o][k].job = "upload", mail'[o][k].k = mail'[o][i].k
      PROVE  i = k
  <2>0. i \in Nat /\ k \in Nat
    BY <1>2
  <2>1. CASE Old(o, i) /\ Old(o, k)
    <3>1. PICK j \in DOMAIN mail[o] : mail'[o][i] = mail[o][j] /\ j = IF o = t THEN i + d ELSE i
      BY <2>1
    <3>2. PICK l \in DOMAIN mail[o] : mail'[o][k] = mail[o][l] /\ l = IF o = t THEN k + d ELSE k
      BY <2>1
    <3>3. j = l
      BY <1>4, <3>1, <3>2 DEF KnownMail
    <3> QED  BY <2>0, <3>1, <3>2, <3>3
  <2>2. CASE New(o, i) /\ New(o, k)
    <3>1. Len(rs) = 1
      BY <1>4, <2>2
    <3> QED  BY <2>0, <2>2, <3>1
  <2>3. CASE Old(o, i) /\ New(o, k)
    <3>1. PICK j \in DOMAIN mail[o] : mail'[o][i] = mail[o][j]
      BY <2>3
    <3>2. PICK l \in 1..Len(rs) : mail'[o][k] = rs[l] /\ o = t
      BY <2>3
    <3>3. mail'[o][k] = rs[1] /\ mail[t][j].k # rs[1].k
      BY <1>4, <3>1, <3>2
    <3> QED  BY <1>4, <3>1, <3>2, <3>3
  <2>4. CASE New(o, i) /\ Old(o, k)
    <3>1. PICK j \in DOMAIN mail[o] : mail'[o][k] = mail[o][j]
      BY <2>4
    <3>2. PICK l \in 1..Len(rs) : mail'[o][i] = rs[l] /\ o = t
      BY <2>4
    <3>3. mail'[o][i] = rs[1] /\ mail[t][j].k # rs[1].k
      BY <1>4, <3>1, <3>2
    <3> QED  BY <1>4, <3>1, <3>2, <3>3
  <2> HIDE DEF Old, New
  <2> QED  BY <1>1, <2>1, <2>2, <2>3, <2>4
<1> QED  BY <1>3, <1>4 DEF KnownMail

LEMMA MailPopped ==
    ASSUME TypeOK, KnownMail, NEW t \in Tabs, Moved(t, 1, <<>>), entered \subseteq entered',
           \A o \in Tabs : \A j \in DOMAIN mail[o] :
              (o = t => 1 < j) /\ mail[o][j].job = "upload" => up'[mail[o][j].k] = up[mail[o][j].k]
    PROVE  KnownMail'
<1>1. PICK rs \in Seq(ReqType) : rs = <<>> /\ Len(rs) = 0
  BY NoRequest
<1>2. \A i \in 1..Len(rs) : Wellmade(t, rs[i])' /\ rs[i].job # "upload"
  BY <1>1
<1>3. Moved(t, 1, rs)
  BY <1>1
<1> QED  BY <1>2, <1>3, MailMoved

LEMMA MailServed ==
    ASSUME TypeOK, Known, NEW t \in Tabs, NEW i \in 1..Len(mail[t]), Served(t, i),
           UNCHANGED <<up, entered>>
    PROVE  KnownMail'
<1>1. /\ \A o \in Tabs : DOMAIN mail'[o] = DOMAIN mail[o]
      /\ \A o \in Tabs : \A j \in DOMAIN mail[o] :
            /\ mail'[o][j].op = mail[o][j].op /\ mail'[o][j].x = mail[o][j].x
            /\ mail'[o][j].job = mail[o][j].job /\ mail'[o][j].k = mail[o][j].k
            /\ o # t \/ j # i => mail'[o][j] = mail[o][j]
  BY TypeMails, ServedFlow
<1>2. mail'[t][i].got \in {stored, NoRows, mail[t][i].got}
  BY DEF Served
<1>3. In(stored) \subseteq entered /\ In(NoRows) = {}
  BY NoRowsType DEF Known
<1>4. ASSUME NEW o \in Tabs, NEW j \in DOMAIN mail[o]
      PROVE  Wellmade(o, mail[o][j])'
  <2>0. Wellmade(o, mail[o][j])
    BY DEF Known
  <2>1. CASE o # t \/ j # i
    <3>1. mail'[o][j] = mail[o][j]
      BY <1>1, <2>1
    <3> QED  BY <2>0, <3>1 DEF Wellmade
  <2>2. CASE o = t /\ j = i
    <3>1. In(mail[t][i].got) \subseteq entered
      BY <2>0, <2>2 DEF Wellmade
    <3>2. In(mail'[t][i].got) \subseteq entered
      BY <1>2, <1>3, <3>1
    <3>3. PICK a : a = mail[o][j]
      OBVIOUS
    <3>4. PICK b : b = mail'[o][j]
      OBVIOUS
    <3>5. b.op = a.op /\ b.x = a.x /\ b.job = a.job /\ b.k = a.k /\ In(b.got) \subseteq entered
      BY <1>1, <2>2, <3>2, <3>3, <3>4
    <3>6. Wellmade(o, a)
      BY <2>0, <3>3
    <3>7. Wellmade(o, b)
      BY <3>5, <3>6 DEF Wellmade
    <3>8. Wellmade(o, b)'
      BY <3>7, WellKept
    <3> QED  BY <3>4, <3>8 DEF Wellmade
  <2> QED  BY <2>1, <2>2
<1>5. ASSUME NEW o \in Tabs, NEW j \in DOMAIN mail[o], NEW k \in DOMAIN mail[o],
             mail'[o][j].job = "upload", mail'[o][k].job = "upload", mail'[o][k].k = mail'[o][j].k
      PROVE  k = j
  BY <1>1, <1>5 DEF Known
<1> QED  BY <1>1, <1>4, <1>5 DEF KnownMail

LEMMA KnownReload ==
    ASSUME TypeOK, Known, NEW t \in Tabs, Reload(t), UNCHANGED <<storeVars, diskVars, serverVars, entered>>
    PROVE  Known'
<1> USE DEF storeVars, diskVars, serverVars
<1>1. PICK d \in 0..Len(mail[t]) : Renewed(t, d)
  BY TypeMails, ReloadIs
<1>2. /\ \A o \in Tabs : o # t => mail'[o] = mail[o]
      /\ \A i \in DOMAIN mail'[t] :
            \/ IsShow(mail'[t][i])
            \/ \E j \in DOMAIN mail[t] :
                  /\ mail'[t][i].job = "nobody"
                  /\ mail'[t][i].op = mail[t][j].op /\ mail'[t][i].x = mail[t][j].x
                  /\ mail'[t][i].got = mail[t][j].got
  BY <1>1, TypeMails, RenewedFlow DEF IsShow
<1>3. KnownData'
  <2>1. /\ page' = [page EXCEPT ![t] = {}] /\ saving' = [saving EXCEPT ![t] = {}]
        /\ shown' = [shown EXCEPT ![t] = NoRows] /\ In(NoRows) = {}
    BY NoRowsType DEF Reload
  <2>2. \A o \in Tabs : /\ page'[o] \subseteq page[o] /\ saving'[o] \subseteq saving[o]
                        /\ In(shown'[o]) \subseteq In(shown[o])
    BY <2>1 DEF TypeOK
  <2> HIDE DEF In
  <2>3. /\ \A o \in SessionTabs : page'[o] = {} /\ saving'[o] = {}
        /\ \A o, q \in Tabs : \A x \in page'[o] : x \in page'[q] => q = o
        /\ \A o \in Tabs : page'[o] \subseteq entered /\ In(shown'[o]) \subseteq entered
    BY <2>2 DEF Known, Tabs
  <2> QED  BY <2>3 DEF Known, KnownData, In
<1>4. KnownUps'
  <2> SUFFICES ASSUME NEW u \in Uploads PROVE WellUp(up[u])'
    BY DEF KnownUps
  <2>1. WellUp(up[u]) /\ up[u] \in UpType /\ up[u].tab \in Tabs \cup {None}
    BY TypeUps, UpsAre DEF Known
  <2>2. current' = [current EXCEPT ![t] = None] /\ current \in [Tabs -> Sessions \cup {None}]
    BY DEF Reload, TypeOK
  <2>3. CASE up[u].tab = t
    <3>1. up'[u] = [up[u] EXCEPT !.tab = None]
      BY <2>3 DEF Reload
    <3>2. /\ up'[u].tab = None /\ up'[u].pc = up[u].pc /\ up'[u].to = up[u].to
          /\ up'[u].blob = up[u].blob
      BY <2>1, <3>1 DEF UpType
    <3> QED  BY <2>1, <3>2 DEF WellUp, In
  <2>4. CASE up[u].tab # t
    <3>1. up'[u] = up[u] /\ (up[u].tab # None => current'[up[u].tab] = current[up[u].tab])
      BY <2>1, <2>2, <2>4 DEF Reload
    <3> QED  BY <2>1, <3>1 DEF WellUp, In
  <2> QED  BY <2>3, <2>4
<1>5. KnownMail'
  <2>1. ASSUME NEW i \in DOMAIN mail'[t]
        PROVE  Wellmade(t, mail[t][i])' /\ mail'[t][i].job # "upload"
    <3>0. PICK q : q = mail'[t][i]
      OBVIOUS
    <3>1. CASE IsShow(mail'[t][i])
      <4>1. IsShow(q)
        BY <3>0, <3>1
      <4>2. Wellmade(t, q)'
        BY <4>1, ShowWell
      <4> QED  BY <3>0, <4>1, <4>2 DEF Wellmade, IsShow
    <3>2. CASE \E j \in DOMAIN mail[t] :
                  /\ mail'[t][i].job = "nobody"
                  /\ mail'[t][i].op = mail[t][j].op /\ mail'[t][i].x = mail[t][j].x
                  /\ mail'[t][i].got = mail[t][j].got
      <4>1. PICK j \in DOMAIN mail[t] :
                  /\ mail'[t][i].job = "nobody"
                  /\ mail'[t][i].op = mail[t][j].op /\ mail'[t][i].x = mail[t][j].x
                  /\ mail'[t][i].got = mail[t][j].got
        BY <3>2
      <4>2. Wellmade(t, mail[t][j])
        BY DEF Known
      <4>3. Wellmade(t, q)
        BY <3>0, <4>1, <4>2 DEF Wellmade, Entry
      <4>4. q.job = "nobody"
        BY <3>0, <4>1
      <4>5. Wellmade(t, q)'
        BY <4>3, <4>4, WellKept
      <4> QED  BY <3>0, <4>4, <4>5 DEF Wellmade
    <3> QED  BY <1>2, <3>1, <3>2
  <2>2. ASSUME NEW o \in Tabs, o # t, NEW i \in DOMAIN mail'[o]
        PROVE  /\ Wellmade(o, mail[o][i])'
               /\ mail'[o][i].job = "upload" => \A j \in DOMAIN mail'[o] :
                     mail'[o][j].job = "upload" /\ mail'[o][j].k = mail'[o][i].k => j = i
    <3>0. PICK q : q = mail[o][i]
      OBVIOUS
    <3>1. mail'[o] = mail[o] /\ i \in DOMAIN mail[o] /\ Wellmade(o, q)
      BY <1>2, <2>2, <3>0 DEF Known
    <3>2. q.job = "upload" => up'[q.k] = up[q.k]
      BY <2>2, <3>1 DEF Wellmade, Reload
    <3>3. Wellmade(o, q)'
      BY <3>1, <3>2, WellKept
    <3>4. Wellmade(o, mail[o][i])'
      BY <3>0, <3>1, <3>3 DEF Wellmade
    <3> QED  BY <3>1, <3>4 DEF Known
  <2> QED  BY <2>1, <2>2 DEF KnownMail
<1> QED  BY <1>3, <1>4, <1>5, KnownIs

LEMMA MailStill ==
    ASSUME TypeOK, KnownMail, mail' = mail, entered \subseteq entered',
           \A u \in Uploads : up[u].pc = "blob" => up'[u] = up[u]
    PROVE  KnownMail'
<1>1. ASSUME NEW o \in Tabs, NEW i \in DOMAIN mail[o]
      PROVE  Wellmade(o, mail[o][i])'
  <2>1. PICK q : q = mail[o][i]
    OBVIOUS
  <2>2. Wellmade(o, q)
    BY <2>1 DEF KnownMail
  <2>3. q.job = "upload" => up'[q.k] = up[q.k]
    BY <2>2 DEF Wellmade
  <2>4. Wellmade(o, q)'
    BY <2>2, <2>3, WellKept
  <2> QED  BY <2>1, <2>4 DEF Wellmade
<1> QED  BY <1>1 DEF KnownMail

LEMMA UpsOne ==
    ASSUME TypeOK, KnownUps, entered \subseteq entered', NEW u,
           \A o \in Tabs : current[o] \in Sessions => current'[o] \in Sessions,
           \A v \in Uploads \ {u} : up'[v] = up[v],
           u \in Uploads => WellUp(up[u])'
    PROVE  KnownUps'
<1> SUFFICES ASSUME NEW v \in Uploads PROVE WellUp(up[v])'
  BY DEF KnownUps
<1>1. CASE v = u
  BY <1>1
<1>2. CASE v # u
  <2>1. up'[v] = up[v] /\ WellUp(up[v]) /\ up[v].tab \in Tabs \cup {None}
    BY <1>2, TypeUps, UpsAre DEF KnownUps
  <2> QED  BY <2>1 DEF WellUp
<1> QED  BY <1>1, <1>2

LEMMA UpsStill ==
    ASSUME TypeOK, KnownUps, entered \subseteq entered', up' = up,
           \A o \in Tabs : current[o] \in Sessions => current'[o] \in Sessions
    PROVE  KnownUps'
<1>1. PICK u : u \notin Uploads
  <2>1. None \notin Uploads
    BY OfflineAssumption
  <2> QED  BY <2>1
<1> QED  BY <1>1, UpsOne

LEMMA FinishedWell == ASSUME NEW u \in Uploads, TypeOK, up' = [up EXCEPT ![u] = Finished]
                      PROVE  WellUp(up[u])' /\ \A v \in Uploads \ {u} : up'[v] = up[v]
<1>1. up'[u] = Finished /\ \A v \in Uploads \ {u} : up'[v] = up[v]
  BY TypeUps
<1> QED  BY <1>1, UpsAre, NoRowsType DEF WellUp, Begun

LEMMA KnownStep ==
    ASSUME TypeOK, Known, Next
    PROVE  Known'
<1> USE DEF tabVars, storeVars, diskVars, serverVars, staffVars
<1>0. KnownData /\ KnownUps /\ KnownMail
  BY KnownIs
<1>1. ASSUME NEW t \in Tabs, Work(t) PROVE Known'
  <2>1. PICK i \in 1..Len(mail[t]) : Served(t, i)
    BY <1>1, TypeMails, WorkIs
  <2>2. i \in DOMAIN mail[t] /\ (mail[t][i].op = "insert" => mail[t][i].x \in Xacts /\ mail[t][i].x \in entered)
    BY <2>1, TypeMails, MailType, HeadOf DEF Wellmade
  <2>3. In(stored') \subseteq entered
    <3>1. CASE UNCHANGED storeVars
      BY <3>1 DEF Known
    <3>2. CASE Perform(mail[t][i]) /\ mail[t][i].op = "insert"
      <4>1. PICK x \in Xacts : x = mail[t][i].x /\ x \in entered
        BY <2>2, <3>2
      <4>2. stored' = [stored EXCEPT ![x] = @ + 1]
        BY <3>2, <4>1 DEF Perform
      <4>3. \A y \in Xacts : y # x => stored'[y] = stored[y]
        BY <4>2 DEF TypeOK, Rows
      <4> QED  BY <4>1, <4>3 DEF In, Known
    <3>3. CASE Perform(mail[t][i]) /\ mail[t][i].op # "insert"
      <4>1. stored' = stored \/ stored' = NoRows
        BY <3>3 DEF Perform
      <4> QED  BY <4>1, NoRowsType DEF Known
    <3> QED  BY <2>1, <3>1, <3>2, <3>3 DEF Served
  <2>4. KnownData' /\ KnownUps' /\ KnownMail'
    BY <1>0, <1>1, <2>1, <2>3, UpsStill, MailServed DEF Work, KnownData
  <2> QED  BY <2>4, KnownIs
<1>2. ASSUME NEW t \in Tabs, Inserted(t) PROVE Known'
  <2>1. PICK rs \in Seq(ReqType) :
              /\ Moved(t, 1, rs)
              /\ Len(rs) = IF mail[t][1].job = "nobody" THEN 0 ELSE 1
              /\ \A i \in 1..Len(rs) :
                    /\ rs[i].op = "date" /\ rs[i].job = mail[t][1].job /\ rs[i].k = mail[t][1].k
                    /\ rs[i].st = "sent" /\ rs[i].got = NoRows
    BY <1>2, InsertedIs
  <2>2. 1 \in DOMAIN mail[t] /\ mail[t][1].op = "insert" /\ Wellmade(t, mail[t][1])
    BY <1>2, AnswerIs DEF Inserted, Known
  <2>3. \A i \in 1..Len(rs) : Wellmade(t, rs[i])' /\ rs[i].job # "upload"
    BY <2>1, <2>2, NoRowsType DEF Wellmade, Entry
  <2>4. entered' = entered /\ up' = up /\ current' = current
    BY <1>2 DEF Inserted
  <2>5. KnownMail'
    BY <1>0, <2>1, <2>3, <2>4, MailMoved
  <2>6. KnownData' /\ KnownUps'
    BY <1>0, <1>2, UpsStill DEF Inserted, KnownData
  <2> QED  BY <2>5, <2>6, KnownIs
<1>3. ASSUME NEW t \in Tabs, Dated(t) PROVE Known'
  <2>1. PICK rs \in Seq(ReqType) :
              /\ Moved(t, 1, rs)
              /\ \/ /\ mail[t][1].job = "register" /\ StartSave(t, mail[t][1].k, TRUE)
                    /\ InsertsOf(rs, page[t], "save", mail[t][1].k)
                 \/ /\ mail[t][1].job # "register" /\ saving' = saving
                    /\ Len(rs) \in {0, 1} /\ \A i \in 1..Len(rs) : IsShow(rs[i])
    BY <1>3, DatedIs
  <2>2. /\ 1 \in DOMAIN mail[t] /\ mail[t][1].op = "date" /\ Wellmade(t, mail[t][1])
        /\ mail[t][1].job = "register" => t \in EntryTabs /\ mail[t][1].k \in 1..MaxSaves
    BY <1>3, AnswerIs, HeadOf DEF Dated
  <2>4. entered' = entered /\ up' = up /\ current' = current /\ page[t] \subseteq entered
    BY <1>3 DEF Dated, Known
  <2>3. \A i \in 1..Len(rs) : Wellmade(t, rs[i])' /\ rs[i].job # "upload"
    <3>1. CASE /\ mail[t][1].job = "register"
               /\ InsertsOf(rs, page[t], "save", mail[t][1].k)
      BY <2>2, <2>4, <3>1, NoRowsType DEF Wellmade, Entry, InsertsOf
    <3>2. CASE \A i \in 1..Len(rs) : IsShow(rs[i])
      BY <3>2, ShowWell DEF IsShow
    <3> QED  BY <2>1, <3>1, <3>2
  <2>5. KnownMail'
    BY <1>0, <2>1, <2>3, <2>4, MailMoved
  <2>6. \A o \in SessionTabs : saving'[o] = saving[o]
    <3>1. t \in SessionTabs => mail[t][1].job # "register"
      BY <2>2, OfflineAssumption
    <3> QED  BY <2>1, <3>1 DEF StartSave, TypeOK, Tabs
  <2>7. KnownData' /\ KnownUps'
    BY <1>0, <1>3, <2>6, UpsStill DEF Dated, KnownData
  <2> QED  BY <2>5, <2>7, KnownIs
<1>4. ASSUME NEW t \in Tabs, Wiped(t) PROVE Known'
  <2>1. PICK rs \in Seq(ReqType) :
              /\ Moved(t, 1, rs)
              /\ Len(rs) = IF mail[t][1].job = "nobody" THEN 0 ELSE 1
              /\ \A i \in 1..Len(rs) : /\ rs[i].op = "undate" /\ rs[i].job = "clear"
                                       /\ rs[i].st = "sent" /\ rs[i].got = NoRows
    BY <1>4, WipedIs
  <2>2. t \in SessionTabs
    BY <1>4, AnswerIs DEF Wiped, Known, Wellmade
  <2>3. \A i \in 1..Len(rs) : Wellmade(t, rs[i])' /\ rs[i].job # "upload"
    BY <2>1, <2>2, NoRowsType DEF Wellmade
  <2>4. entered' = entered /\ up' = up /\ current' = current
    BY <1>4 DEF Wiped
  <2>5. KnownMail'
    BY <1>0, <2>1, <2>3, <2>4, MailMoved
  <2>6. KnownData' /\ KnownUps'
    BY <1>0, <1>4, UpsStill DEF Wiped, KnownData
  <2> QED  BY <2>5, <2>6, KnownIs
<1>5. ASSUME NEW t \in Tabs, Undated(t) PROVE Known'
  <2>1. PICK rs \in Seq(ReqType) :
              Moved(t, 1, rs) /\ Len(rs) \in {0, 1} /\ \A i \in 1..Len(rs) : IsShow(rs[i])
    BY <1>5, UndatedIs
  <2>3. \A i \in 1..Len(rs) : Wellmade(t, rs[i])' /\ rs[i].job # "upload"
    BY <2>1, ShowWell DEF IsShow
  <2>4. entered' = entered /\ up' = up /\ current' = current
    BY <1>5 DEF Undated
  <2>5. KnownMail'
    BY <1>0, <2>1, <2>3, <2>4, MailMoved
  <2>6. KnownData' /\ KnownUps'
    BY <1>0, <1>5, UpsStill DEF Undated, KnownData
  <2> QED  BY <2>5, <2>6, KnownIs
<1>6. ASSUME NEW t \in Tabs, Listed(t) PROVE Known'
  <2> DEFINE r == mail[t][1]
  <2>1. /\ Moved(t, 1, <<>>) /\ 1 \in DOMAIN mail[t] /\ r \in ReqType /\ Head(mail[t]) = r
        /\ Wellmade(t, r) /\ In(r.got) \subseteq entered
        /\ r.job = "upload" => r.k \in Uploads /\ up[r.k].tab = t /\ up[r.k].pc = "blob"
    BY <1>6, ListedIs, HeadOf, SMTT(30) DEF Wellmade
  <2>2. /\ entered' = entered /\ current' = current
        /\ shown' = IF r.job = "show" THEN [shown EXCEPT ![t] = r.got] ELSE shown
        /\ up' = IF r.job = "upload"
                 THEN [up EXCEPT ![r.k].blob = r.got, ![r.k].pc = "load", ![r.k].to = current[t]]
                 ELSE up
    BY <1>6, <2>1 DEF Listed
  <2>3. \A o \in Tabs : \A j \in DOMAIN mail[o] :
              (o = t => 1 < j) /\ mail[o][j].job = "upload" => up'[mail[o][j].k] = up[mail[o][j].k]
    <3>1. ASSUME NEW o \in Tabs, NEW j \in DOMAIN mail[o], o = t => 1 < j, mail[o][j].job = "upload"
          PROVE  up'[mail[o][j].k] = up[mail[o][j].k]
      <4>1. mail[o][j].k \in Uploads /\ up[mail[o][j].k].tab = o
        BY <3>1, HeadOf
      <4>2. r.job = "upload" => r.k # mail[o][j].k
        BY <2>1, <3>1, <4>1 DEF Known
      <4> HIDE DEF r
      <4> QED  BY <2>1, <2>2, <4>1, <4>2, TypeUps
    <3> QED  BY <3>1
  <2> HIDE DEF r
  <2>4. KnownMail'
    BY <1>0, <2>1, <2>2, <2>3, MailPopped
  <2>5. \A o \in Tabs : In(shown'[o]) \subseteq entered
    <3>1. \A o \in Tabs : shown'[o] = shown[o] \/ shown'[o] = r.got
      BY <2>2 DEF TypeOK
    <3> QED  BY <2>1, <3>1 DEF Known
  <2>6. KnownData'
    BY <1>0, <1>6, <2>5 DEF Listed, KnownData
  <2>7. KnownUps'
    <3>1. CASE r.job # "upload"
      BY <1>0, <2>2, <3>1, UpsStill
    <3>2. CASE r.job = "upload"
      <4>1. up[r.k] \in UpType /\ WellUp(up[r.k]) /\ t # None
        BY <2>1, <3>2, TypeUps, OfflineAssumption DEF Known
      <4>2. up' = [up EXCEPT ![r.k] = [up[r.k] EXCEPT !.blob = r.got, !.pc = "load", !.to = current[t]]]
        BY <2>1, <2>2, <3>2, TypeUps
      <4>3. /\ \A v \in Uploads \ {r.k} : up'[v] = up[v]
            /\ up'[r.k] = [up[r.k] EXCEPT !.blob = r.got, !.pc = "load", !.to = current[t]]
        BY <2>1, <3>2, <4>2, TypeUps
      <4>4. /\ up'[r.k].tab = t /\ up'[r.k].pc = "load" /\ up'[r.k].blob = r.got
            /\ up'[r.k].to = current[t] /\ up[r.k].pc = "blob"
        BY <2>1, <3>2, <4>1, <4>3 DEF UpType
      <4>5. current[t] \in Sessions /\ t \in SessionTabs
        BY <2>1, <3>2, <4>1, <4>4 DEF WellUp
      <4>6. PICK k : k = r.k
        OBVIOUS
      <4>7. WellUp(up[k])' /\ k \in Uploads
        BY <2>1, <2>2, <3>2, <4>4, <4>5, <4>6 DEF WellUp, Begun, In
      <4> QED  BY <1>0, <2>2, <4>3, <4>6, <4>7, UpsOne
    <3> QED  BY <3>1, <3>2
  <2> QED  BY <2>4, <2>6, <2>7, KnownIs
<1>7. ASSUME NEW t \in Tabs, Refused(t) PROVE Known'
  <2> DEFINE r == mail[t][1]
  <2>1. /\ Moved(t, 1, <<>>) /\ 1 \in DOMAIN mail[t] /\ r \in ReqType /\ Head(mail[t]) = r
        /\ Wellmade(t, r)
        /\ r.job = "upload" => r.k \in Uploads /\ up[r.k].tab = t /\ up[r.k].pc = "blob"
    BY <1>7, RefusedIs, HeadOf
  <2>2. /\ entered' = entered /\ current' = current
        /\ saving' = [saving EXCEPT ![t] = {IF r.job = "save" /\ s.k = r.k
                                            THEN [s EXCEPT !.spoiled = TRUE] ELSE s : s \in @}]
        /\ up' = up
    BY <1>7, <2>1 DEF Refused
  <2>3. \A o \in Tabs : \A j \in DOMAIN mail[o] :
              (o = t => 1 < j) /\ mail[o][j].job = "upload" => up'[mail[o][j].k] = up[mail[o][j].k]
    BY <2>2
  <2> HIDE DEF r
  <2>4. KnownMail'
    BY <1>0, <2>1, <2>2, <2>3, MailPopped
  <2>5. \A o \in SessionTabs : saving'[o] = {}
    <3>1. \A o \in SessionTabs : saving[o] = {} /\ o \in Tabs
      BY DEF Known, Tabs
    <3> QED  BY <2>2, <3>1 DEF TypeOK
  <2>6. KnownData'
    BY <1>0, <1>7, <2>5 DEF Refused, KnownData
  <2>7. KnownUps'
    BY <1>0, <2>2, UpsStill
  <2> QED  BY <2>4, <2>6, <2>7, KnownIs
<1>8. ASSUME NEW t \in Tabs, NEW s \in saving[t], SaveSettled(t, s) PROVE Known'
  <2>1. CASE s.reload
    BY <1>8, <2>1, KnownReload DEF SaveSettled
  <2>2. CASE ~s.reload
    <3>1. PICK rs \in Seq(ReqType) : Moved(t, 0, rs) /\ Len(rs) = 1 /\ IsShow(rs[1])
      BY <1>8, <2>2, ShowPosted DEF SaveSettled
    <3>2. \A i \in 1..Len(rs) : Wellmade(t, rs[i])' /\ rs[i].job # "upload"
      BY <3>1, ShowWell DEF IsShow
    <3>3. /\ entered' = entered /\ up' = up /\ current' = current
          /\ saving' = [saving EXCEPT ![t] = @ \ {s}] /\ page' = [page EXCEPT ![t] = {}]
      BY <1>8, <2>2 DEF SaveSettled
    <3>4. KnownMail'
      BY <1>0, <3>1, <3>2, <3>3, MailMoved
    <3>5. \A o \in Tabs : page'[o] \subseteq page[o] /\ saving'[o] \subseteq saving[o]
      BY <3>3 DEF TypeOK
    <3>6. /\ \A o \in SessionTabs : page'[o] = {} /\ saving'[o] = {}
          /\ \A o, q \in Tabs : \A x \in page'[o] : x \in page'[q] => q = o
          /\ \A o \in Tabs : page'[o] \subseteq entered
      BY <3>5 DEF Known, Tabs
    <3>7. KnownData' /\ KnownUps'
      BY <1>0, <1>8, <2>2, <3>3, <3>6, UpsStill DEF SaveSettled, KnownData
    <3> QED  BY <3>4, <3>7, KnownIs
  <2> QED  BY <2>1, <2>2
<1>9. ASSUME NEW t \in Tabs, NEW x \in Xacts, Add(t, x) PROVE Known'
  <2>1. /\ t \in EntryTabs /\ x \notin entered /\ entered' = entered \cup {x}
        /\ page' = [page EXCEPT ![t] = @ \cup {x}] /\ t \notin SessionTabs
    BY <1>9, OfflineAssumption DEF Add
  <2>2. /\ \A o \in Tabs : page'[o] = IF o = t THEN page[t] \cup {x} ELSE page[o]
        /\ \A o \in Tabs : page[o] \subseteq entered
    BY <2>1 DEF TypeOK, Known
  <2>3. /\ \A o \in SessionTabs : page'[o] = {} /\ saving'[o] = {}
        /\ \A o, q \in Tabs : \A y \in page'[o] : y \in page'[q] => q = o
        /\ \A o \in Tabs : page'[o] \subseteq entered'
    BY <1>9, <2>1, <2>2 DEF Known, Add, Tabs
  <2>4. KnownData'
    BY <1>0, <1>9, <2>1, <2>3 DEF Add, KnownData
  <2> QED  BY <1>0, <1>9, <2>1, <2>4, UpsStill, MailStill, KnownIs DEF Add
<1>10. ASSUME NEW t \in Tabs, NEW x \in Xacts, Register(t, x) PROVE Known'
  <2>0. /\ saves[t] + 1 \in Nat /\ saves[t] + 1 \in 1..MaxSaves
        /\ Post(t, <<Req("insert", x, "register", saves[t] + 1)>>)
    BY <1>10, OfflineAssumption DEF Register, TypeOK
  <2>1. PICK rs \in Seq(ReqType) : Moved(t, 0, rs) /\ Sole(rs, "insert", x, "register", saves[t] + 1)
    BY <2>0, SolePosted
  <2>2. entered' = entered \cup {x} /\ up' = up /\ current' = current /\ t \in EntryTabs
    BY <1>10 DEF Register
  <2>3. \A i \in 1..Len(rs) : Wellmade(t, rs[i])' /\ rs[i].job # "upload"
    BY <2>0, <2>1, <2>2, NoRowsType DEF Wellmade, Entry, Sole
  <2>4. KnownMail'
    BY <1>0, <2>1, <2>2, <2>3, MailMoved
  <2>5. KnownData' /\ KnownUps'
    BY <1>0, <1>10, <2>2, UpsStill DEF Register, KnownData
  <2> QED  BY <2>4, <2>5, KnownIs
<1>11. ASSUME NEW t \in Tabs, Save(t) PROVE Known'
  <2>0. /\ saves[t] + 1 \in Nat /\ saves[t] + 1 \in 1..MaxSaves /\ page[t] \in SUBSET Xacts
        /\ Post(t, Inserts(page[t], "save", saves[t] + 1)) /\ page[t] \subseteq entered
    BY <1>11, OfflineAssumption DEF Save, TypeOK, Known
  <2>1. PICK rs \in Seq(ReqType) : Moved(t, 0, rs) /\ InsertsOf(rs, page[t], "save", saves[t] + 1)
    BY <2>0, InsertsPosted
  <2>2. /\ entered' = entered /\ up' = up /\ current' = current /\ t \in EntryTabs
        /\ StartSave(t, saves[t] + 1, FALSE)
    BY <1>11 DEF Save
  <2>3. \A i \in 1..Len(rs) : Wellmade(t, rs[i])' /\ rs[i].job # "upload"
    BY <2>0, <2>1, <2>2, NoRowsType DEF Wellmade, Entry, InsertsOf
  <2>4. KnownMail'
    BY <1>0, <2>1, <2>2, <2>3, MailMoved
  <2>5. \A o \in SessionTabs : saving'[o] = saving[o]
    BY <2>2, OfflineAssumption DEF StartSave, TypeOK, Tabs
  <2>6. KnownData' /\ KnownUps'
    BY <1>0, <1>11, <2>2, <2>5, UpsStill DEF Save, KnownData
  <2> QED  BY <2>4, <2>6, KnownIs
<1>12. ASSUME NEW t \in Tabs, Close(t) PROVE Known'
  BY <1>12, KnownReload DEF Close
<1>13. ASSUME NEW t \in Tabs, Stay(t) PROVE Known'
  <2>1. KnownData'
    BY <1>0, <1>13 DEF Stay, KnownData
  <2> QED  BY <1>0, <1>13, <2>1, UpsStill, MailStill, KnownIs DEF Stay
<1>14. ASSUME NEW t \in Tabs, Look(t) PROVE Known'
  <2>1. PICK rs \in Seq(ReqType) : Moved(t, 0, rs) /\ Len(rs) = 1 /\ IsShow(rs[1])
    BY <1>14, ShowPosted DEF Look
  <2>2. \A i \in 1..Len(rs) : Wellmade(t, rs[i])' /\ rs[i].job # "upload"
    BY <2>1, ShowWell DEF IsShow
  <2>3. entered' = entered /\ up' = up /\ current' = current
    BY <1>14 DEF Look
  <2>4. KnownMail'
    BY <1>0, <2>1, <2>2, <2>3, MailMoved
  <2>5. KnownData' /\ KnownUps'
    BY <1>0, <1>14, UpsStill DEF Look, KnownData
  <2> QED  BY <2>4, <2>5, KnownIs
<1>15. ASSUME NEW t \in Tabs, ClearPending(t) PROVE Known'
  <2>1. PICK rs \in Seq(ReqType) : Moved(t, 0, rs) /\ Sole(rs, "wipe", None, "clear", None)
    BY <1>15, SolePosted DEF ClearPending
  <2>2. entered' = entered /\ up' = up /\ current' = current /\ t \in SessionTabs
    BY <1>15 DEF ClearPending
  <2>3. \A i \in 1..Len(rs) : Wellmade(t, rs[i])' /\ rs[i].job # "upload"
    BY <2>1, <2>2, NoRowsType DEF Wellmade, Entry, Sole
  <2>4. KnownMail'
    BY <1>0, <2>1, <2>2, <2>3, MailMoved
  <2>5. KnownData' /\ KnownUps'
    BY <1>0, <1>15, <2>2, UpsStill DEF ClearPending, KnownData
  <2> QED  BY <2>4, <2>5, KnownIs
<1>16. ASSUME NEW t \in Tabs, Export(t) PROVE Known'
  <2>1. KnownData'
    BY <1>0, <1>16 DEF Export, KnownData
  <2> QED  BY <1>0, <1>16, <2>1, UpsStill, MailStill, KnownIs DEF Export
<1>17. ASSUME NEW t \in Tabs, Import(t) PROVE Known'
  <2>0. disk \in SUBSET Xacts /\ Post(t, Inserts(disk, "import", None)) /\ disk \subseteq entered
    BY <1>17 DEF Import, TypeOK, Known
  <2>1. PICK rs \in Seq(ReqType) : Moved(t, 0, rs) /\ InsertsOf(rs, disk, "import", None)
    BY <2>0, InsertsPosted
  <2>2. entered' = entered /\ up' = up /\ current' = current
    BY <1>17 DEF Import
  <2>3. \A i \in 1..Len(rs) : Wellmade(t, rs[i])' /\ rs[i].job # "upload"
    BY <2>0, <2>1, <2>2, NoRowsType DEF Wellmade, Entry, InsertsOf
  <2>4. KnownMail'
    BY <1>0, <2>1, <2>2, <2>3, MailMoved
  <2>5. KnownData' /\ KnownUps'
    BY <1>0, <1>17, <2>2, UpsStill DEF Import, KnownData
  <2> QED  BY <2>4, <2>5, KnownIs
<1>18. ASSUME NEW t \in Tabs, NEW s \in Sessions, Select(t, s) PROVE Known'
  <2>1. KnownData'
    BY <1>0, <1>18 DEF Select, KnownData
  <2>2. \A o \in Tabs : current[o] \in Sessions => current'[o] \in Sessions
    BY <1>18 DEF Select, TypeOK
  <2> QED  BY <1>0, <1>18, <2>1, <2>2, UpsStill, MailStill, KnownIs DEF Select
<1>19. ASSUME NEW t \in Tabs, NEW s \in Sessions, Process(t, s) PROVE Known'
  <2>1. KnownData'
    BY <1>0, <1>19 DEF Process, KnownData
  <2>2. \A o \in Tabs : current[o] \in Sessions => current'[o] \in Sessions
    BY <1>19 DEF Process, TypeOK
  <2> QED  BY <1>0, <1>19, <2>1, <2>2, UpsStill, MailStill, KnownIs DEF Process
<1>20. ASSUME NEW t \in Tabs, NEW s \in Sessions, NEW u \in Uploads, AskUpload(t, u, s) PROVE Known'
  <2>1. KnownData'
    BY <1>0, <1>20 DEF AskUpload, KnownData
  <2>2. \A o \in Tabs : current[o] \in Sessions => current'[o] \in Sessions
    BY <1>20 DEF AskUpload, TypeOK
  <2>3. /\ up'[u] = [tab |-> t, asked |-> s, pc |-> "asked", blob |-> NoRows, to |-> None]
        /\ \A v \in Uploads \ {u} : up'[v] = up[v]
    BY <1>20, TypeUps DEF AskUpload
  <2>4. current'[t] = s /\ t \in SessionTabs
    BY <1>20 DEF AskUpload, TypeOK
  <2>5. WellUp(up[u])'
    BY <2>3, <2>4, NoRowsType DEF WellUp, Begun
  <2>6. \A v \in Uploads : up[v].pc = "blob" => up'[v] = up[v]
    BY <1>20, <2>3 DEF AskUpload
  <2>7. mail' = mail /\ entered' = entered
    BY <1>20 DEF AskUpload
  <2> QED  BY <1>0, <2>1, <2>2, <2>3, <2>5, <2>6, <2>7, UpsOne, MailStill, KnownIs
<1>21. ASSUME NEW u \in Uploads, GotExceptions(u) PROVE Known'
  <2> DEFINE t == up[u].tab
  <2>0. /\ t \in Tabs /\ up[u].pc = "asked" /\ up[u] \in UpType /\ WellUp(up[u])
        /\ Post(t, <<Req("list", None, "upload", u)>>)
    BY <1>21, TypeUps DEF GotExceptions, Alive, TypeOK, Known
  <2>1. PICK rs \in Seq(ReqType) : Moved(t, 0, rs) /\ Sole(rs, "list", None, "upload", u)
    BY <2>0, SolePosted
  <2>2. entered' = entered /\ current' = current /\ up' = [up EXCEPT ![u] = [@ EXCEPT !.pc = "blob"]]
    BY <1>21 DEF GotExceptions
  <2>3. /\ up'[u] = [up[u] EXCEPT !.pc = "blob"]
        /\ \A v \in Uploads \ {u} : up'[v] = up[v]
    BY <2>2, TypeUps
  <2>4. up'[u].tab = t /\ up'[u].pc = "blob" /\ up'[u].to = up[u].to /\ up'[u].blob = up[u].blob
    BY <2>0, <2>3 DEF UpType
  <2>5. PICK o \in Tabs : o = t
    BY <2>0
  <2>6. \A i \in 1..Len(rs) : Wellmade(o, rs[i])'
    BY <2>1, <2>4, <2>5, NoRowsType DEF Wellmade, Sole
  <2>7. /\ \A q \in Tabs : \A j \in DOMAIN mail[q] :
              mail[q][j].job = "upload" => up'[mail[q][j].k] = up[mail[q][j].k] /\ mail[q][j].k # u
    BY <2>0, <2>3, HeadOf
  <2>8. Len(rs) = 1 /\ rs[1].k = u /\ Moved(o, 0, rs)
    BY <2>1, <2>5 DEF Sole
  <2>9. KnownMail'
    <3>1. \A j \in DOMAIN mail[o] : mail[o][j].job = "upload" => mail[o][j].k # rs[1].k
      BY <2>7, <2>8
    <3>2. \A q \in Tabs : \A j \in DOMAIN mail[q] :
              (q = o => 0 < j) /\ mail[q][j].job = "upload" => up'[mail[q][j].k] = up[mail[q][j].k]
      BY <2>7
    <3>3. \/ \A i \in 1..Len(rs) : rs[i].job # "upload"
          \/ Len(rs) = 1 /\ \A j \in DOMAIN mail[o] : mail[o][j].job = "upload" => mail[o][j].k # rs[1].k
      BY <2>8, <3>1
    <3>4. 0 \in Nat /\ entered \subseteq entered' /\ Moved(o, 0, rs)
      BY <2>2, <2>8
    <3> HIDE DEF t
    <3> QED  BY <1>0, <2>6, <3>2, <3>3, <3>4, MailMoved
  <2>10. WellUp(up[u])'
    BY <2>0, <2>2, <2>4 DEF WellUp, Begun
  <2>11. KnownData'
    BY <1>0, <1>21 DEF GotExceptions, KnownData
  <2>12. KnownUps'
    BY <1>0, <2>2, <2>3, <2>10, UpsOne
  <2> QED  BY <2>9, <2>11, <2>12, KnownIs
<1>22. ASSUME NEW u \in Uploads, LoadCheck(u) PROVE Known'
  <2> DEFINE pc == IF scripts[up[u].to] > 0 \/ ended[up[u].to] THEN "refused" ELSE "append"
  <2>1. up' = [up EXCEPT ![u] = [@ EXCEPT !.pc = pc]] /\ pc \in {"refused", "append"}
    BY <1>22 DEF LoadCheck
  <2> HIDE DEF pc
  <2>2. up[u] \in UpType /\ WellUp(up[u]) /\ up[u].pc = "load"
    BY <1>22, TypeUps DEF LoadCheck, Known
  <2>3. up'[u] = [up[u] EXCEPT !.pc = pc] /\ \A v \in Uploads \ {u} : up'[v] = up[v]
    BY <2>1, TypeUps
  <2>4. /\ up'[u].tab = up[u].tab /\ up'[u].pc = pc /\ up'[u].to = up[u].to
        /\ up'[u].blob = up[u].blob
    BY <2>2, <2>3 DEF UpType
  <2>5. WellUp(up[u])'
    BY <1>22, <2>1, <2>2, <2>4 DEF WellUp, Begun, LoadCheck
  <2>6. \A v \in Uploads : up[v].pc = "blob" => up'[v] = up[v]
    BY <2>2, <2>3
  <2>7. KnownData'
    BY <1>0, <1>22 DEF LoadCheck, KnownData
  <2>8. mail' = mail /\ entered' = entered /\ current' = current
    BY <1>22 DEF LoadCheck
  <2> QED  BY <1>0, <2>3, <2>5, <2>6, <2>7, <2>8, UpsOne, MailStill, KnownIs
<1>23. ASSUME NEW u \in Uploads, LoadAppend(u) PROVE Known'
  <2>1. up' = [up EXCEPT ![u] = [@ EXCEPT !.pc = "loaded"]]
    BY <1>23 DEF LoadAppend
  <2>2. up[u] \in UpType /\ WellUp(up[u]) /\ up[u].pc = "append"
    BY <1>23, TypeUps DEF LoadAppend, Known
  <2>3. up'[u] = [up[u] EXCEPT !.pc = "loaded"] /\ \A v \in Uploads \ {u} : up'[v] = up[v]
    BY <2>1, TypeUps
  <2>4. /\ up'[u].tab = up[u].tab /\ up'[u].pc = "loaded" /\ up'[u].to = up[u].to
        /\ up'[u].blob = up[u].blob
    BY <2>2, <2>3 DEF UpType
  <2>5. WellUp(up[u])'
    BY <1>23, <2>1, <2>2, <2>4 DEF WellUp, Begun, LoadAppend
  <2>6. \A v \in Uploads : up[v].pc = "blob" => up'[v] = up[v]
    BY <2>2, <2>3
  <2>7. \A s \in Sessions : In(file'[s]) \subseteq entered
    <3>1. up[u].to \in Sessions /\ In(up[u].blob) \subseteq entered /\ up[u].blob \in Rows
      BY <2>2, UpsAre DEF WellUp, Begun
    <3>2. file' = [file EXCEPT ![up[u].to] = Sum2(@, up[u].blob)] /\ file \in [Sessions -> Rows]
      BY <1>23 DEF LoadAppend, TypeOK
    <3>3. \A a, b \in Rows : In(Sum2(a, b)) \subseteq In(a) \cup In(b)
      BY DEF In, Sum2, Rows
    <3>4. \A s \in Sessions : In(file[s]) \subseteq entered /\ file[s] \in Rows
      BY <3>2 DEF Known
    <3>5. \A s \in Sessions : file'[s] = IF s = up[u].to THEN Sum2(file[s], up[u].blob) ELSE file[s]
      BY <3>1, <3>2
    <3> QED  BY <3>1, <3>3, <3>4, <3>5
  <2>8. KnownData'
    BY <1>0, <1>23, <2>7 DEF LoadAppend, KnownData
  <2>9. mail' = mail /\ entered' = entered /\ current' = current
    BY <1>23 DEF LoadAppend
  <2> QED  BY <1>0, <2>3, <2>5, <2>6, <2>8, <2>9, UpsOne, MailStill, KnownIs
<1>24. ASSUME NEW u \in Uploads, Loaded(u) PROVE Known'
  <2>1. /\ up' = [up EXCEPT ![u] = Finished] /\ up[u].pc = "loaded"
        /\ entered' = entered /\ current' = current
    BY <1>24 DEF Loaded
  <2>2. \A v \in Uploads \ {u} : up'[v] = up[v]
    BY <2>1, TypeUps
  <2>3. KnownUps'
    BY <1>0, <2>1, FinishedWell, UpsOne
  <2>4. KnownData'
    BY <1>0, <1>24 DEF Loaded, KnownData
  <2>5. KnownMail'
    <3>1. CASE Alive(u)
      <4>1. up[u].tab \in Tabs /\ up[u].tab \in SessionTabs
        BY <3>1, TypeUps, UpsAre DEF Alive, Known, WellUp
      <4>2. PICK o \in Tabs : o = up[u].tab
        BY <4>1
      <4>3. Post(o, <<Req("wipe", None, "clear", None)>>)
        BY <1>24, <3>1, <4>2 DEF Loaded
      <4>4. PICK rs \in Seq(ReqType) : Moved(o, 0, rs) /\ Sole(rs, "wipe", None, "clear", None)
        BY <4>3, SolePosted
      <4>5. \A i \in 1..Len(rs) : Wellmade(o, rs[i])' /\ rs[i].job # "upload"
        BY <4>1, <4>2, <4>4, NoRowsType DEF Wellmade, Sole
      <4>6. \A q \in Tabs : \A j \in DOMAIN mail[q] :
                 mail[q][j].job = "upload" => up'[mail[q][j].k] = up[mail[q][j].k]
        BY <2>1, <2>2, HeadOf
      <4>7. entered \subseteq entered'
        BY <2>1
      <4>8. \A q \in Tabs : \A j \in DOMAIN mail[q] :
                 (q = o => 0 < j) /\ mail[q][j].job = "upload" => up'[mail[q][j].k] = up[mail[q][j].k]
        BY <4>6
      <4>9. \A i \in 1..Len(rs) : Wellmade(o, rs[i])'
        BY <4>5
      <4>10. \/ \A i \in 1..Len(rs) : rs[i].job # "upload"
             \/ Len(rs) = 1 /\ \A j \in DOMAIN mail[o] :
                                  mail[o][j].job = "upload" => mail[o][j].k # rs[1].k
        BY <4>5
      <4>11. o \in Tabs /\ rs \in Seq(ReqType) /\ Moved(o, 0, rs) /\ 0 \in Nat
        BY <4>4
      <4> QED  BY <1>0, <4>7, <4>8, <4>9, <4>10, <4>11, MailMoved, ZenonT(30)
    <3>2. CASE ~Alive(u)
      BY <1>0, <1>24, <2>1, <2>2, <3>2, MailStill DEF Loaded
    <3> QED  BY <3>1, <3>2
  <2> QED  BY <2>3, <2>4, <2>5, KnownIs
<1>25. ASSUME NEW u \in Uploads, NotLoaded(u) PROVE Known'
  <2>1. /\ up' = [up EXCEPT ![u] = Finished] /\ up[u].pc \in {"refused", "loaded", "asked"}
        /\ entered' = entered /\ current' = current /\ mail' = mail
    BY <1>25 DEF NotLoaded
  <2>2. \A v \in Uploads \ {u} : up'[v] = up[v]
    BY <2>1, TypeUps
  <2>3. KnownUps' /\ KnownMail'
    BY <1>0, <2>1, <2>2, FinishedWell, UpsOne, MailStill
  <2>4. KnownData'
    BY <1>0, <1>25 DEF NotLoaded, KnownData
  <2> QED  BY <2>3, <2>4, KnownIs
<1>26. ASSUME NEW s \in Sessions, ChildRuns(s) PROVE Known'
  <2>1. KnownData'
    BY <1>0, <1>26 DEF ChildRuns, KnownData
  <2> QED  BY <1>0, <1>26, <2>1, UpsStill, MailStill, KnownIs DEF ChildRuns
<1> QED
  BY <1>1, <1>2, <1>3, <1>4, <1>5, <1>6, <1>7, <1>8, <1>9, <1>10, <1>11, <1>12, <1>13, <1>14,
     <1>15, <1>16, <1>17, <1>18, <1>19, <1>20, <1>21, <1>22, <1>23, <1>24, <1>25, <1>26
     DEF Next, Machine, Network, Staff

-----------------------------------------------------------------------------
(* One tab is busy at a time, and the session asked for stays current.     *)

\* Only the tab t may have become busy.
Elsewhere(t) ==
    \A o \in Tabs : o # t =>
        /\ mail'[o] = mail[o] /\ saving'[o] = saving[o]
        /\ \A u \in Uploads : up'[u].tab = o /\ up'[u].pc # "done" => up[u].tab = o /\ up[u].pc # "done"

LEMMA ElsewhereBusy == ASSUME NEW t, Elsewhere(t)
                       PROVE  \A o \in Tabs : o # t /\ Busy(o)' => Busy(o)
BY DEF Elsewhere, Busy, Uploading

LEMMA BusyIs ==
    ASSUME TypeOK, NEW t \in Tabs
    PROVE  /\ mail[t] # <<>> => Busy(t)
           /\ \A i \in DOMAIN mail[t] : Busy(t)
           /\ saving[t] # {} => Busy(t)
           /\ \A u \in Uploads : up[u].tab = t /\ up[u].pc # "done" => Busy(t)
<1>1. \A i \in DOMAIN mail[t] : mail[t] # <<>>
  <2>1. mail[t] \in Seq(ReqType)
    BY DEF TypeOK
  <2> QED  BY <2>1
<1> QED  BY <1>1 DEF Busy, Uploading

LEMMA ReloadElsewhere ==
    ASSUME TypeOK, NEW t \in Tabs, Reload(t)
    PROVE  Elsewhere(t)
<1>1. \A o \in Tabs : o # t => mail'[o] = mail[o] /\ saving'[o] = saving[o]
  BY DEF Reload, TypeOK
<1>2. \A u \in Uploads : up'[u] = IF up[u].tab = t THEN [up[u] EXCEPT !.tab = None] ELSE up[u]
  BY DEF Reload
<1>3. \A u \in Uploads : up[u] \in UpType
  BY TypeUps
<1>4. \A o \in Tabs : o # None
  BY OfflineAssumption
<1>5. \A u \in Uploads : up'[u] = up[u] \/ up'[u].tab = None
  BY <1>2, <1>3 DEF UpType
<1> QED  BY <1>1, <1>4, <1>5 DEF Elsewhere

\* A step makes no tab busy, or one that the staff use while no other is.
LEMMA BusyStep ==
    ASSUME TypeOK, Known, Next
    PROVE  \E t \in Tabs \cup {None} :
              /\ \A o \in Tabs : o # t /\ Busy(o)' => Busy(o)
              /\ t \in Tabs => Busy(t) \/ ("tabs" \notin Hurries => \A o \in Tabs \ {t} : ~Busy(o))
<1> USE DEF tabVars, storeVars, diskVars, serverVars, staffVars
<1> DEFINE Fine == \E t \in Tabs \cup {None} :
              /\ \A o \in Tabs : o # t /\ Busy(o)' => Busy(o)
              /\ t \in Tabs => Busy(t) \/ ("tabs" \notin Hurries => \A o \in Tabs \ {t} : ~Busy(o))
<1>a. ASSUME NEW t \in Tabs, Elsewhere(t), Busy(t) PROVE Fine
  BY <1>a, ElsewhereBusy
<1>b. ASSUME NEW t \in Tabs, Elsewhere(t), MayAct(t) PROVE Fine
  BY <1>b, ElsewhereBusy DEF MayAct
<1>c. ASSUME mail' = mail, saving' = saving,
             \A u \in Uploads : up'[u].pc # "done" => up[u].pc # "done" /\ up'[u].tab = up[u].tab
      PROVE  Fine
  <2>1. \A o \in Tabs : Busy(o)' => Busy(o)
    BY <1>c DEF Busy, Uploading
  <2> QED  BY <2>1
<1> HIDE DEF Fine
<1>0. \A t \in Tabs, d \in Nat, rs \in Seq(ReqType) : Moved(t, d, rs) => \A o \in Tabs : o # t => mail'[o] = mail[o]
  BY DEF Moved
<1>00. <<>> \in Seq(ReqType)
  BY NoRequest
<1>1. ASSUME NEW t \in Tabs, Work(t) PROVE Fine
  <2>1. PICK i \in 1..Len(mail[t]) : Served(t, i)
    BY <1>1, TypeMails, WorkIs
  <2>2. i \in DOMAIN mail[t]
    BY <2>1, TypeMails, MailType
  <2>3. Elsewhere(t)
    BY <1>1, <2>1 DEF Served, Work, Elsewhere
  <2> QED  BY <1>a, <2>2, <2>3, BusyIs
<1>2. ASSUME NEW t \in Tabs, Inserted(t) PROVE Fine
  <2>1. Elsewhere(t)
    BY <1>0, <1>2, InsertedIs DEF Elsewhere, Inserted
  <2> QED  BY <1>2, <1>a, <2>1, BusyIs DEF Inserted, Answer
<1>3. ASSUME NEW t \in Tabs, Dated(t) PROVE Fine
  <2>1. \A o \in Tabs : o # t => mail'[o] = mail[o]
    BY <1>0, <1>3, DatedIs
  <2>2. Elsewhere(t)
    BY <1>3, <2>1 DEF Elsewhere, Dated, StartSave, TypeOK
  <2> QED  BY <1>3, <1>a, <2>2, BusyIs DEF Dated, Answer
<1>4. ASSUME NEW t \in Tabs, Wiped(t) PROVE Fine
  <2>1. Elsewhere(t)
    BY <1>0, <1>4, WipedIs DEF Elsewhere, Wiped
  <2> QED  BY <1>4, <1>a, <2>1, BusyIs DEF Wiped, Answer
<1>5. ASSUME NEW t \in Tabs, Undated(t) PROVE Fine
  <2>1. Elsewhere(t)
    BY <1>0, <1>5, UndatedIs DEF Elsewhere, Undated
  <2> QED  BY <1>5, <1>a, <2>1, BusyIs DEF Undated, Answer
<1>6. ASSUME NEW t \in Tabs, Listed(t) PROVE Fine
  <2> DEFINE r == mail[t][1]
  <2>1. /\ Moved(t, 1, <<>>) /\ Head(mail[t]) = r /\ mail[t] # <<>>
        /\ r.job = "upload" => r.k \in Uploads /\ up[r.k].tab = t
    <3>1. mail[t] # <<>>
      BY <1>6, Zenon DEF Listed, Answer
    <3>2. Moved(t, 1, <<>>) /\ Head(mail[t]) = r /\ 1 \in DOMAIN mail[t]
      BY <1>6, ListedIs
    <3>3. r.job = "upload" => r.k \in Uploads /\ up[r.k].tab = t
      BY <3>2, HeadOf, SMTT(30)
    <3> QED  BY <3>1, <3>2, <3>3
  <2>2. up' = IF r.job = "upload"
              THEN [up EXCEPT ![r.k].blob = r.got, ![r.k].pc = "load", ![r.k].to = current[t]]
              ELSE up
    BY <1>6, <2>1 DEF Listed
  <2> HIDE DEF r
  <2>3. \A u \in Uploads : up'[u] = up[u] \/ (up[u].tab = t /\ up'[u].tab = t)
    <3>1. CASE r.job # "upload"
      BY <2>2, <3>1
    <3>2. CASE r.job = "upload"
      <4>1. up' = [up EXCEPT ![r.k] = [up[r.k] EXCEPT !.blob = r.got, !.pc = "load", !.to = current[t]]]
        BY <2>1, <2>2, <3>2, TypeUps
      <4>2. up[r.k] \in UpType
        BY <2>1, <3>2, TypeUps
      <4> DEFINE a == [up[r.k] EXCEPT !.blob = r.got, !.pc = "load", !.to = current[t]]
      <4>3. a.tab = t
        BY <2>1, <3>2, <4>2 DEF UpType
      <4> HIDE DEF a
      <4> QED  BY <2>1, <3>2, <4>1, <4>3, TypeUps DEF a
    <3> QED  BY <3>1, <3>2
  <2>4. \A o \in Tabs : o # t => mail'[o] = mail[o]
    BY <1>0, <1>00, <2>1, Zenon
  <2>5. Elsewhere(t)
    BY <1>6, <2>3, <2>4, Zenon DEF Elsewhere, Listed
  <2> QED  BY <1>a, <2>1, <2>5, BusyIs, SMTT(30)
<1>7. ASSUME NEW t \in Tabs, Refused(t) PROVE Fine
  <2> DEFINE r == mail[t][1]
  <2>1. Moved(t, 1, <<>>) /\ Head(mail[t]) = r /\ mail[t] # <<>>
    BY <1>7, RefusedIs DEF Refused
  <2>2. up' = up
    BY <1>7, <2>1 DEF Refused
  <2> HIDE DEF r
  <2>3. \A u \in Uploads : up'[u] = up[u] \/ up'[u].pc = "done"
    BY <2>2, UpsAre, TypeUps
  <2>4. \A o \in Tabs : o # t => mail'[o] = mail[o] /\ saving'[o] = saving[o]
    BY <1>0, <1>00, <1>7, <2>1 DEF Refused, TypeOK
  <2>5. Elsewhere(t)
    BY <1>7, <2>3, <2>4 DEF Elsewhere
  <2> QED  BY <1>a, <2>1, <2>5, BusyIs
<1>8. ASSUME NEW t \in Tabs, NEW s \in saving[t], SaveSettled(t, s) PROVE Fine
  <2>1. CASE s.reload
    BY <1>8, <1>a, <2>1, ReloadElsewhere, BusyIs DEF SaveSettled
  <2>2. CASE ~s.reload
    <3>1. \A o \in Tabs : o # t => mail'[o] = mail[o]
      BY <1>0, <1>8, <2>2, ShowPosted DEF SaveSettled
    <3>2. Elsewhere(t)
      BY <1>8, <2>2, <3>1 DEF Elsewhere, SaveSettled, TypeOK
    <3> QED  BY <1>a, <1>8, <3>2, BusyIs
  <2> QED  BY <2>1, <2>2
<1>9. ASSUME NEW t \in Tabs, NEW x \in Xacts, Add(t, x) PROVE Fine
  BY <1>9, <1>c DEF Add
<1>10. ASSUME NEW t \in Tabs, NEW x \in Xacts, Register(t, x) PROVE Fine
  <2>1. saves[t] + 1 \in Nat /\ Post(t, <<Req("insert", x, "register", saves[t] + 1)>>)
    BY <1>10, OfflineAssumption DEF Register, TypeOK
  <2>2. \A o \in Tabs : o # t => mail'[o] = mail[o]
    BY <1>0, <2>1, SolePosted, ZenonT(30)
  <2>3. Elsewhere(t) /\ MayAct(t)
    BY <1>10, <2>2 DEF Register, Elsewhere
  <2> QED  BY <1>b, <2>3
<1>11. ASSUME NEW t \in Tabs, Save(t) PROVE Fine
  <2>1. /\ saves[t] + 1 \in Nat /\ page[t] \in SUBSET Xacts
        /\ Post(t, Inserts(page[t], "save", saves[t] + 1))
    BY <1>11, OfflineAssumption DEF Save, TypeOK
  <2>2. \A o \in Tabs : o # t => mail'[o] = mail[o]
    BY <1>0, <2>1, InsertsPosted
  <2>3. Elsewhere(t) /\ MayAct(t)
    BY <1>11, <2>2 DEF Save, StartSave, Elsewhere, TypeOK
  <2> QED  BY <1>b, <2>3
<1>12. ASSUME NEW t \in Tabs, Close(t) PROVE Fine
  <2>1. Elsewhere(t)
    BY <1>12, ReloadElsewhere DEF Close
  <2> QED  BY <1>12, <2>1, ElsewhereBusy DEF Close, Fine
<1>13. ASSUME NEW t \in Tabs, Stay(t) PROVE Fine
  BY <1>13, <1>c DEF Stay
<1>14. ASSUME NEW t \in Tabs, Look(t) PROVE Fine
  <2>1. \A o \in Tabs : o # t => mail'[o] = mail[o]
    BY <1>0, <1>14, ShowPosted DEF Look
  <2>2. Elsewhere(t) /\ MayAct(t)
    BY <1>14, <2>1 DEF Look, Elsewhere
  <2> QED  BY <1>b, <2>2
<1>15. ASSUME NEW t \in Tabs, ClearPending(t) PROVE Fine
  <2>1. \A o \in Tabs : o # t => mail'[o] = mail[o]
    BY <1>0, <1>15, SolePosted DEF ClearPending
  <2>2. Elsewhere(t) /\ MayAct(t)
    BY <1>15, <2>1 DEF ClearPending, Elsewhere
  <2> QED  BY <1>b, <2>2
<1>16. ASSUME NEW t \in Tabs, Export(t) PROVE Fine
  BY <1>16, <1>c DEF Export
<1>17. ASSUME NEW t \in Tabs, Import(t) PROVE Fine
  <2>1. disk \in SUBSET Xacts /\ Post(t, Inserts(disk, "import", None))
    BY <1>17 DEF Import, TypeOK
  <2>2. \A o \in Tabs : o # t => mail'[o] = mail[o]
    BY <1>0, <2>1, InsertsPosted
  <2>3. Elsewhere(t) /\ MayAct(t)
    BY <1>17, <2>2 DEF Import, Elsewhere
  <2> QED  BY <1>b, <2>3
<1>18. ASSUME NEW t \in Tabs, NEW s \in Sessions, Select(t, s) PROVE Fine
  BY <1>18, <1>c DEF Select
<1>19. ASSUME NEW t \in Tabs, NEW s \in Sessions, Process(t, s) PROVE Fine
  BY <1>19, <1>c DEF Process
<1>20. ASSUME NEW t \in Tabs, NEW s \in Sessions, NEW u \in Uploads, AskUpload(t, u, s) PROVE Fine
  <2>1. /\ up'[u].tab = t /\ \A v \in Uploads \ {u} : up'[v] = up[v]
        /\ mail' = mail /\ saving' = saving /\ MayAct(t)
    BY <1>20, TypeUps DEF AskUpload
  <2>2. Elsewhere(t)
    BY <2>1 DEF Elsewhere
  <2> QED  BY <1>b, <2>1, <2>2
<1>21. ASSUME NEW u \in Uploads, GotExceptions(u) PROVE Fine
  <2>1. PICK t \in Tabs : t = up[u].tab
    BY <1>21 DEF GotExceptions, Alive, TypeOK
  <2>2. /\ up[u].pc = "asked" /\ up[u] \in UpType /\ saving' = saving
        /\ Post(t, <<Req("list", None, "upload", u)>>) /\ up' = [up EXCEPT ![u] = [@ EXCEPT !.pc = "blob"]]
    BY <1>21, <2>1, TypeUps DEF GotExceptions
  <2>3. \A o \in Tabs : o # t => mail'[o] = mail[o]
    BY <1>0, <2>2, SolePosted, ZenonT(30)
  <2>4. up'[u] = [up[u] EXCEPT !.pc = "blob"] /\ \A v \in Uploads \ {u} : up'[v] = up[v]
    BY <2>2, TypeUps
  <2>5. up'[u].tab = t
    BY <2>1, <2>2, <2>4 DEF UpType
  <2>6. Elsewhere(t)
    BY <2>1, <2>2, <2>3, <2>4, <2>5 DEF Elsewhere
  <2> QED  BY <1>a, <2>1, <2>2, <2>6, BusyIs
<1>22. ASSUME NEW u \in Uploads, LoadCheck(u) PROVE Fine
  <2> DEFINE pc == IF scripts[up[u].to] > 0 \/ ended[up[u].to] THEN "refused" ELSE "append"
  <2>1. up' = [up EXCEPT ![u] = [@ EXCEPT !.pc = pc]] /\ up[u].pc = "load" /\ mail' = mail /\ saving' = saving
    BY <1>22 DEF LoadCheck
  <2> HIDE DEF pc
  <2>2. up[u] \in UpType /\ up'[u] = [up[u] EXCEPT !.pc = pc] /\ \A v \in Uploads \ {u} : up'[v] = up[v]
    BY <2>1, TypeUps
  <2>3. up'[u].tab = up[u].tab
    BY <2>2 DEF UpType
  <2> QED  BY <1>c, <2>1, <2>2, <2>3
<1>23. ASSUME NEW u \in Uploads, LoadAppend(u) PROVE Fine
  <2>1. up' = [up EXCEPT ![u] = [@ EXCEPT !.pc = "loaded"]] /\ up[u].pc = "append" /\ mail' = mail /\ saving' = saving
    BY <1>23 DEF LoadAppend
  <2>2. up[u] \in UpType /\ up'[u] = [up[u] EXCEPT !.pc = "loaded"] /\ \A v \in Uploads \ {u} : up'[v] = up[v]
    BY <2>1, TypeUps
  <2>3. up'[u].tab = up[u].tab
    BY <2>2 DEF UpType
  <2> QED  BY <1>c, <2>1, <2>2, <2>3
<1>24. ASSUME NEW u \in Uploads, Loaded(u) PROVE Fine
  <2>1. up' = [up EXCEPT ![u] = Finished] /\ up[u].pc = "loaded" /\ saving' = saving
    BY <1>24 DEF Loaded
  <2>2. \A v \in Uploads : up'[v] = up[v] \/ up'[v].pc = "done"
    BY <2>1, TypeUps, UpsAre
  <2>3. CASE ~Alive(u)
    BY <1>24, <1>c, <2>1, <2>2, <2>3 DEF Loaded
  <2>4. CASE Alive(u)
    <3>1. PICK t \in Tabs : t = up[u].tab
      BY <2>4, TypeUps, UpsAre DEF Alive
    <3>2. Post(t, <<Req("wipe", None, "clear", None)>>)
      BY <1>24, <2>4, <3>1 DEF Loaded
    <3>3. \A o \in Tabs : o # t => mail'[o] = mail[o]
      BY <1>0, <3>2, SolePosted
    <3>4. Elsewhere(t)
      BY <2>1, <2>2, <3>3 DEF Elsewhere
    <3> QED  BY <1>a, <2>1, <3>1, <3>4, BusyIs
  <2> QED  BY <2>3, <2>4
<1>25. ASSUME NEW u \in Uploads, NotLoaded(u) PROVE Fine
  <2>1. up' = [up EXCEPT ![u] = Finished] /\ mail' = mail /\ saving' = saving
    BY <1>25 DEF NotLoaded
  <2>2. \A v \in Uploads : up'[v] = up[v] \/ up'[v].pc = "done"
    BY <2>1, TypeUps, UpsAre
  <2> QED  BY <1>c, <2>1, <2>2
<1>26. ASSUME NEW s \in Sessions, ChildRuns(s) PROVE Fine
  BY <1>26, <1>c DEF ChildRuns
<1>27. Fine
  BY <1>1, <1>2, <1>3, <1>4, <1>5, <1>6, <1>7, <1>8, <1>9, <1>10, <1>11, <1>12, <1>13, <1>14,
     <1>15, <1>16, <1>17, <1>18, <1>19, <1>20, <1>21, <1>22, <1>23, <1>24, <1>25, <1>26
     DEF Next, Machine, Network, Staff
<1> QED  BY <1>27 DEF Fine

LEMMA OneBusyStep ==
    ASSUME TypeOK, Known, OneBusy, Next
    PROVE  OneBusy'
<1> SUFFICES ASSUME "tabs" \notin Hurries', NEW t \in Tabs, NEW o \in Tabs, Busy(t)', Busy(o)'
             PROVE  t = o
  BY DEF OneBusy
<1>1. "tabs" \notin Hurries
  BY DEF Next, Hurries
<1>2. \A p, q \in Tabs : Busy(p) /\ Busy(q) => p = q
  BY <1>1 DEF OneBusy
<1>3. PICK w \in Tabs \cup {None} :
        /\ \A p \in Tabs : p # w /\ Busy(p)' => Busy(p)
        /\ w \in Tabs => Busy(w) \/ \A p \in Tabs \ {w} : ~Busy(p)
  BY <1>1, BusyStep
<1> QED  BY <1>2, <1>3
\* An upload keeps the session it was asked for, and its tab stays at it until it has the list.
Follows(v) ==
    /\ \/ up'[v].to = None
       \/ /\ up'[v].asked = up[v].asked
          /\ \/ up'[v].to = up[v].to
             \/ up[v].pc = "blob" /\ Alive(v) /\ up'[v].to = current[up[v].tab]
    /\ up'[v].tab # None /\ up'[v].pc \in {"asked", "blob"} =>
          \/ current'[up'[v].tab] = up'[v].asked
          \/ /\ up[v].pc \in {"asked", "blob"} /\ up[v].tab # None
             /\ up'[v].tab = up[v].tab /\ up'[v].asked = up[v].asked
             /\ current'[up[v].tab] = current[up[v].tab]

LEMMA FollowsIs ==
    ASSUME StaysCurrent, SentWhereAsked, UNCHANGED ways, "click" \notin Hurries => \A v \in Uploads : Follows(v)
    PROVE  StaysCurrent' /\ SentWhereAsked'
<1> SUFFICES ASSUME "click" \notin Hurries, NEW v \in Uploads
             PROVE  /\ up'[v].tab # None /\ up'[v].pc \in {"asked", "blob"} => current'[up'[v].tab] = up'[v].asked
                    /\ up'[v].to \in {None, up'[v].asked}
  BY DEF StaysCurrent, SentWhereAsked, Hurries, Alive
<1>1. /\ Follows(v) /\ up[v].to \in {None, up[v].asked}
      /\ up[v].tab # None /\ up[v].pc \in {"asked", "blob"} => current[up[v].tab] = up[v].asked
  BY DEF StaysCurrent, SentWhereAsked, Alive
<1> QED  BY <1>1 DEF Follows, Alive

LEMMA FollowsStill ==
    ASSUME NEW v, up'[v] = up[v], up[v].tab # None /\ up[v].pc \in {"asked", "blob"} => current'[up[v].tab] = current[up[v].tab]
    PROVE  Follows(v)
BY DEF Follows

LEMMA FollowsFinished ==
    ASSUME NEW v, up'[v] = Finished
    PROVE  Follows(v)
BY UpsAre DEF Follows

LEMMA CurrentReload ==
    ASSUME TypeOK, NEW t \in Tabs, Reload(t), NEW v \in Uploads
    PROVE  Follows(v)
<1>1. up[v] \in UpType /\ current \in [Tabs -> Sessions \cup {None}] /\ up[v].tab \in Tabs \cup {None}
  BY TypeUps, UpsAre DEF TypeOK
<1>2. up'[v] = IF up[v].tab = t THEN [up[v] EXCEPT !.tab = None] ELSE up[v]
  BY DEF Reload
<1>3. CASE up[v].tab = t
  <2>1. up'[v].tab = None /\ up'[v].asked = up[v].asked /\ up'[v].to = up[v].to
    BY <1>1, <1>2, <1>3 DEF UpType
  <2> QED  BY <2>1 DEF Follows
<1>4. CASE up[v].tab # t
  <2>1. up'[v] = up[v] /\ (up[v].tab # None => current'[up[v].tab] = current[up[v].tab])
    BY <1>1, <1>2, <1>4 DEF Reload
  <2> QED  BY <2>1, FollowsStill
<1> QED  BY <1>3, <1>4

LEMMA CurrentStep ==
    ASSUME TypeOK, Known, StaysCurrent, SentWhereAsked, Next
    PROVE  StaysCurrent' /\ SentWhereAsked'
<1> USE DEF tabVars, storeVars, diskVars, serverVars, staffVars
<1> DEFINE All == \A v \in Uploads : Follows(v)
<1>a. ASSUME up' = up, current' = current PROVE All
  BY <1>a, FollowsStill
<1>b. ASSUME NEW u \in Uploads, current' = current, \A v \in Uploads \ {u} : up'[v] = up[v], Follows(u) PROVE All
  BY <1>b, FollowsStill
<1>c. ASSUME NEW u \in Uploads, current' = current, up' = [up EXCEPT ![u] = Finished] PROVE All
  <2>1. up'[u] = Finished /\ \A v \in Uploads \ {u} : up'[v] = up[v]
    BY <1>c, TypeUps
  <2> QED  BY <1>b, <1>c, <2>1, FollowsFinished
<1>d. ASSUME NEW u \in Uploads, current' = current, NEW pc \in UploadPc, up' = [up EXCEPT ![u].pc = pc],
             up[u].pc = "asked" \/ pc \notin {"asked", "blob"}
      PROVE  All
  <2>1. up[u] \in UpType /\ up' = [up EXCEPT ![u] = [up[u] EXCEPT !.pc = pc]]
    BY <1>d, TypeUps
  <2>2. up'[u] = [up[u] EXCEPT !.pc = pc] /\ \A v \in Uploads \ {u} : up'[v] = up[v]
    BY <2>1, TypeUps
  <2>3. up'[u].tab = up[u].tab /\ up'[u].asked = up[u].asked /\ up'[u].to = up[u].to /\ up'[u].pc = pc
    BY <2>1, <2>2 DEF UpType
  <2>4. Follows(u)
    BY <1>d, <2>3 DEF Follows
  <2> QED  BY <1>b, <1>d, <2>2, <2>4
<1> HIDE DEF All
<1>1. ASSUME NEW t \in Tabs, Listed(t) PROVE All
  <2> DEFINE r == mail[t][1]
  <2>1. /\ Head(mail[t]) = r /\ r.got \in Rows
        /\ r.job = "upload" => r.k \in Uploads /\ up[r.k].tab = t /\ up[r.k].pc = "blob"
    BY <1>1, ListedIs, HeadOf, SMTT(30)
  <2>2. /\ current' = current
        /\ up' = IF r.job = "upload"
                 THEN [up EXCEPT ![r.k].blob = r.got, ![r.k].pc = "load", ![r.k].to = current[t]]
                 ELSE up
    BY <1>1, <2>1 DEF Listed
  <2> HIDE DEF r
  <2>3. CASE r.job = "upload"
    <3> DEFINE a == [up[r.k] EXCEPT !.blob = r.got, !.pc = "load", !.to = current[t]]
    <3>1. up' = [up EXCEPT ![r.k] = a]
      BY <2>1, <2>2, <2>3, TypeUps
    <3>2. up[r.k] \in UpType
      BY <2>1, <2>3, TypeUps
    <3>3. a.tab = up[r.k].tab /\ a.asked = up[r.k].asked /\ a.pc = "load" /\ a.to = current[t]
      BY <3>2 DEF UpType
    <3> HIDE DEF a
    <3>4. up'[r.k] = a /\ \A v \in Uploads \ {r.k} : up'[v] = up[v]
      BY <2>1, <2>3, <3>1, TypeUps
    <3>5. t # None
      BY OfflineAssumption
    <3>6. Follows(r.k)
      BY <2>1, <2>3, <3>3, <3>4, <3>5 DEF Follows, Alive
    <3> QED  BY <1>b, <2>1, <2>2, <2>3, <3>4, <3>6
  <2>4. CASE r.job # "upload"
    BY <1>a, <2>2, <2>4
  <2> QED  BY <2>3, <2>4
<1>2. ASSUME NEW t \in Tabs, Refused(t) PROVE All
  <2>1. /\ current' = current /\ 1 \in DOMAIN mail[t] /\ Head(mail[t]) = mail[t][1]
        /\ up' = up
    BY <1>2, RefusedIs DEF Refused
  <2>2. mail[t][1].job = "upload" => mail[t][1].k \in Uploads
    BY <2>1, HeadOf
  <2> QED  BY <1>a, <1>c, <2>1, <2>2
<1>3. ASSUME NEW t \in Tabs, NEW s \in saving[t], SaveSettled(t, s) PROVE All
  BY <1>3, <1>a, CurrentReload DEF SaveSettled, All
<1>4. ASSUME NEW t \in Tabs, Close(t) PROVE All
  BY <1>4, CurrentReload DEF Close, All
<1>5. ASSUME NEW t \in Tabs, NEW s \in Sessions, Process(t, s) PROVE All
  <2>1. up' = up /\ current' = [current EXCEPT ![t] = s] /\ ~Busy(t)
    BY <1>5 DEF Process
  <2>2. ASSUME NEW v \in Uploads PROVE Follows(v)
    <3>1. up[v].pc \in {"asked", "blob"} => up[v].tab # t
      BY <2>1, BusyIs
    <3> QED  BY <2>1, <3>1, FollowsStill DEF TypeOK
  <2> QED  BY <2>2 DEF All
<1>6. ASSUME NEW t \in Tabs, NEW s \in Sessions, NEW u \in Uploads, AskUpload(t, u, s), "click" \notin Hurries PROVE All
  <2>1. current' = [current EXCEPT ![t] = s] /\ ~Busy(t)
    BY <1>6 DEF AskUpload
  <2> DEFINE a == [tab |-> t, asked |-> s, pc |-> "asked", blob |-> NoRows, to |-> None]
  <2>2. up' = [up EXCEPT ![u] = a]
    BY <1>6 DEF AskUpload
  <2>3. a.tab = t /\ a.asked = s /\ a.to = None
    OBVIOUS
  <2> HIDE DEF a
  <2>4. up'[u] = a /\ (\A v \in Uploads \ {u} : up'[v] = up[v]) /\ current'[t] = s
    BY <2>1, <2>2, TypeUps DEF TypeOK
  <2>5. ASSUME NEW v \in Uploads \ {u} PROVE Follows(v)
    <3>1. up[v].pc \in {"asked", "blob"} => up[v].tab # t
      BY <2>1, BusyIs
    <3> QED  BY <2>1, <2>4, <3>1, FollowsStill DEF TypeOK
  <2>6. Follows(u)
    BY <2>3, <2>4 DEF Follows
  <2> QED  BY <2>5, <2>6 DEF All
<1>7. ASSUME NEW u \in Uploads, Network(u) PROVE All
  <2>1. GotExceptions(u) => up[u].pc = "asked" /\ up' = [up EXCEPT ![u].pc = "blob"] /\ current' = current
    BY DEF GotExceptions
  <2> DEFINE pc == IF scripts[up[u].to] > 0 \/ ended[up[u].to] THEN "refused" ELSE "append"
  <2>2. LoadCheck(u) => up' = [up EXCEPT ![u].pc = pc] /\ current' = current
    BY DEF LoadCheck
  <2>3. pc \in UploadPc /\ pc \notin {"asked", "blob"} /\ "blob" \in UploadPc /\ "loaded" \in UploadPc
    BY DEF UploadPc
  <2> HIDE DEF pc
  <2>4. LoadAppend(u) => up' = [up EXCEPT ![u].pc = "loaded"] /\ current' = current
    BY DEF LoadAppend
  <2>5. Loaded(u) \/ NotLoaded(u) => up' = [up EXCEPT ![u] = Finished] /\ current' = current
    BY DEF Loaded, NotLoaded
  <2> QED  BY <1>7, <1>c, <1>d, <2>1, <2>2, <2>3, <2>4, <2>5 DEF Network
<1>8. ASSUME NEW t \in Tabs,
             \/ Work(t) \/ Inserted(t) \/ Dated(t) \/ Wiped(t) \/ Undated(t) \/ Save(t) \/ Stay(t)
             \/ Look(t) \/ ClearPending(t) \/ Export(t) \/ Import(t)
             \/ \E x \in Xacts : Add(t, x) \/ Register(t, x)
      PROVE  All
  <2>1. up' = up /\ current' = current
    BY <1>8 DEF Work, Inserted, Dated, Wiped, Undated, Save, Stay, Look, ClearPending, Export, Import, Add, Register
  <2> QED  BY <1>a, <2>1
<1>9. ASSUME NEW s \in Sessions, ChildRuns(s) PROVE All
  BY <1>9, <1>a DEF ChildRuns
<1>10. "click" \notin Hurries => All
  <2>1. \A t \in Tabs, s \in Sessions : Select(t, s) => "click" \in Hurries
    BY DEF Select
  <2> QED  BY <1>1, <1>2, <1>3, <1>4, <1>5, <1>6, <1>7, <1>8, <1>9, <2>1 DEF Next, Machine, Staff
<1> QED  BY <1>10, FollowsIs DEF Next, All
-----------------------------------------------------------------------------
(* What there is in the queues: inserts to come, wipes to come, lists read.  *)

\* The inserts among some requests.
Those(rs) == {x \in Xacts : \E j \in 1..Len(rs) : rs[j].op = "insert" /\ rs[j].x = x}

InsertsFirst ==
    \A t \in Tabs : \A i, j \in DOMAIN mail[t] :
        mail[t][i].job = "upload" /\ mail[t][j].op = "insert" => j < i

\* An upload has been given its list.
HasList(t, i) == i \in DOMAIN mail[t] /\ mail[t][i].job = "upload" /\ mail[t][i].st = "ok"

\* No upload is given a list, and there are no new wipes nor inserts before an upload's list.
Steady ==
    /\ WipeComes' => WipeComes
    /\ InsertsFirst => InsertsFirst'
    /\ \A t \in Tabs : \A i \in DOMAIN mail'[t] :
          mail'[t][i].job = "upload" /\ mail'[t][i].st = "ok" =>
              \E j \in DOMAIN mail[t] : HasList(t, j) /\ mail'[t][i].got = mail[t][j].got

LEMMA SteadyStill ==
    ASSUME mail' = mail
    PROVE  Steady /\ InMail' = InMail
BY DEF Steady, WipeComes, InsertsFirst, HasList, InMail

LEMMA MovedInMail ==
    ASSUME TypeOK, NEW t \in Tabs, NEW d \in {0, 1}, NEW rs \in Seq(ReqType), Moved(t, d, rs),
           d = 1 => mail[t][1].st # "sent", \A j \in 1..Len(rs) : rs[j].st = "sent"
    PROVE  InMail' = InMail \cup Those(rs)
<1>1. /\ \A o \in Tabs : \A i \in DOMAIN mail'[o] :
            \/ \E j \in DOMAIN mail[o] : mail'[o][i] = mail[o][j]
            \/ o = t /\ \E j \in 1..Len(rs) : mail'[o][i] = rs[j]
      /\ \A o \in Tabs : \A j \in DOMAIN mail[o] :
            (o = t => d < j) => \E i \in DOMAIN mail'[o] : mail'[o][i] = mail[o][j]
      /\ \A j \in 1..Len(rs) : \E i \in DOMAIN mail'[t] : mail'[t][i] = rs[j]
  <2>1. Flows(t, d, rs)
    BY TypeMails, MovedFlow
  <2> QED  BY <2>1 DEF Flows
<1>2. \A o \in Tabs : \A j \in DOMAIN mail[o] : mail[o][j].st = "sent" => (o = t => d < j)
  <2>1. \A o \in Tabs : DOMAIN mail[o] = 1..Len(mail[o]) /\ Len(mail[o]) \in Nat
    BY TypeMails, MailType
  <2> QED  BY <2>1
<1>3. ASSUME NEW x \in InMail' PROVE x \in InMail \cup Those(rs)
  <2>0. PICK o \in Tabs : \E i \in DOMAIN mail'[o] :
           mail'[o][i].op = "insert" /\ mail'[o][i].x = x /\ mail'[o][i].st = "sent"
    BY <1>3 DEF InMail
  <2>1. PICK i \in DOMAIN mail'[o] :
           mail'[o][i].op = "insert" /\ mail'[o][i].x = x /\ mail'[o][i].st = "sent"
    BY <2>0
  <2>2. x \in Xacts
    BY <1>3 DEF InMail
  <2> QED  BY <1>1, <2>1, <2>2 DEF InMail, Those
<1>4. ASSUME NEW x \in InMail PROVE x \in InMail'
  <2>0. PICK o \in Tabs : \E j \in DOMAIN mail[o] :
           mail[o][j].op = "insert" /\ mail[o][j].x = x /\ mail[o][j].st = "sent"
    BY <1>4 DEF InMail
  <2>1. PICK j \in DOMAIN mail[o] :
           mail[o][j].op = "insert" /\ mail[o][j].x = x /\ mail[o][j].st = "sent"
    BY <2>0
  <2>2. PICK i \in DOMAIN mail'[o] : mail'[o][i] = mail[o][j]
    BY <1>1, <1>2, <2>1
  <2> QED  BY <1>4, <2>1, <2>2 DEF InMail
<1>5. ASSUME NEW x \in Those(rs) PROVE x \in InMail'
  <2>1. PICK j \in 1..Len(rs) : rs[j].op = "insert" /\ rs[j].x = x
    BY <1>5 DEF Those
  <2>2. PICK i \in DOMAIN mail'[t] : mail'[t][i] = rs[j]
    BY <1>1
  <2> QED  BY <1>5, <2>1, <2>2 DEF InMail, Those
<1> QED  BY <1>3, <1>4, <1>5

LEMMA MovedSteady ==
    ASSUME TypeOK, NEW t \in Tabs, NEW d \in {0, 1}, NEW rs \in Seq(ReqType), Moved(t, d, rs),
           \A j \in 1..Len(rs) : rs[j].st = "sent" /\ rs[j].op \notin {"insert", "wipe"}
    PROVE  Steady
<1>1. \A o \in Tabs : \A i \in DOMAIN mail'[o] :
         \/ \E j \in DOMAIN mail[o] : /\ mail'[o][i] = mail[o][j]
                                      /\ j = IF o = t THEN i + d ELSE i
         \/ o = t /\ \E j \in 1..Len(rs) : mail'[o][i] = rs[j] /\ i = Len(mail[t]) - d + j
  <2>1. Flows(t, d, rs)
    BY TypeMails, MovedFlow
  <2> QED  BY <2>1 DEF Flows
<1>2. \A o \in Tabs : \A i \in DOMAIN mail'[o] :
         mail'[o][i].st # "sent" \/ mail'[o][i].op \in {"insert", "wipe"} =>
             \E j \in DOMAIN mail[o] : /\ mail'[o][i] = mail[o][j]
                                       /\ j = IF o = t THEN i + d ELSE i
  BY <1>1
<1>3. WipeComes' => WipeComes
  BY <1>2 DEF WipeComes, ToWipe
<1>4. /\ \A o \in Tabs : Len(mail[o]) \in Nat /\ DOMAIN mail[o] = 1..Len(mail[o])
      /\ \A o \in Tabs : Len(mail'[o]) \in Nat /\ DOMAIN mail'[o] = 1..Len(mail'[o])
      /\ Len(rs) \in Nat
  BY TypeMails, MailType, LenProperties DEF Moved, Mails
<1>5. ASSUME InsertsFirst, NEW o \in Tabs, NEW i \in DOMAIN mail'[o], NEW k \in DOMAIN mail'[o],
             mail'[o][i].job = "upload", mail'[o][k].op = "insert"
      PROVE  k < i
  <2>1. PICK l \in DOMAIN mail[o] : mail'[o][k] = mail[o][l] /\ l = IF o = t THEN k + d ELSE k
    BY <1>2, <1>5
  <2>2. CASE \E j \in DOMAIN mail[o] : mail'[o][i] = mail[o][j] /\ j = IF o = t THEN i + d ELSE i
    <3>1. PICK j \in DOMAIN mail[o] : mail'[o][i] = mail[o][j] /\ j = IF o = t THEN i + d ELSE i
      BY <2>2
    <3>2. l < j
      BY <1>5, <2>1, <3>1 DEF InsertsFirst
    <3> QED  BY <1>4, <2>1, <3>1, <3>2
  <2>3. CASE o = t /\ \E j \in 1..Len(rs) : mail'[o][i] = rs[j] /\ i = Len(mail[t]) - d + j
    BY <1>4, <2>1, <2>3, SMTT(30)
  <2> QED  BY <1>1, <2>2, <2>3
<1>6. InsertsFirst => InsertsFirst'
  BY <1>5 DEF InsertsFirst
<1>7. \A o \in Tabs : \A i \in DOMAIN mail'[o] :
         mail'[o][i].job = "upload" /\ mail'[o][i].st = "ok" =>
             \E j \in DOMAIN mail[o] : HasList(o, j) /\ mail'[o][i].got = mail[o][j].got
  BY <1>2 DEF HasList
<1> QED  BY <1>3, <1>6, <1>7 DEF Steady

\* Requests that neither insert nor wipe.
LEMMA MovedCalm ==
    ASSUME TypeOK, NEW t \in Tabs, NEW d \in {0, 1}, NEW rs \in Seq(ReqType), Moved(t, d, rs),
           d = 1 => mail[t][1].st # "sent",
           \A j \in 1..Len(rs) : rs[j].st = "sent" /\ rs[j].op \notin {"insert", "wipe"}
    PROVE  Steady /\ InMail' = InMail
<1>1. Those(rs) = {}
  BY DEF Those
<1> QED  BY <1>1, MovedInMail, MovedSteady

LEMMA PoppedCalm ==
    ASSUME TypeOK, NEW t \in Tabs, Moved(t, 1, <<>>), mail[t][1].st # "sent"
    PROVE  Steady /\ InMail' = InMail
<1>1. PICK rs \in Seq(ReqType) : rs = <<>> /\ Len(rs) = 0
  BY NoRequest
<1>2. Moved(t, 1, rs) /\ \A j \in 1..Len(rs) : rs[j].st = "sent" /\ rs[j].op \notin {"insert", "wipe"}
  BY <1>1
<1>3. \E d \in {0, 1} : d = 1
  OBVIOUS
<1> QED  BY <1>2, <1>3, MovedCalm

LEMMA ReloadCalm ==
    ASSUME TypeOK, NEW t \in Tabs, Reload(t)
    PROVE  Steady /\ InMail' = InMail
<1>1. PICK d \in 0..Len(mail[t]) : Renewed(t, d)
  BY TypeMails, ReloadIs
<1>2. /\ \A o \in Tabs : o # t => mail'[o] = mail[o]
      /\ \A i \in DOMAIN mail'[t] :
            \/ mail'[t][i].op = "list" /\ mail'[t][i].job = "show"
            \/ \E j \in DOMAIN mail[t] :
                  /\ mail'[t][i].job = "nobody"
                  /\ mail'[t][i].op = mail[t][j].op /\ mail'[t][i].x = mail[t][j].x
                  /\ mail'[t][i].st = mail[t][j].st
      /\ \A j \in DOMAIN mail[t] : mail[t][j].st = "sent" =>
            \E i \in DOMAIN mail'[t] :
                  /\ mail'[t][i].op = mail[t][j].op /\ mail'[t][i].x = mail[t][j].x
                  /\ mail'[t][i].st = mail[t][j].st
  BY <1>1, TypeMails, RenewedFlow
<1>3. ASSUME NEW x \in InMail' PROVE x \in InMail
  <2>0. PICK o \in Tabs : \E i \in DOMAIN mail'[o] :
           mail'[o][i].op = "insert" /\ mail'[o][i].x = x /\ mail'[o][i].st = "sent"
    BY <1>3 DEF InMail
  <2>1. PICK i \in DOMAIN mail'[o] :
           mail'[o][i].op = "insert" /\ mail'[o][i].x = x /\ mail'[o][i].st = "sent"
    BY <2>0
  <2>2. x \in Xacts
    BY <1>3 DEF InMail
  <2> QED  BY <1>2, <2>1, <2>2 DEF InMail
<1>4. ASSUME NEW x \in InMail PROVE x \in InMail'
  <2>0. PICK o \in Tabs : \E j \in DOMAIN mail[o] :
           mail[o][j].op = "insert" /\ mail[o][j].x = x /\ mail[o][j].st = "sent"
    BY <1>4 DEF InMail
  <2>1. PICK j \in DOMAIN mail[o] :
           mail[o][j].op = "insert" /\ mail[o][j].x = x /\ mail[o][j].st = "sent"
    BY <2>0
  <2>2. x \in Xacts
    BY <1>4 DEF InMail
  <2> QED  BY <1>2, <2>1, <2>2 DEF InMail
<1>5. WipeComes' => WipeComes
  BY <1>2 DEF WipeComes, ToWipe
<1>6. InsertsFirst => InsertsFirst'
  BY <1>2 DEF InsertsFirst
<1>7. \A o \in Tabs : \A i \in DOMAIN mail'[o] :
         mail'[o][i].job = "upload" /\ mail'[o][i].st = "ok" =>
             \E j \in DOMAIN mail[o] : HasList(o, j) /\ mail'[o][i].got = mail[o][j].got
  BY <1>2 DEF HasList
<1> QED  BY <1>3, <1>4, <1>5, <1>6, <1>7 DEF Steady

\* The worker carries out or refuses one request.
LEMMA ServedInMail ==
    ASSUME TypeOK, NEW t \in Tabs, NEW i \in 1..Len(mail[t]), Served(t, i)
    PROVE  /\ InMail' \subseteq InMail
           /\ mail[t][i].op = "insert" /\ mail[t][i].x \in Xacts =>
                 mail[t][i].x \in InMail /\ InMail \subseteq InMail' \cup {mail[t][i].x}
           /\ mail[t][i].op # "insert" => InMail' = InMail
           /\ (WipeComes' => WipeComes) /\ (mail[t][i].op = "wipe" => WipeComes)
           /\ InsertsFirst => InsertsFirst'
<1>1. /\ \A o \in Tabs : DOMAIN mail'[o] = DOMAIN mail[o]
      /\ \A o \in Tabs : \A j \in DOMAIN mail[o] :
            /\ mail'[o][j].op = mail[o][j].op /\ mail'[o][j].x = mail[o][j].x
            /\ mail'[o][j].job = mail[o][j].job
            /\ o # t \/ j # i => mail'[o][j] = mail[o][j]
      /\ i \in DOMAIN mail[t] /\ mail[t][i].st = "sent" /\ mail'[t][i].st # "sent"
  BY TypeMails, ServedFlow
<1>2. \A o \in Tabs : \A j \in DOMAIN mail'[o] : mail'[o][j].st = "sent" =>
         j \in DOMAIN mail[o] /\ mail'[o][j] = mail[o][j]
  BY <1>1
<1>3. InMail' \subseteq InMail
  BY <1>2 DEF InMail
<1>4. ASSUME NEW x \in InMail, x \notin InMail' PROVE mail[t][i].op = "insert" /\ mail[t][i].x = x
  <2>0. PICK o \in Tabs : \E j \in DOMAIN mail[o] :
           mail[o][j].op = "insert" /\ mail[o][j].x = x /\ mail[o][j].st = "sent"
    BY <1>4 DEF InMail
  <2>1. PICK j \in DOMAIN mail[o] :
           mail[o][j].op = "insert" /\ mail[o][j].x = x /\ mail[o][j].st = "sent"
    BY <2>0
  <2>2. x \in Xacts
    BY <1>4 DEF InMail
  <2>3. o = t /\ j = i
    BY <1>1, <1>4, <2>1, <2>2 DEF InMail
  <2> QED  BY <2>1, <2>3
<1>5. mail[t][i].op = "insert" /\ mail[t][i].x \in Xacts => mail[t][i].x \in InMail
  BY <1>1 DEF InMail
<1>6. (WipeComes' => WipeComes) /\ (mail[t][i].op = "wipe" => WipeComes)
  BY <1>1, <1>2 DEF WipeComes, ToWipe
<1>7. InsertsFirst => InsertsFirst'
  BY <1>1 DEF InsertsFirst
<1> QED  BY <1>3, <1>4, <1>5, <1>6, <1>7
-----------------------------------------------------------------------------
(* Nothing of careful staff is lost.                                       *)

Somewhere == \A x \in entered : Safe(x) \/ \E t \in Tabs : x \in page[t]
SavesSafe == \A t \in Tabs : saving[t] # {} => \A x \in page[t] : Safe(x)
Prompts == MayClose => \A t \in Tabs : page[t] # {} => warns[t]
ListsTrue == \A t \in Tabs : \A i \in DOMAIN mail[t] :
    HasList(t, i) => In(stored) \subseteq In(mail[t][i].got) /\ InMail = {}
UpTrue(u) == Alive(u) /\ up[u].pc \in Begun =>
    /\ InMail = {}
    /\ up[u].pc \in {"load", "append"} => In(stored) \subseteq In(up[u].blob)
    /\ up[u].pc = "loaded" => \A x \in In(stored) : Gone(x)
WipesTrue == WipeComes => InMail = {} /\ \A x \in In(stored) : Gone(x)

Onward == InsertsFirst /\ ListsTrue /\ (\A u \in Uploads : UpTrue(u)) /\ WipesTrue
Parts == Somewhere /\ SavesSafe /\ Prompts /\ Onward

LEMMA CarefulIs ==
    /\ CarefulTrue <=> (Careful => Parts)
    /\ CarefulTrue' <=> (Careful' => Parts')
BY DEF CarefulTrue, Parts, Onward, Somewhere, SavesSafe, Prompts, InsertsFirst, ListsTrue, UpTrue, WipesTrue, HasList

LEMMA CarefulStaff ==
    ASSUME Careful
    PROVE  /\ "tabs" \notin Hurries /\ "add" \notin Hurries /\ "process" \notin Hurries
           /\ ~MayStay /\ ~(MayClose /\ Registers)
BY DEF Careful

\* The server keeps what it has.
Grows == \A s \in Sessions : \A x \in Xacts : file[s][x] > 0 => file'[s][x] > 0

LEMMA GoneKept ==
    ASSUME Grows, dropped \subseteq dropped'
    PROVE  \A x \in Xacts : Gone(x) => Gone(x)'
BY DEF Grows, Gone

LEMMA SafeKept ==
    ASSUME Grows, denied \subseteq denied', \A x \in In(stored) \cup InMail \cup dropped : Safe(x)'
    PROVE  \A x \in Xacts : Safe(x) => Safe(x)'
BY DEF Grows, Safe, Gone

\* A tab that is the only busy one, and does not upload.
LEMMA NoUploads ==
    ASSUME TypeOK, Known, NEW t \in Tabs, \A o \in Tabs \ {t} : ~Busy(o), t \in EntryTabs \/ ~Busy(t)
    PROVE  /\ ~WipeComes /\ \A u \in Uploads : ~Alive(u)
           /\ \A o \in Tabs : \A i \in DOMAIN mail[o] :
                 o = t /\ t \in EntryTabs /\ mail[o][i].job # "upload" /\ mail[o][i].op # "wipe"
<1>1. EntryTabs \cap SessionTabs = {}
  BY OfflineAssumption
<1>2. ASSUME NEW o \in Tabs, NEW i \in DOMAIN mail[o]
      PROVE  o = t /\ t \in EntryTabs
  <2>1. Busy(o)
    BY BusyIs
  <2> QED  BY <2>1
<1>3. ASSUME NEW u \in Uploads PROVE ~Alive(u)
  <2>1. WellUp(up[u]) /\ up[u].tab \in Tabs \cup {None}
    BY TypeUps, UpsAre DEF Known
  <2>2. Alive(u) => up[u].tab \in SessionTabs /\ Busy(up[u].tab)
    BY <2>1, BusyIs DEF WellUp, Alive
  <2> QED  BY <1>1, <2>1, <2>2 DEF Tabs
<1>4. ASSUME NEW o \in Tabs, NEW i \in DOMAIN mail[o]
      PROVE  mail[o][i].job # "upload" /\ mail[o][i].op # "wipe"
  <2>1. Wellmade(o, mail[o][i])
    BY DEF Known
  <2>2. o \notin SessionTabs /\ o # None
    BY <1>1, <1>2, OfflineAssumption
  <2>3. mail[o][i].job = "upload" => mail[o][i].k \in Uploads /\ Alive(mail[o][i].k)
    BY <2>1, <2>2 DEF Wellmade, Alive
  <2> QED  BY <1>3, <2>1, <2>2, <2>3 DEF Wellmade
<1>5. ~WipeComes
  BY <1>4 DEF WipeComes, ToWipe
<1> QED  BY <1>2, <1>3, <1>4, <1>5

LEMMA OnwardNone ==
    ASSUME \A u \in Uploads : up'[u].tab = None,
           \A o \in Tabs : \A i \in DOMAIN mail'[o] : mail'[o][i].job # "upload" /\ mail'[o][i].op # "wipe"
    PROVE  Onward'
BY DEF Onward, InsertsFirst, ListsTrue, HasList, UpTrue, Alive, WipesTrue, WipeComes, ToWipe

\* An entry form's tab, or one that imports, sends inserts.
LEMMA OnwardInserts ==
    ASSUME TypeOK, Known, NEW t \in Tabs, \A o \in Tabs \ {t} : ~Busy(o), t \in EntryTabs \/ ~Busy(t),
           up' = up, NEW d \in {0, 1}, NEW rs \in Seq(ReqType), Moved(t, d, rs),
           \A j \in 1..Len(rs) : rs[j].op = "insert" /\ rs[j].job # "upload"
    PROVE  Onward'
<1>1. \A u \in Uploads : up'[u].tab = None
  BY NoUploads DEF Alive
<1>2. /\ \A o \in Tabs : \A i \in DOMAIN mail'[o] :
            \/ \E j \in DOMAIN mail[o] : mail'[o][i] = mail[o][j]
            \/ o = t /\ \E j \in 1..Len(rs) : mail'[o][i] = rs[j]
  <2>1. Flows(t, d, rs)
    BY TypeMails, MovedFlow
  <2> QED  BY <2>1 DEF Flows
<1>3. \A o \in Tabs : \A i \in DOMAIN mail'[o] : mail'[o][i].job # "upload" /\ mail'[o][i].op # "wipe"
  BY <1>2, NoUploads
<1> QED  BY <1>1, <1>3, OnwardNone

LEMMA OnwardSteady ==
    ASSUME Onward, Steady, InMail' = InMail, stored' = stored, Grows, dropped \subseteq dropped', TypeOK,
           \A u \in Uploads :
              \/ up'[u] = up[u]
              \/ up'[u].tab = None \/ up'[u].pc \notin Begun
              \/ UpTrue(u)'
    PROVE  Onward'
<1>1. \A x \in In(stored) : Gone(x) => Gone(x)'
  BY GoneKept DEF In
<1>2. WipesTrue'
  BY <1>1 DEF Onward, Steady, WipesTrue, In
<1>3. InsertsFirst'
  BY DEF Onward, Steady
<1>4. ListsTrue'
  <2>1. \A t \in Tabs : \A i \in DOMAIN mail'[t] : HasList(t, i)' =>
           \E j \in DOMAIN mail[t] : HasList(t, j) /\ mail'[t][i].got = mail[t][j].got
    BY DEF Steady, HasList
  <2> QED  BY <2>1 DEF Onward, ListsTrue, In
<1>5. ASSUME NEW u \in Uploads PROVE UpTrue(u)'
  <2>1. CASE up'[u] = up[u]
    <3>1. UpTrue(u)
      BY DEF Onward
    <3> QED  BY <1>1, <2>1, <3>1 DEF UpTrue, Alive, In
  <2>2. CASE up'[u].tab = None \/ up'[u].pc \notin Begun
    BY <2>2 DEF UpTrue, Alive
  <2> QED  BY <2>1, <2>2
<1> QED  BY <1>2, <1>3, <1>4, <1>5 DEF Onward

\* A step that sends no insert and no wipe, and empties no page but of what is safe.
LEMMA PartsSteady ==
    ASSUME TypeOK, Parts, Steady, InMail' = InMail, UNCHANGED <<stored, file, entered, denied, ways>>,
           dropped \subseteq dropped',
           \A t \in Tabs : /\ page'[t] \subseteq page[t]
                           /\ \A x \in page[t] : x \in page'[t] \/ Safe(x) \/ x \in dropped'
                           /\ saving'[t] # {} => saving[t] # {}
                           /\ MayClose => (page'[t] # {} => warns'[t]),
           \A u \in Uploads :
              \/ up'[u] = up[u]
              \/ up'[u].tab = None \/ up'[u].pc \notin Begun
              \/ UpTrue(u)'
    PROVE  Parts'
<1>1. Grows
  BY DEF Grows
<1>2. \A x \in Xacts : Safe(x) => Safe(x)'
  <2>1. \A x \in In(stored) \cup InMail \cup dropped : Safe(x)'
    BY DEF Safe, Gone, In
  <2> QED  BY <1>1, <2>1, SafeKept
<1>3. entered \subseteq Xacts /\ \A t \in Tabs : page[t] \subseteq Xacts
  BY DEF TypeOK
<1>4. Somewhere'
  <2> SUFFICES ASSUME NEW x \in entered PROVE Safe(x)' \/ \E t \in Tabs : x \in page'[t]
    BY DEF Somewhere
  <2>1. Safe(x) \/ \E t \in Tabs : x \in page[t]
    BY DEF Parts, Somewhere
  <2>2. x \in dropped' => Safe(x)'
    BY DEF Safe, Gone
  <2> QED  BY <1>2, <1>3, <2>1, <2>2
<1>5. SavesSafe'
  BY <1>2, <1>3 DEF Parts, SavesSafe
<1>6. Prompts'
  BY DEF Prompts, MayClose
<1>7. Onward'
  BY <1>1, OnwardSteady DEF Parts
<1> QED  BY <1>4, <1>5, <1>6, <1>7 DEF Parts

\* What a tab has entered and sent is in its queue.
LEMMA PartsInserts ==
    ASSUME TypeOK, Known, Parts, NEW t \in EntryTabs, \A o \in Tabs \ {t} : ~Busy(o),
           up' = up, UNCHANGED <<stored, file, dropped, denied, page, ways>>,
           NEW d \in {0, 1}, NEW rs \in Seq(ReqType), Moved(t, d, rs), d = 1 => mail[t][1].st # "sent",
           \A j \in 1..Len(rs) : rs[j].op = "insert" /\ rs[j].job # "upload" /\ rs[j].st = "sent",
           \A o \in Tabs \ {t} : saving'[o] = saving[o],
           entered' \subseteq entered \cup Those(rs),
           \/ warns' = warns
           \/ ~MayClose,
           \/ saving'[t] = saving[t]
           \/ page[t] \subseteq Those(rs)
    PROVE  Parts'
<1>0. t \in Tabs
  BY DEF Tabs
<1>1. InMail' = InMail \cup Those(rs)
  BY <1>0, MovedInMail
<1>2. Onward'
  BY <1>0, OnwardInserts
<1>3. Grows
  BY DEF Grows
<1>4. \A x \in Xacts : Safe(x) => Safe(x)'
  <2>1. \A x \in In(stored) \cup InMail \cup dropped : Safe(x)'
    BY <1>1 DEF Safe, Gone, In
  <2> QED  BY <1>3, <2>1, SafeKept
<1>5. \A x \in Those(rs) : Safe(x)'
  BY <1>1 DEF Safe
<1>6. entered \subseteq Xacts /\ \A o \in Tabs : page[o] \subseteq Xacts
  BY DEF TypeOK
<1>7. Somewhere'
  BY <1>4, <1>5, <1>6 DEF Parts, Somewhere
<1>8. SavesSafe'
  BY <1>0, <1>4, <1>5, <1>6 DEF Parts, SavesSafe
<1>9. Prompts'
  BY DEF Parts, Prompts, MayClose
<1> QED  BY <1>2, <1>7, <1>8, <1>9 DEF Parts
LEMMA PartsReload ==
    ASSUME TypeOK, Parts, NEW t \in Tabs, Reload(t), UNCHANGED <<stored, file, entered, denied, ways>>,
           dropped \subseteq dropped', \A x \in page[t] : Safe(x) \/ x \in dropped'
    PROVE  Parts'
<1>1. Steady /\ InMail' = InMail
  BY ReloadCalm
<1>2. \A o \in Tabs : /\ page'[o] \subseteq page[o]
                      /\ \A x \in page[o] : x \in page'[o] \/ Safe(x) \/ x \in dropped'
                      /\ saving'[o] # {} => saving[o] # {}
                      /\ MayClose => (page'[o] # {} => warns'[o])
  <2>1. /\ page' = [page EXCEPT ![t] = {}] /\ saving' = [saving EXCEPT ![t] = {}]
        /\ warns' = [warns EXCEPT ![t] = FALSE]
    BY DEF Reload
  <2>2. /\ page'[t] = {} /\ saving'[t] = {}
        /\ \A o \in Tabs \ {t} : page'[o] = page[o] /\ saving'[o] = saving[o] /\ warns'[o] = warns[o]
    BY <2>1 DEF TypeOK
  <2> QED  BY <2>2 DEF Parts, Prompts
<1>3. ASSUME NEW u \in Uploads PROVE up'[u] = up[u] \/ up'[u].tab = None
  <2>1. up'[u] = IF up[u].tab = t THEN [up[u] EXCEPT !.tab = None] ELSE up[u]
    BY DEF Reload
  <2>2. up[u] \in UpType
    BY TypeUps
  <2> QED  BY <2>1, <2>2 DEF UpType
<1> QED  BY <1>1, <1>2, <1>3, PartsSteady

\* What a request does to the store.
LEMMA WorkDoes ==
    ASSUME TypeOK, Known, NEW t \in Tabs, NEW i \in 1..Len(mail[t]), Served(t, i)
    PROVE  /\ i \in DOMAIN mail[t] /\ denied \subseteq denied'
           /\ mail[t][i].op = "insert" =>
                 /\ mail[t][i].x \in Xacts /\ mail[t][i].x \in entered
                 /\ In(stored) \subseteq In(stored') /\ In(stored') \subseteq In(stored) \cup {mail[t][i].x}
                 /\ mail[t][i].x \in In(stored') \cup denied'
           /\ mail[t][i].op = "wipe" => stored' = stored \/ In(stored') = {}
           /\ mail[t][i].op \notin {"insert", "wipe"} => stored' = stored
           /\ denied' # denied => mail[t][i].op = "insert" /\ denied' = denied \cup {mail[t][i].x}
<1>1. /\ i \in DOMAIN mail[t] /\ mail[t][i] \in ReqType
      /\ mail[t][i].op = "insert" => mail[t][i].x \in Xacts /\ mail[t][i].x \in entered
  BY TypeMails, MailType, HeadOf DEF Wellmade
<1>2. CASE UNCHANGED storeVars /\ denied' = IF mail[t][i].op = "insert" THEN denied \cup {mail[t][i].x} ELSE denied
  BY <1>1, <1>2 DEF storeVars
<1>3. CASE Perform(mail[t][i]) /\ denied' = denied
  <2>1. CASE mail[t][i].op = "insert"
    <3>1. PICK x \in Xacts : x = mail[t][i].x
      BY <1>1, <2>1
    <3>2. stored' = [stored EXCEPT ![x] = @ + 1]
      BY <1>3, <2>1, <3>1 DEF Perform
    <3>3. stored'[x] = stored[x] + 1 /\ stored[x] \in Nat /\ \A y \in Xacts : y # x => stored'[y] = stored[y]
      BY <3>2 DEF TypeOK, Rows
    <3>4. /\ In(stored) \subseteq In(stored') /\ In(stored') \subseteq In(stored) \cup {x}
          /\ x \in In(stored')
      BY <3>3 DEF In
    <3> QED  BY <1>1, <1>3, <2>1, <3>1, <3>4
  <2>2. CASE mail[t][i].op = "wipe"
    <3>1. stored' = NoRows
      BY <1>3, <2>2 DEF Perform
    <3> QED  BY <1>1, <1>3, <2>2, <3>1, NoRowsType
  <2>3. CASE mail[t][i].op \notin {"insert", "wipe"}
    <3>1. stored' = stored
      BY <1>3, <2>3 DEF Perform
    <3> QED  BY <1>1, <1>3, <2>3, <3>1
  <2> QED  BY <2>1, <2>2, <2>3
<1> QED  BY <1>2, <1>3 DEF Served

LEMMA PartsWork ==
    ASSUME TypeOK, Known, OneBusy, "tabs" \notin Hurries, Parts, NEW t \in Tabs, Work(t), UNCHANGED ways
    PROVE  Parts'
<1>1. PICK i \in 1..Len(mail[t]) : Served(t, i)
  BY TypeMails, WorkIs
<1>2. /\ page' = page /\ warns' = warns /\ saving' = saving /\ up' = up /\ file' = file
      /\ entered' = entered /\ dropped' = dropped
  BY DEF Work, diskVars, serverVars
<1> DEFINE r == mail[t][i]
<1>3. /\ i \in DOMAIN mail[t] /\ denied \subseteq denied'
      /\ r.op = "insert" =>
            /\ r.x \in Xacts /\ In(stored) \subseteq In(stored') /\ r.x \in In(stored') \cup denied'
      /\ r.op = "wipe" => stored' = stored \/ In(stored') = {}
      /\ r.op \notin {"insert", "wipe"} => stored' = stored
  BY <1>1, WorkDoes
<1>4. /\ InMail' \subseteq InMail
      /\ r.op = "insert" /\ r.x \in Xacts => r.x \in InMail /\ InMail \subseteq InMail' \cup {r.x}
      /\ r.op # "insert" => InMail' = InMail
      /\ (WipeComes' => WipeComes) /\ (r.op = "wipe" => WipeComes)
      /\ InsertsFirst => InsertsFirst'
  BY <1>1, ServedInMail
<1> HIDE DEF r
<1>5. Grows /\ dropped \subseteq dropped'
  BY <1>2 DEF Grows
<1>6. \A x \in Xacts : Gone(x) => Gone(x)'
  BY <1>5, GoneKept
<1>7. \A x \in In(stored) \cup InMail : Safe(x)'
  <2>1. CASE r.op = "insert"
    BY <1>3, <1>4, <2>1 DEF Safe
  <2>2. CASE r.op = "wipe"
    <3>1. InMail = {} /\ \A x \in In(stored) : Gone(x)'
      BY <1>4, <1>6, <2>2 DEF Parts, Onward, WipesTrue, In
    <3> QED  BY <3>1 DEF Safe
  <2>3. CASE r.op \notin {"insert", "wipe"}
    BY <1>3, <1>4, <2>3 DEF Safe
  <2> QED  BY <2>1, <2>2, <2>3
<1>8. \A x \in Xacts : Safe(x) => Safe(x)'
  <2>1. \A x \in dropped : Safe(x)'
    BY <1>2 DEF Safe, Gone
  <2> QED  BY <1>3, <1>5, <1>7, <2>1, SafeKept
<1>9. entered \subseteq Xacts /\ \A o \in Tabs : page[o] \subseteq Xacts
  BY DEF TypeOK
<1>10. Somewhere' /\ SavesSafe' /\ Prompts'
  BY <1>2, <1>8, <1>9 DEF Parts, Somewhere, SavesSafe, Prompts, MayClose
<1>11. InMail = {} => /\ InMail' = {} /\ In(stored') \subseteq In(stored)
  <2>1. InMail = {} => r.op # "insert"
    BY <1>3, <1>4
  <2> QED  BY <1>3, <1>4, <2>1
<1>12. WipesTrue'
  BY <1>4, <1>6, <1>11 DEF Parts, Onward, WipesTrue, In
<1>13. ASSUME NEW u \in Uploads PROVE UpTrue(u)'
  <2>1. UpTrue(u)
    BY DEF Parts, Onward
  <2> QED  BY <1>2, <1>6, <1>11, <2>1 DEF UpTrue, Alive, In
<1>14. ASSUME NEW o \in Tabs, NEW j \in DOMAIN mail'[o], mail'[o][j].job = "upload", mail'[o][j].st = "ok"
       PROVE  In(stored') \subseteq In(mail'[o][j].got) /\ InMail' = {}
  <2>1. /\ j \in DOMAIN mail[o] /\ mail'[o][j].op = mail[o][j].op /\ mail'[o][j].job = mail[o][j].job
        /\ o # t \/ j # i => mail'[o][j] = mail[o][j]
        /\ \A k \in DOMAIN mail[t] : k < i => mail[t][k].st # "sent"
    BY <1>1, TypeMails, ServedFlow
  <2>2. CASE o # t \/ j # i
    <3>1. HasList(o, j) /\ mail'[o][j] = mail[o][j]
      BY <1>14, <2>1, <2>2 DEF HasList
    <3>2. InMail = {} /\ In(stored) \subseteq In(mail[o][j].got)
      BY <2>1, <3>1 DEF Parts, Onward, ListsTrue
    <3> QED  BY <1>11, <3>1, <3>2 DEF In
  <2>3. CASE o = t /\ j = i
    <3>1. r.job = "upload" /\ r.op = "list"
      <4>1. r.job = "upload" /\ Wellmade(t, r) /\ r \in ReqType
        BY <1>3, <1>14, <2>1, <2>3, HeadOf DEF r
      <4> QED  BY <4>1 DEF Wellmade, Entry, ReqType
    <3>2. mail'[o][j].got = stored /\ stored' = stored
      <4>1. mail'[t][i].got = IF r.job \in {"show", "upload"} THEN stored ELSE NoRows
        BY <1>1, <1>14, <2>3 DEF Served, r
      <4> QED  BY <1>3, <2>3, <3>1, <4>1
    <3>3. InMail = {}
      <4> SUFFICES ASSUME NEW x \in InMail PROVE FALSE
        OBVIOUS
      <4>1. PICK q \in Tabs : \E k \in DOMAIN mail[q] : mail[q][k].op = "insert" /\ mail[q][k].st = "sent"
        BY DEF InMail
      <4>2. PICK k \in DOMAIN mail[q] : mail[q][k].op = "insert" /\ mail[q][k].st = "sent"
        BY <4>1
      <4>3. Busy(q) /\ Busy(t)
        BY <1>3, BusyIs
      <4>4. q = t
        BY <4>3 DEF OneBusy
      <4>5. k < i
        BY <1>3, <3>1, <4>2, <4>4 DEF Parts, Onward, InsertsFirst, r
      <4> QED  BY <2>1, <4>2, <4>4, <4>5
    <3> QED  BY <1>4, <3>2, <3>3
  <2> QED  BY <2>2, <2>3
<1>15. ListsTrue'
  BY <1>14 DEF ListsTrue, HasList
<1>16. Onward'
  BY <1>4, <1>12, <1>13, <1>15 DEF Parts, Onward
<1> QED  BY <1>10, <1>16 DEF Parts
\* A step that touches neither the pages nor what the staff enter and give up, and sends
\* neither an insert nor a wipe.
LEMMA PartsCalm ==
    ASSUME TypeOK, Parts, Steady, InMail' = InMail, UNCHANGED <<page, warns, stored, file, staffVars, ways>>,
           \A t \in Tabs : saving'[t] # {} => saving[t] # {},
           \A u \in Uploads :
              \/ up'[u] = up[u]
              \/ up'[u].tab = None \/ up'[u].pc \notin Begun
              \/ UpTrue(u)'
    PROVE  Parts'
BY PartsSteady DEF Parts, Prompts, staffVars

LEMMA PartsStep ==
    ASSUME TypeOK, Known, OneBusy, Careful, Parts, Next
    PROVE  Parts'
<1> USE DEF tabVars, storeVars, diskVars, serverVars, staffVars
<1>0. /\ "tabs" \notin Hurries /\ "add" \notin Hurries /\ ~MayStay /\ ~(MayClose /\ Registers)
      /\ UNCHANGED ways
  BY CarefulStaff DEF Next
<1>0a. Finished.tab = None
  BY UpsAre
<1>1. ASSUME NEW t \in Tabs, Work(t) PROVE Parts'
  BY <1>0, <1>1, PartsWork
<1>2. ASSUME NEW t \in Tabs, Inserted(t) PROVE Parts'
  <2>1. Steady /\ InMail' = InMail
    <3>1. PICK rs \in Seq(ReqType) : /\ Moved(t, 1, rs)
                                     /\ \A i \in 1..Len(rs) : rs[i].op = "date" /\ rs[i].st = "sent"
      BY <1>2, InsertedIs
    <3>2. mail[t][1].st # "sent"
      BY <1>2, AnswerIs DEF Inserted
    <3> QED  BY <3>1, <3>2, MovedCalm
  <2> QED  BY <1>0, <1>2, <2>1, PartsCalm DEF Inserted
<1>3. ASSUME NEW t \in Tabs, Dated(t) PROVE Parts'
  <2>1. PICK rs \in Seq(ReqType) :
              /\ Moved(t, 1, rs)
              /\ \/ /\ mail[t][1].job = "register" /\ StartSave(t, mail[t][1].k, TRUE)
                    /\ InsertsOf(rs, page[t], "save", mail[t][1].k)
                 \/ /\ mail[t][1].job # "register" /\ saving' = saving
                    /\ Len(rs) \in {0, 1} /\ \A i \in 1..Len(rs) : IsShow(rs[i])
    BY <1>3, DatedIs
  <2>2. mail[t][1].st # "sent" /\ mail[t][1].op = "date" /\ 1 \in DOMAIN mail[t] /\ Busy(t)
    BY <1>3, AnswerIs, BusyIs DEF Dated
  <2>3. CASE saving' = saving /\ Len(rs) \in {0, 1} /\ \A i \in 1..Len(rs) : IsShow(rs[i])
    <3>1. \A i \in 1..Len(rs) : rs[i].st = "sent" /\ rs[i].op \notin {"insert", "wipe"}
      BY <2>3 DEF IsShow
    <3>2. Steady /\ InMail' = InMail
      BY <2>1, <2>2, <3>1, MovedCalm
    <3> QED  BY <1>0, <1>3, <2>3, <3>2, PartsCalm DEF Dated
  <2>4. CASE /\ mail[t][1].job = "register" /\ StartSave(t, mail[t][1].k, TRUE)
             /\ InsertsOf(rs, page[t], "save", mail[t][1].k)
    <3>1. t \in EntryTabs /\ page[t] \subseteq Xacts
      BY <2>2, <2>4, HeadOf DEF TypeOK
    <3>2. \A o \in Tabs \ {t} : ~Busy(o)
      BY <1>0, <2>2 DEF OneBusy
    <3>3. page[t] \subseteq Those(rs)
      BY <2>4, <3>1 DEF InsertsOf, Those
    <3>4. \A i \in 1..Len(rs) : rs[i].op = "insert" /\ rs[i].job # "upload" /\ rs[i].st = "sent"
      BY <2>4 DEF InsertsOf
    <3>5. \A o \in Tabs \ {t} : saving'[o] = saving[o]
      BY <2>4 DEF StartSave, TypeOK
    <3>6. UNCHANGED <<up, stored, file, dropped, denied, page, ways, warns, entered>>
      BY <1>0, <1>3 DEF Dated
    <3> QED  BY <2>1, <2>2, <3>1, <3>2, <3>3, <3>4, <3>5, <3>6, PartsInserts
  <2> QED  BY <2>1, <2>3, <2>4
<1>4. ASSUME NEW t \in Tabs, Wiped(t) PROVE Parts'
  <2>1. Steady /\ InMail' = InMail
    <3>1. PICK rs \in Seq(ReqType) : /\ Moved(t, 1, rs)
                                     /\ \A i \in 1..Len(rs) : rs[i].op = "undate" /\ rs[i].st = "sent"
      BY <1>4, WipedIs
    <3>2. mail[t][1].st # "sent"
      BY <1>4, AnswerIs DEF Wiped
    <3> QED  BY <3>1, <3>2, MovedCalm
  <2> QED  BY <1>0, <1>4, <2>1, PartsCalm DEF Wiped
<1>5. ASSUME NEW t \in Tabs, Undated(t) PROVE Parts'
  <2>1. Steady /\ InMail' = InMail
    <3>1. PICK rs \in Seq(ReqType) : Moved(t, 1, rs) /\ \A i \in 1..Len(rs) : IsShow(rs[i])
      BY <1>5, UndatedIs
    <3>2. mail[t][1].st # "sent"
      BY <1>5, AnswerIs DEF Undated
    <3>3. \A i \in 1..Len(rs) : rs[i].st = "sent" /\ rs[i].op \notin {"insert", "wipe"}
      BY <3>1 DEF IsShow
    <3> QED  BY <3>1, <3>2, <3>3, MovedCalm
  <2> QED  BY <1>0, <1>5, <2>1, PartsCalm DEF Undated
<1>6. ASSUME NEW t \in Tabs, Listed(t) PROVE Parts'
  <2> DEFINE r == mail[t][1]
  <2>1. /\ Moved(t, 1, <<>>) /\ 1 \in DOMAIN mail[t] /\ r.st = "ok" /\ Head(mail[t]) = r
    BY <1>6, ListedIs
  <2>2. Steady /\ InMail' = InMail
    BY <2>1, PoppedCalm
  <2>3. r.job = "upload" => /\ r.k \in Uploads /\ r.got \in Rows
                            /\ In(stored) \subseteq In(r.got) /\ InMail = {}
    BY <2>1, HeadOf, SMTT(30) DEF Parts, Onward, ListsTrue, HasList
  <2>4. /\ UNCHANGED <<page, warns, saving, stored, file, staffVars>>
        /\ up' = IF r.job = "upload"
                 THEN [up EXCEPT ![r.k].blob = r.got, ![r.k].pc = "load", ![r.k].to = current[t]]
                 ELSE up
    BY <1>6, <2>1 DEF Listed
  <2> HIDE DEF r
  <2>5. ASSUME NEW u \in Uploads PROVE up'[u] = up[u] \/ UpTrue(u)'
    <3>1. CASE r.job = "upload" /\ u = r.k
      <4> DEFINE a == [up[u] EXCEPT !.blob = r.got, !.pc = "load", !.to = current[t]]
      <4>1. up' = [up EXCEPT ![u] = a]
        BY <2>4, <3>1, TypeUps
      <4>2. up[u] \in UpType
        BY TypeUps
      <4>3. a.blob = r.got /\ a.pc = "load"
        BY <4>2 DEF UpType
      <4> HIDE DEF a
      <4>4. up'[u] = a
        BY <4>1, TypeUps
      <4> QED  BY <2>2, <2>3, <2>4, <3>1, <4>3, <4>4 DEF UpTrue, In
    <3>2. CASE ~(r.job = "upload" /\ u = r.k)
      BY <2>4, <3>2, TypeUps
    <3> QED  BY <3>1, <3>2
  <2> QED  BY <1>0, <2>2, <2>4, <2>5, PartsCalm
<1>7. ASSUME NEW t \in Tabs, Refused(t) PROVE Parts'
  <2> DEFINE r == mail[t][1]
  <2>1. Moved(t, 1, <<>>) /\ Head(mail[t]) = r /\ r.st = "err"
    BY <1>7, RefusedIs
  <2>2. Steady /\ InMail' = InMail
    BY <2>1, PoppedCalm
  <2>3. /\ UNCHANGED <<page, warns, stored, file, staffVars>>
        /\ up' = up
    BY <1>7, <2>1 DEF Refused
  <2> HIDE DEF r
  <2>4. \A u \in Uploads : up'[u] = up[u] \/ up'[u].tab = None
    BY <1>0a, <2>3, TypeUps
  <2>5. \A o \in Tabs : saving'[o] # {} => saving[o] # {}
    BY <1>7 DEF Refused, TypeOK
  <2> QED  BY <1>0, <2>2, <2>3, <2>4, <2>5, PartsCalm
<1>8. ASSUME NEW t \in Tabs, NEW s \in saving[t], SaveSettled(t, s) PROVE Parts'
  <2>1. \A x \in page[t] : Safe(x)
    BY DEF Parts, SavesSafe
  <2>2. UNCHANGED <<stored, file, entered, denied, dropped, ways>>
    BY <1>0, <1>8 DEF SaveSettled
  <2>3. CASE s.reload
    BY <1>8, <2>1, <2>2, <2>3, PartsReload DEF SaveSettled
  <2>4. CASE ~s.reload
    <3>1. PICK rs \in Seq(ReqType) : Moved(t, 0, rs) /\ Len(rs) = 1 /\ IsShow(rs[1])
      BY <1>8, <2>4, ShowPosted DEF SaveSettled
    <3>2. \A i \in 1..Len(rs) : rs[i].st = "sent" /\ rs[i].op \notin {"insert", "wipe"}
      BY <3>1 DEF IsShow
    <3>3. Steady /\ InMail' = InMail
      BY <3>1, <3>2, MovedCalm
    <3>4. /\ page' = [page EXCEPT ![t] = {}] /\ warns' = [warns EXCEPT ![t] = FALSE]
          /\ saving' = [saving EXCEPT ![t] = @ \ {s}] /\ up' = up
      BY <1>8, <2>4 DEF SaveSettled
    <3>5. /\ page'[t] = {} /\ \A o \in Tabs \ {t} : page'[o] = page[o] /\ warns'[o] = warns[o] /\ saving'[o] = saving[o]
      BY <3>4 DEF TypeOK
    <3>6. \A o \in Tabs : /\ page'[o] \subseteq page[o]
                          /\ \A x \in page[o] : x \in page'[o] \/ Safe(x) \/ x \in dropped'
                          /\ saving'[o] # {} => saving[o] # {}
                          /\ MayClose => (page'[o] # {} => warns'[o])
      BY <2>1, <3>5 DEF Parts, Prompts
    <3> QED  BY <2>2, <3>3, <3>4, <3>6, PartsSteady
  <2> QED  BY <2>3, <2>4
<1>9. ASSUME NEW t \in Tabs, NEW x \in Xacts, Add(t, x) PROVE Parts'
  <2>1. /\ page' = [page EXCEPT ![t] = @ \cup {x}] /\ warns' = [warns EXCEPT ![t] = TRUE]
        /\ entered' = entered \cup {x} /\ saving[t] = {}
        /\ UNCHANGED <<saving, up, mail, stored, file, dropped, denied, ways>>
    BY <1>0, <1>9 DEF Add
  <2>2. /\ page'[t] = page[t] \cup {x} /\ warns'[t]
        /\ \A o \in Tabs \ {t} : page'[o] = page[o] /\ warns'[o] = warns[o]
    BY <2>1 DEF TypeOK
  <2>3. Steady /\ InMail' = InMail
    BY <2>1, SteadyStill
  <2>4. Grows
    BY <2>1 DEF Grows
  <2>5. Onward'
    BY <2>1, <2>3, <2>4, OnwardSteady DEF Parts
  <2>6. \A y \in Xacts : Safe(y)' <=> Safe(y)
    BY <2>1, <2>3 DEF Safe, Gone, In
  <2>7. Somewhere'
    BY <2>1, <2>2, <2>6 DEF Parts, Somewhere, TypeOK
  <2>8. SavesSafe'
    BY <2>1, <2>2, <2>6 DEF Parts, SavesSafe, TypeOK
  <2>9. Prompts'
    BY <2>1, <2>2 DEF Parts, Prompts, MayClose
  <2> QED  BY <2>5, <2>7, <2>8, <2>9 DEF Parts
<1>10. ASSUME NEW t \in Tabs, NEW x \in Xacts, Register(t, x) PROVE Parts'
  <2>1. saves[t] + 1 \in Nat /\ Post(t, <<Req("insert", x, "register", saves[t] + 1)>>) /\ t \in EntryTabs
    BY <1>10, OfflineAssumption DEF Register, TypeOK
  <2>2. PICK rs \in Seq(ReqType) : Moved(t, 0, rs) /\ Sole(rs, "insert", x, "register", saves[t] + 1)
    BY <2>1, SolePosted
  <2>3. /\ \A j \in 1..Len(rs) : rs[j].op = "insert" /\ rs[j].job # "upload" /\ rs[j].st = "sent"
        /\ x \in Those(rs)
    BY <2>2 DEF Sole, Those
  <2>4. /\ UNCHANGED <<saving, up, stored, file, dropped, denied, page, ways>> /\ ~MayClose
        /\ entered' = entered \cup {x}
    BY <1>0, <1>10 DEF Register
  <2>5. \A o \in Tabs \ {t} : ~Busy(o)
    BY <1>0, <1>10 DEF Register, MayAct
  <2>6. entered' \subseteq entered \cup Those(rs)
    BY <2>3, <2>4
  <2> QED  BY <2>1, <2>2, <2>3, <2>4, <2>5, <2>6, PartsInserts
<1>11. ASSUME NEW t \in Tabs, Save(t) PROVE Parts'
  <2>1. /\ saves[t] + 1 \in Nat /\ page[t] \in SUBSET Xacts /\ t \in EntryTabs
        /\ Post(t, Inserts(page[t], "save", saves[t] + 1))
    BY <1>11, OfflineAssumption DEF Save, TypeOK
  <2>2. PICK rs \in Seq(ReqType) : Moved(t, 0, rs) /\ InsertsOf(rs, page[t], "save", saves[t] + 1)
    BY <2>1, InsertsPosted
  <2>3. /\ \A j \in 1..Len(rs) : rs[j].op = "insert" /\ rs[j].job # "upload" /\ rs[j].st = "sent"
        /\ page[t] \subseteq Those(rs)
    BY <2>1, <2>2 DEF InsertsOf, Those
  <2>4. UNCHANGED <<up, stored, file, dropped, denied, page, ways, warns, entered>>
    BY <1>0, <1>11 DEF Save
  <2>5. \A o \in Tabs \ {t} : ~Busy(o)
    BY <1>0, <1>11 DEF Save, MayAct
  <2>6. \A o \in Tabs \ {t} : saving'[o] = saving[o]
    BY <1>11 DEF Save, StartSave, TypeOK
  <2> QED  BY <2>1, <2>2, <2>3, <2>4, <2>5, <2>6, PartsInserts
<1>12. ASSUME NEW t \in Tabs, Close(t) PROVE Parts'
  <2>1. /\ Reload(t) /\ UNCHANGED <<stored, file, entered, denied, ways>>
        /\ dropped' = dropped \cup IF warns[t] THEN page[t] ELSE {}
    BY <1>0, <1>12 DEF Close
  <2>2. page[t] # {} => warns[t]
    BY <1>12 DEF Close, Parts, Prompts
  <2> QED  BY <2>1, <2>2, PartsReload
<1>13. ASSUME NEW t \in Tabs, Stay(t) PROVE Parts'
  BY <1>0, <1>13 DEF Stay
<1>14. ASSUME NEW t \in Tabs, Look(t) PROVE Parts'
  <2>1. PICK rs \in Seq(ReqType) : Moved(t, 0, rs) /\ Len(rs) = 1 /\ IsShow(rs[1])
    BY <1>14, ShowPosted DEF Look
  <2>2. \A i \in 1..Len(rs) : rs[i].st = "sent" /\ rs[i].op \notin {"insert", "wipe"}
    BY <2>1 DEF IsShow
  <2>3. Steady /\ InMail' = InMail
    BY <2>1, <2>2, MovedCalm
  <2> QED  BY <1>0, <1>14, <2>3, PartsCalm DEF Look
<1>15. ASSUME NEW t \in Tabs, ClearPending(t) PROVE Parts'
  <2>1. /\ \A o \in Tabs \ {t} : ~Busy(o) /\ ~Busy(t)
        /\ UNCHANGED <<page, warns, saving, up, stored, file, entered, denied, ways>>
        /\ dropped' = dropped \cup In(stored) \cup InMail
        /\ Post(t, <<Req("wipe", None, "clear", None)>>)
    BY <1>0, <1>15 DEF ClearPending, MayAct
  <2>2. PICK rs \in Seq(ReqType) : Moved(t, 0, rs) /\ Sole(rs, "wipe", None, "clear", None)
    BY <2>1, SolePosted
  <2>3. /\ \A u \in Uploads : ~Alive(u)
        /\ \A o \in Tabs : \A i \in DOMAIN mail[o] : FALSE
    <3>1. \A o \in Tabs : ~Busy(o)
      BY <1>15, <2>1 DEF ClearPending
    <3>2. t \in EntryTabs \/ ~Busy(t)
      BY <3>1
    <3> QED  BY <2>1, <3>1, <3>2, BusyIs, NoUploads
  <2>4. InMail = {} /\ Those(rs) = {}
    BY <2>2, <2>3 DEF InMail, Those, Sole
  <2>5. InMail' = {}
    <3>1. \A j \in 1..Len(rs) : rs[j].st = "sent"
      BY <2>2 DEF Sole
    <3> QED  BY <2>2, <2>4, <3>1, MovedInMail
  <2>6. Grows /\ dropped \subseteq dropped'
    BY <2>1 DEF Grows
  <2>7. \A x \in Xacts : Safe(x) => Safe(x)'
    <3>1. \A x \in In(stored) \cup InMail \cup dropped : Safe(x)'
      BY <2>1 DEF Safe, Gone
    <3> QED  BY <2>1, <2>6, <3>1, SafeKept
  <2>8. Somewhere' /\ SavesSafe' /\ Prompts'
    BY <2>1, <2>7 DEF Parts, Somewhere, SavesSafe, Prompts, MayClose, TypeOK
  <2>9. \A o \in Tabs : \A i \in DOMAIN mail'[o] : mail'[o][i].job # "upload"
    <3>1. \A o \in Tabs : \A i \in DOMAIN mail'[o] :
            \/ \E j \in DOMAIN mail[o] : mail'[o][i] = mail[o][j]
            \/ o = t /\ \E j \in 1..Len(rs) : mail'[o][i] = rs[j]
      <4>1. Flows(t, 0, rs)
        BY <2>2, TypeMails, MovedFlow
      <4> QED  BY <4>1 DEF Flows
    <3> QED  BY <2>2, <2>3, <3>1 DEF Sole
  <2>10. WipesTrue'
    BY <2>1, <2>5 DEF WipesTrue, Gone, In
  <2>11. Onward'
    BY <2>1, <2>3, <2>9, <2>10 DEF Onward, InsertsFirst, ListsTrue, HasList, UpTrue, Alive
  <2> QED  BY <2>8, <2>11 DEF Parts
<1>16. ASSUME NEW t \in Tabs, Export(t) PROVE Parts'
  BY <1>0, <1>16, SteadyStill, PartsCalm DEF Export
<1>17. ASSUME NEW t \in Tabs, Import(t) PROVE Parts'
  <2>1. /\ \A o \in Tabs \ {t} : ~Busy(o) /\ ~Busy(t)
        /\ UNCHANGED <<page, warns, saving, up, stored, file, entered, denied, ways>>
        /\ dropped' = dropped \ disk /\ disk \in SUBSET Xacts
        /\ Post(t, Inserts(disk, "import", None))
    BY <1>0, <1>17 DEF Import, MayAct, TypeOK
  <2>2. PICK rs \in Seq(ReqType) : Moved(t, 0, rs) /\ InsertsOf(rs, disk, "import", None)
    BY <2>1, InsertsPosted
  <2>3. /\ \A j \in 1..Len(rs) : rs[j].op = "insert" /\ rs[j].job # "upload" /\ rs[j].st = "sent"
        /\ disk \subseteq Those(rs)
    BY <2>1, <2>2 DEF InsertsOf, Those
  <2>4. InMail' = InMail \cup Those(rs)
    BY <2>2, <2>3, MovedInMail
  <2>5. Grows
    BY <2>1 DEF Grows
  <2>6. \A x \in Xacts : Safe(x) => Safe(x)'
    <3>1. \A x \in In(stored) \cup InMail \cup dropped : Safe(x)'
      BY <2>1, <2>3, <2>4 DEF Safe, Gone, In
    <3> QED  BY <2>1, <2>5, <3>1, SafeKept
  <2>7. Somewhere' /\ SavesSafe' /\ Prompts'
    BY <2>1, <2>6 DEF Parts, Somewhere, SavesSafe, Prompts, MayClose, TypeOK
  <2>8. Onward'
    <3>1. ~Busy(t)
      BY <1>17 DEF Import
    <3> QED  BY <2>1, <2>2, <2>3, <3>1, OnwardInserts
  <2> QED  BY <2>7, <2>8 DEF Parts
<1>18. ASSUME NEW t \in Tabs, NEW s \in Sessions, Select(t, s) PROVE Parts'
  BY <1>0, <1>18, SteadyStill, PartsCalm DEF Select
<1>19. ASSUME NEW t \in Tabs, NEW s \in Sessions, Process(t, s) PROVE Parts'
  BY <1>0, <1>19, SteadyStill, PartsCalm DEF Process
<1>20. ASSUME NEW t \in Tabs, NEW s \in Sessions, NEW u \in Uploads, AskUpload(t, u, s) PROVE Parts'
  <2>1. /\ UNCHANGED <<page, warns, saving, mail, stored, file, staffVars>>
        /\ up' = [up EXCEPT ![u] = [tab |-> t, asked |-> s, pc |-> "asked", blob |-> NoRows, to |-> None]]
    BY <1>20 DEF AskUpload
  <2>2. \A v \in Uploads : up'[v] = up[v] \/ up'[v].pc \notin Begun
    BY <2>1, TypeUps DEF Begun
  <2> QED  BY <1>0, <2>1, <2>2, SteadyStill, PartsCalm
<1>21. ASSUME NEW u \in Uploads, GotExceptions(u) PROVE Parts'
  <2>1. PICK t \in Tabs : t = up[u].tab
    BY <1>21, TypeUps, UpsAre DEF GotExceptions, Alive
  <2>2. /\ UNCHANGED <<page, warns, saving, stored, file, staffVars>>
        /\ Post(t, <<Req("list", None, "upload", u)>>) /\ up' = [up EXCEPT ![u].pc = "blob"]
    BY <1>21, <2>1 DEF GotExceptions
  <2>3. PICK rs \in Seq(ReqType) : Moved(t, 0, rs) /\ Sole(rs, "list", None, "upload", u)
    BY <2>2, SolePosted
  <2>4. \A i \in 1..Len(rs) : rs[i].st = "sent" /\ rs[i].op \notin {"insert", "wipe"}
    BY <2>3 DEF Sole
  <2>5. Steady /\ InMail' = InMail
    BY <2>3, <2>4, MovedCalm
  <2>6. \A v \in Uploads : up'[v] = up[v] \/ up'[v].pc \notin Begun
    BY <2>2, TypeUps DEF Begun, UpType
  <2> QED  BY <1>0, <2>2, <2>5, <2>6, PartsCalm
<1>22. ASSUME NEW u \in Uploads, LoadCheck(u) PROVE Parts'
  <2> DEFINE pc == IF scripts[up[u].to] > 0 \/ ended[up[u].to] THEN "refused" ELSE "append"
  <2>1. /\ UNCHANGED <<page, warns, saving, mail, stored, file, staffVars>>
        /\ up[u].pc = "load" /\ up' = [up EXCEPT ![u].pc = pc]
    BY <1>22 DEF LoadCheck
  <2>2. pc \in {"refused", "append"}
    OBVIOUS
  <2> HIDE DEF pc
  <2>3. /\ up'[u].tab = up[u].tab /\ up'[u].blob = up[u].blob /\ up'[u].pc = pc
        /\ \A v \in Uploads \ {u} : up'[v] = up[v]
    <3>1. up[u] \in UpType
      BY TypeUps
    <3>2. up'[u] = [up[u] EXCEPT !.pc = pc] /\ \A v \in Uploads \ {u} : up'[v] = up[v]
      BY <2>1, TypeUps
    <3> QED  BY <3>1, <3>2 DEF UpType
  <2>4. Steady /\ InMail' = InMail
    BY <2>1, SteadyStill
  <2>5. UpTrue(u)'
    <3>1. UpTrue(u)
      BY DEF Parts, Onward
    <3> QED  BY <2>1, <2>2, <2>3, <2>4, <3>1 DEF UpTrue, Alive, Begun, In
  <2> QED  BY <1>0, <2>1, <2>3, <2>4, <2>5, PartsCalm
<1>23. ASSUME NEW u \in Uploads, LoadAppend(u) PROVE Parts'
  <2> DEFINE s == up[u].to
             b == up[u].blob
  <2>1. /\ UNCHANGED <<page, warns, saving, mail, stored, staffVars>>
        /\ up[u].pc = "append" /\ up' = [up EXCEPT ![u].pc = "loaded"]
        /\ file' = [file EXCEPT ![s] = Sum2(@, b)]
    BY <1>23 DEF LoadAppend
  <2>2. /\ up'[u].tab = up[u].tab /\ up'[u].pc = "loaded"
        /\ \A v \in Uploads \ {u} : up'[v] = up[v]
    <3>1. up[u] \in UpType
      BY TypeUps
    <3>2. up'[u] = [up[u] EXCEPT !.pc = "loaded"] /\ \A v \in Uploads \ {u} : up'[v] = up[v]
      BY <2>1, TypeUps
    <3> QED  BY <3>1, <3>2 DEF UpType
  <2>3. s \in Sessions /\ b \in Rows /\ UpTrue(u)
    BY <2>1, TypeUps, UpsAre DEF Known, WellUp, Begun, Parts, Onward
  <2> HIDE DEF s, b
  <2>4. /\ \A x \in Xacts : file'[s][x] = file[s][x] + b[x] /\ file[s][x] \in Nat /\ b[x] \in Nat
        /\ \A r \in Sessions \ {s} : file'[r] = file[r]
    BY <2>1, <2>3 DEF TypeOK, Rows, Sum2
  <2>5. Grows
    BY <2>4 DEF Grows
  <2>6. \A x \in In(b) : Gone(x)'
    <3> SUFFICES ASSUME NEW x \in In(b) PROVE file'[s][x] > 0
      BY <2>3 DEF Gone
    <3>1. x \in Xacts /\ b[x] > 0
      BY DEF In
    <3> QED  BY <2>4, <3>1
  <2>7. Steady /\ InMail' = InMail
    BY <2>1, SteadyStill
  <2>8. UpTrue(u)'
    BY <2>1, <2>2, <2>3, <2>6, <2>7 DEF UpTrue, Alive, Begun, In, b
  <2>9. \A x \in Xacts : Safe(x) => Safe(x)'
    <3>1. \A x \in In(stored) \cup InMail \cup dropped : Safe(x)'
      BY <2>1, <2>7 DEF Safe, Gone, In
    <3> QED  BY <2>1, <2>5, <3>1, SafeKept
  <2>10. Somewhere' /\ SavesSafe' /\ Prompts'
    BY <1>0, <2>1, <2>9 DEF Parts, Somewhere, SavesSafe, Prompts, MayClose, TypeOK
  <2>11. Onward'
    BY <2>1, <2>2, <2>5, <2>7, <2>8, OnwardSteady DEF Parts
  <2> QED  BY <2>10, <2>11 DEF Parts
<1>24. ASSUME NEW u \in Uploads, Loaded(u) PROVE Parts'
  <2>1. /\ UNCHANGED <<page, warns, saving, stored, file, staffVars>>
        /\ up[u].pc = "loaded" /\ up' = [up EXCEPT ![u] = Finished]
    BY <1>24 DEF Loaded
  <2>2. up'[u].tab = None /\ \A v \in Uploads \ {u} : up'[v] = up[v]
    BY <1>0a, <2>1, TypeUps
  <2>3. CASE ~Alive(u)
    <3>1. mail' = mail
      BY <1>24, <2>3 DEF Loaded
    <3> QED  BY <1>0, <2>1, <2>2, <3>1, SteadyStill, PartsCalm
  <2>4. CASE Alive(u)
    <3>1. PICK t \in Tabs : t = up[u].tab
      BY <2>4, TypeUps, UpsAre DEF Alive
    <3>2. Post(t, <<Req("wipe", None, "clear", None)>>)
      BY <1>24, <2>4, <3>1 DEF Loaded
    <3>3. PICK rs \in Seq(ReqType) : Moved(t, 0, rs) /\ Sole(rs, "wipe", None, "clear", None)
      BY <3>2, SolePosted
    <3>4. InMail = {} /\ \A x \in In(stored) : Gone(x)
      BY <2>1, <2>4 DEF Parts, Onward, UpTrue, Begun
    <3>5. InMail' = InMail
      <4>1. \A j \in 1..Len(rs) : rs[j].st = "sent"
        BY <3>3 DEF Sole
      <4>2. InMail' = InMail \cup Those(rs)
        BY <3>3, <4>1, MovedInMail
      <4>3. Those(rs) = {}
        BY <3>3 DEF Sole, Those
      <4> QED  BY <4>2, <4>3
    <3>6. \A x \in Xacts : (Safe(x)' <=> Safe(x)) /\ (Gone(x)' <=> Gone(x))
      BY <2>1, <3>5 DEF Safe, Gone, In
    <3>7. Somewhere' /\ SavesSafe' /\ Prompts'
      BY <1>0, <2>1, <3>6 DEF Parts, Somewhere, SavesSafe, Prompts, MayClose, TypeOK
    <3>8. WipesTrue'
      BY <2>1, <3>4, <3>5, <3>6 DEF WipesTrue, In
    <3>9. \A v \in Uploads : UpTrue(v)'
      <4>1. \A v \in Uploads : UpTrue(v)
        BY DEF Parts, Onward
      <4> QED  BY <2>1, <2>2, <3>5, <3>6, <4>1 DEF UpTrue, Alive, In
    <3>10. \A o \in Tabs : \A i \in DOMAIN mail'[o] :
             \/ \E j \in DOMAIN mail[o] : mail'[o][i] = mail[o][j] /\ j = i
             \/ mail'[o][i].op = "wipe" /\ mail'[o][i].st = "sent" /\ mail'[o][i].job = "clear"
      <4>1. \A o \in Tabs : \A i \in DOMAIN mail'[o] :
             \/ \E j \in DOMAIN mail[o] : mail'[o][i] = mail[o][j] /\ j = IF o = t THEN i + 0 ELSE i
             \/ o = t /\ \E j \in 1..Len(rs) : mail'[o][i] = rs[j] /\ i = Len(mail[t]) - 0 + j
        <5>1. Flows(t, 0, rs)
          BY <3>3, TypeMails, MovedFlow
        <5> QED  BY <5>1 DEF Flows
      <4>2. \A o \in Tabs : \A i \in DOMAIN mail'[o] : i \in Nat
        BY <3>3, LenProperties DEF Moved, Mails
      <4> QED  BY <3>3, <4>1, <4>2 DEF Sole
    <3>11. InsertsFirst' /\ ListsTrue'
      BY <2>1, <3>5, <3>10 DEF Parts, Onward, InsertsFirst, ListsTrue, HasList, In
    <3> QED  BY <3>7, <3>8, <3>9, <3>11 DEF Parts, Onward
  <2> QED  BY <2>3, <2>4
<1>25. ASSUME NEW u \in Uploads, NotLoaded(u) PROVE Parts'
  <2>1. /\ UNCHANGED <<page, warns, saving, mail, stored, file, staffVars>>
        /\ up' = [up EXCEPT ![u] = Finished]
    BY <1>25 DEF NotLoaded
  <2>2. up'[u].tab = None /\ \A v \in Uploads \ {u} : up'[v] = up[v]
    BY <1>0a, <2>1, TypeUps
  <2> QED  BY <1>0, <2>1, <2>2, SteadyStill, PartsCalm
<1>26. ASSUME NEW s \in Sessions, ChildRuns(s) PROVE Parts'
  BY <1>0, <1>26, SteadyStill, PartsCalm DEF ChildRuns
<1> QED
  BY <1>1, <1>2, <1>3, <1>4, <1>5, <1>6, <1>7, <1>8, <1>9, <1>10, <1>11, <1>12, <1>13, <1>14,
     <1>15, <1>16, <1>17, <1>18, <1>19, <1>20, <1>21, <1>22, <1>23, <1>24, <1>25, <1>26
     DEF Next, Machine, Network, Staff

LEMMA CarefulStep ==
    ASSUME TypeOK, Known, OneBusy, CarefulTrue, Next
    PROVE  CarefulTrue'
<1>1. Careful' <=> Careful
  BY DEF Next, Careful, Hurries, MayStay, MayClose, Registers
<1> QED  BY <1>1, CarefulIs, PartsStep
-----------------------------------------------------------------------------
(* What is on a page and was not sent is nowhere else.                     *)

Gots == {x \in Xacts : \E t \in Tabs : \E i \in DOMAIN mail[t] : x \in In(mail[t][i].got)}
Lists == {x \in Xacts : \E t \in Tabs : x \in In(shown[t])}

\* Wherever a transaction may be, but for pages and uploads.
Held == In(stored) \cup InMail \cup disk \cup Lists \cup Gots

LEMMA HeldIs ==
    /\ \A x \in Xacts : Fresh(x) <=> x \notin Held
    /\ \A x \in Xacts : Fresh(x)' <=> x \notin Held'
BY DEF Fresh, Held, Lists, Gots

LEMMA PagesIs ==
    ASSUME TypeOK, TypeOK'
    PROVE  /\ PagesFresh <=> (Careful => \A t \in Tabs : \A x \in page[t] :
                  (saving[t] = {} => x \notin Held) /\ \A u \in Uploads : x \notin In(up[u].blob))
           /\ PagesFresh' <=> (Careful' => \A t \in Tabs : \A x \in page'[t] :
                  (saving'[t] = {} => x \notin Held') /\ \A u \in Uploads : x \notin In(up'[u].blob))
<1>1. \A t \in Tabs : page[t] \subseteq Xacts /\ page'[t] \subseteq Xacts
  BY DEF TypeOK
<1>2. PagesFresh <=> (Careful => \A t \in Tabs : \A x \in page[t] :
          (saving[t] = {} => x \notin Held) /\ \A u \in Uploads : x \notin In(up[u].blob))
  BY <1>1, HeldIs DEF PagesFresh
<1>3. PagesFresh' <=> (Careful' => \A t \in Tabs : \A x \in page'[t] :
          (saving'[t] = {} => x \notin Held') /\ \A u \in Uploads : x \notin In(up'[u].blob))
  BY <1>1, HeldIs DEF PagesFresh, In
<1> QED  BY <1>2, <1>3

\* The set N of transactions comes to be somewhere else.
LEMMA PagesOn ==
    ASSUME TypeOK, TypeOK', PagesFresh, Careful, UNCHANGED ways, NEW N, Held' \subseteq Held \cup N,
           \A t \in Tabs :
              /\ \A x \in page'[t] : x \in page[t] \/ (x \notin Held' /\ \A u \in Uploads : x \notin In(up[u].blob))
              /\ saving'[t] = {} => saving[t] = {} \/ page'[t] = {}
              /\ saving'[t] = {} => \A x \in page'[t] : x \notin N,
           \A u \in Uploads : \A x \in In(up'[u].blob) : x \in In(up[u].blob) \/ \A t \in Tabs : x \notin page'[t]
    PROVE  PagesFresh'
<1>1. \A t \in Tabs : \A x \in page[t] :
          (saving[t] = {} => x \notin Held) /\ \A u \in Uploads : x \notin In(up[u].blob)
  BY PagesIs
<1>2. ASSUME NEW t \in Tabs, NEW x \in page'[t], saving'[t] = {} PROVE x \notin Held'
  BY <1>1, <1>2
<1>3. ASSUME NEW t \in Tabs, NEW x \in page'[t], NEW u \in Uploads PROVE x \notin In(up'[u].blob)
  BY <1>1
<1> QED  BY <1>2, <1>3, PagesIs

LEMMA PagesCalm ==
    ASSUME TypeOK, TypeOK', PagesFresh, Careful, UNCHANGED ways, Held' \subseteq Held,
           \A t \in Tabs : page'[t] \subseteq page[t] /\ (saving'[t] = {} => saving[t] = {} \/ page'[t] = {}),
           \A u \in Uploads : In(up'[u].blob) \subseteq In(up[u].blob)
    PROVE  PagesFresh'
<1>1. PICK N : N = {}
  OBVIOUS
<1>2. Held' \subseteq Held \cup N
  BY <1>1
<1> QED  BY <1>1, <1>2, PagesOn

LEMMA MovedHeld ==
    ASSUME TypeOK, NEW t \in Tabs, NEW d \in {0, 1}, NEW rs \in Seq(ReqType), Moved(t, d, rs),
           d = 1 => mail[t][1].st # "sent", \A j \in 1..Len(rs) : rs[j].st = "sent" /\ rs[j].got = NoRows,
           UNCHANGED <<stored, disk, shown>>
    PROVE  Held' \subseteq Held \cup Those(rs)
<1>1. InMail' = InMail \cup Those(rs)
  BY MovedInMail
<1>2. \A o \in Tabs : \A i \in DOMAIN mail'[o] :
         \/ \E j \in DOMAIN mail[o] : mail'[o][i] = mail[o][j]
         \/ o = t /\ \E j \in 1..Len(rs) : mail'[o][i] = rs[j]
  <2>1. Flows(t, d, rs)
    BY TypeMails, MovedFlow
  <2> QED  BY <2>1 DEF Flows
<1>3. ASSUME NEW x \in Gots' PROVE x \in Gots
  <2>1. PICK o \in Tabs : \E i \in DOMAIN mail'[o] : mail'[o][i].got[x] > 0
    BY <1>3 DEF Gots, In
  <2>2. PICK i \in DOMAIN mail'[o] : mail'[o][i].got[x] > 0
    BY <2>1
  <2>3. x \in Xacts
    BY <1>3 DEF Gots
  <2>4. ~(NoRows[x] > 0)
    BY <2>3 DEF NoRows
  <2>5. PICK j \in DOMAIN mail[o] : mail'[o][i] = mail[o][j]
    BY <1>2, <2>2, <2>4
  <2> QED  BY <2>2, <2>3, <2>5 DEF Gots, In
<1>4. In(stored') = In(stored) /\ Lists' = Lists
  BY DEF Lists, In
<1> QED  BY <1>1, <1>3, <1>4 DEF Held

\* Requests that are no inserts.
LEMMA CalmHeld ==
    ASSUME TypeOK, NEW t \in Tabs, NEW d \in {0, 1}, NEW rs \in Seq(ReqType), Moved(t, d, rs),
           d = 1 => mail[t][1].st # "sent",
           \A j \in 1..Len(rs) : rs[j].st = "sent" /\ rs[j].got = NoRows /\ rs[j].op # "insert",
           UNCHANGED <<stored, disk, shown>>
    PROVE  Held' \subseteq Held
<1>1. Those(rs) = {}
  BY DEF Those
<1> QED  BY <1>1, MovedHeld

LEMMA ShowHeld ==
    ASSUME TypeOK, NEW t \in Tabs, NEW d \in {0, 1}, NEW rs \in Seq(ReqType), Moved(t, d, rs),
           d = 1 => mail[t][1].st # "sent", \A j \in 1..Len(rs) : IsShow(rs[j]),
           UNCHANGED <<stored, disk, shown>>
    PROVE  Held' \subseteq Held
<1>1. \A j \in 1..Len(rs) : rs[j].st = "sent" /\ rs[j].got = NoRows /\ rs[j].op # "insert"
  BY DEF IsShow
<1> QED  BY <1>1, CalmHeld

LEMMA PoppedHeld ==
    ASSUME TypeOK, NEW t \in Tabs, Moved(t, 1, <<>>), mail[t][1].st # "sent"
    PROVE  InMail' = InMail /\ Gots' \subseteq Gots
<1>1. PICK rs \in Seq(ReqType) : rs = <<>> /\ Len(rs) = 0
  BY NoRequest
<1>2. Moved(t, 1, rs) /\ 1 \in Nat
  BY <1>1
<1>3. \A o \in Tabs : \A i \in DOMAIN mail'[o] : \E j \in DOMAIN mail[o] : mail'[o][i] = mail[o][j]
  <2>1. \A o \in Tabs : \A i \in DOMAIN mail'[o] :
           \/ \E j \in DOMAIN mail[o] : mail'[o][i] = mail[o][j]
           \/ o = t /\ \E j \in 1..Len(rs) : mail'[o][i] = rs[j]
    <3>1. Flows(t, 1, rs)
      BY <1>2, TypeMails, MovedFlow
    <3> QED  BY <3>1 DEF Flows
  <2> QED  BY <1>1, <2>1
<1>4. Gots' \subseteq Gots
  BY <1>3 DEF Gots, In
<1> QED  BY <1>4, PoppedCalm

LEMMA ReloadHeld ==
    ASSUME TypeOK, NEW t \in Tabs, Reload(t), UNCHANGED <<stored, disk>>
    PROVE  Held' \subseteq Held
<1>1. PICK d \in 0..Len(mail[t]) : Renewed(t, d)
  BY TypeMails, ReloadIs
<1>2. /\ \A o \in Tabs : o # t => mail'[o] = mail[o]
      /\ \A i \in DOMAIN mail'[t] :
            \/ mail'[t][i].got = NoRows
            \/ \E j \in DOMAIN mail[t] : mail'[t][i].got = mail[t][j].got
  BY <1>1, TypeMails, RenewedFlow
<1>3. ASSUME NEW x \in Gots' PROVE x \in Gots
  <2>1. PICK o \in Tabs : \E i \in DOMAIN mail'[o] : mail'[o][i].got[x] > 0
    BY <1>3 DEF Gots, In
  <2>2. PICK i \in DOMAIN mail'[o] : mail'[o][i].got[x] > 0
    BY <2>1
  <2>3. x \in Xacts /\ ~(NoRows[x] > 0)
    BY <1>3 DEF Gots, NoRows
  <2>4. PICK j \in DOMAIN mail[o] : mail'[o][i].got = mail[o][j].got
    BY <1>2, <2>2, <2>3
  <2> QED  BY <2>2, <2>3, <2>4 DEF Gots, In
<1>4. Lists' \subseteq Lists
  <2>1. shown' = [shown EXCEPT ![t] = NoRows]
    BY DEF Reload
  <2>2. \A o \in Tabs : shown'[o] = shown[o] \/ shown'[o] = NoRows
    BY <2>1 DEF TypeOK
  <2> QED  BY <2>2, NoRowsType DEF Lists, In
<1>5. InMail' = InMail /\ In(stored') = In(stored)
  BY ReloadCalm DEF In
<1> QED  BY <1>3, <1>4, <1>5 DEF Held

LEMMA WorkHeld ==
    ASSUME TypeOK, Known, NEW t \in Tabs, Work(t)
    PROVE  Held' \subseteq Held
<1>1. PICK i \in 1..Len(mail[t]) : Served(t, i)
  BY TypeMails, WorkIs
<1>2. In(stored') \subseteq In(stored) \cup InMail
  BY <1>1, WorkDoes, ServedInMail
<1>3. InMail' \subseteq InMail
  BY <1>1, ServedInMail
<1>4. disk' = disk /\ shown' = shown
  BY DEF Work, diskVars
<1>5. /\ \A o \in Tabs : DOMAIN mail'[o] = DOMAIN mail[o]
      /\ \A o \in Tabs : \A j \in DOMAIN mail[o] : o # t \/ j # i => mail'[o][j] = mail[o][j]
      /\ mail'[t][i].got \in {stored, NoRows, mail[t][i].got}
  BY <1>1, TypeMails, ServedFlow DEF Served
<1>6. ASSUME NEW x \in Gots' PROVE x \in Gots \cup In(stored)
  <2>1. PICK o \in Tabs : \E j \in DOMAIN mail'[o] : mail'[o][j].got[x] > 0
    BY <1>6 DEF Gots, In
  <2>2. PICK j \in DOMAIN mail'[o] : mail'[o][j].got[x] > 0
    BY <2>1
  <2>3. x \in Xacts /\ ~(NoRows[x] > 0) /\ j \in DOMAIN mail[o]
    BY <1>5, <1>6 DEF Gots, NoRows
  <2>4. mail'[o][j].got = mail[o][j].got \/ mail'[o][j].got \in {stored, NoRows}
    BY <1>5, <2>3
  <2> QED  BY <2>2, <2>3, <2>4 DEF Gots, In
<1>7. Lists' = Lists
  BY <1>4 DEF Lists, In
<1> QED  BY <1>2, <1>3, <1>4, <1>6, <1>7 DEF Held

\* What the staff have not entered is nowhere.
LEMMA NewIsFresh ==
    ASSUME TypeOK, Known, NEW x \in Xacts, x \notin entered
    PROVE  /\ x \notin Held /\ \A u \in Uploads : x \notin In(up[u].blob)
           /\ \A t \in Tabs : x \notin page[t]
           /\ \A s \in Sessions : ~(file[s][x] > 0)
<1>1. \A t \in Tabs : \A i \in DOMAIN mail[t] :
         /\ x \notin In(mail[t][i].got)
         /\ mail[t][i].op = "insert" => mail[t][i].x # x
  BY DEF Known, Wellmade
<1>2. x \notin InMail /\ x \notin Gots
  BY <1>1 DEF InMail, Gots
<1>3. x \notin In(stored) /\ x \notin disk /\ x \notin Lists /\ \A t \in Tabs : x \notin page[t]
  BY DEF Known, Lists
<1>4. \A u \in Uploads : x \notin In(up[u].blob)
  BY DEF Known, WellUp
<1>5. \A s \in Sessions : ~(file[s][x] > 0)
  BY DEF Known, In
<1> QED  BY <1>2, <1>3, <1>4, <1>5 DEF Held
\* A tab that is the only busy one sends inserts for what is on its page.
LEMMA PagesSaved ==
    ASSUME TypeOK, TypeOK', Known, PagesFresh, Careful, UNCHANGED <<ways, stored, disk, shown, page, up>>,
           NEW t \in Tabs, NEW d \in {0, 1}, NEW rs \in Seq(ReqType), Moved(t, d, rs),
           d = 1 => mail[t][1].st # "sent", \A j \in 1..Len(rs) : rs[j].st = "sent" /\ rs[j].got = NoRows,
           Those(rs) \subseteq page[t], saving'[t] # {},
           \A o \in Tabs \ {t} : saving'[o] = saving[o]
    PROVE  PagesFresh'
<1>1. Held' \subseteq Held \cup Those(rs)
  BY MovedHeld
<1>2. \A o \in Tabs : \A x \in page[o] : x \in Those(rs) => o = t
  BY DEF Known
<1>3. \A o \in Tabs :
         /\ \A x \in page'[o] : x \in page[o] \/ (x \notin Held' /\ \A u \in Uploads : x \notin In(up[u].blob))
         /\ saving'[o] = {} => saving[o] = {} \/ page'[o] = {}
         /\ saving'[o] = {} => \A x \in page'[o] : x \notin Those(rs)
  BY <1>2
<1>4. \A u \in Uploads : \A x \in In(up'[u].blob) : x \in In(up[u].blob) \/ \A o \in Tabs : x \notin page'[o]
  BY DEF In
<1> QED  BY <1>1, <1>3, <1>4, PagesOn

LEMMA PagesStep ==
    ASSUME TypeOK, TypeOK', Known, OneBusy, Careful, PagesFresh, Next
    PROVE  PagesFresh'
<1> USE DEF tabVars, storeVars, diskVars, serverVars, staffVars
<1>0. UNCHANGED ways /\ "tabs" \notin Hurries /\ "add" \notin Hurries
  BY CarefulStaff DEF Next
<1>0a. In(Finished.blob) = {}
  BY UpsAre, NoRowsType
<1>0b. \A t \in Tabs : \A x \in page[t] :
          (saving[t] = {} => x \notin Held) /\ \A u \in Uploads : x \notin In(up[u].blob)
  BY PagesIs
<1>a. ASSUME Held' \subseteq Held, UNCHANGED <<page, saving, up>> PROVE PagesFresh'
  BY <1>0, <1>a, PagesCalm DEF In
<1>b. ASSUME UNCHANGED <<mail, stored, disk, shown>> PROVE Held' \subseteq Held
  BY <1>b DEF Held, InMail, Gots, Lists, In
<1>1. ASSUME NEW t \in Tabs, Work(t) PROVE PagesFresh'
  BY <1>1, <1>a, WorkHeld DEF Work
<1>2. ASSUME NEW t \in Tabs, Inserted(t) PROVE PagesFresh'
  <2>1. PICK rs \in Seq(ReqType) :
           Moved(t, 1, rs) /\ \A i \in 1..Len(rs) : rs[i].op = "date" /\ rs[i].st = "sent" /\ rs[i].got = NoRows
    BY <1>2, InsertedIs
  <2>2. mail[t][1].st # "sent"
    BY <1>2, AnswerIs DEF Inserted
  <2>3. UNCHANGED <<stored, disk, shown, page, saving, up>>
    BY <1>2 DEF Inserted
  <2>4. Held' \subseteq Held
    BY <2>1, <2>2, <2>3, CalmHeld
  <2> QED  BY <1>a, <2>3, <2>4
<1>3. ASSUME NEW t \in Tabs, Dated(t) PROVE PagesFresh'
  <2>1. PICK rs \in Seq(ReqType) :
              /\ Moved(t, 1, rs)
              /\ \/ /\ mail[t][1].job = "register" /\ StartSave(t, mail[t][1].k, TRUE)
                    /\ InsertsOf(rs, page[t], "save", mail[t][1].k)
                 \/ /\ mail[t][1].job # "register" /\ saving' = saving
                    /\ Len(rs) \in {0, 1} /\ \A i \in 1..Len(rs) : IsShow(rs[i])
    BY <1>3, DatedIs
  <2>2. mail[t][1].st # "sent"
    BY <1>3, AnswerIs DEF Dated
  <2>3. UNCHANGED <<stored, disk, shown, page, up>>
    BY <1>3 DEF Dated
  <2>4. CASE saving' = saving /\ Len(rs) \in {0, 1} /\ \A i \in 1..Len(rs) : IsShow(rs[i])
    <3>1. Held' \subseteq Held
      BY <2>1, <2>2, <2>3, <2>4, ShowHeld
    <3> QED  BY <1>a, <2>3, <2>4, <3>1
  <2>5. CASE StartSave(t, mail[t][1].k, TRUE) /\ InsertsOf(rs, page[t], "save", mail[t][1].k)
    <3>1. saving'[t] # {} /\ \A o \in Tabs \ {t} : saving'[o] = saving[o]
      BY <2>5 DEF StartSave, TypeOK
    <3>2. Those(rs) \subseteq page[t] /\ \A j \in 1..Len(rs) : rs[j].st = "sent" /\ rs[j].got = NoRows
      BY <2>5 DEF InsertsOf, Those
    <3> QED  BY <1>0, <2>1, <2>2, <2>3, <3>1, <3>2, PagesSaved
  <2> QED  BY <2>1, <2>4, <2>5
<1>4. ASSUME NEW t \in Tabs, Wiped(t) PROVE PagesFresh'
  <2>1. PICK rs \in Seq(ReqType) :
           Moved(t, 1, rs) /\ \A i \in 1..Len(rs) : rs[i].op = "undate" /\ rs[i].st = "sent" /\ rs[i].got = NoRows
    BY <1>4, WipedIs
  <2>2. mail[t][1].st # "sent"
    BY <1>4, AnswerIs DEF Wiped
  <2>3. UNCHANGED <<stored, disk, shown, page, saving, up>>
    BY <1>4 DEF Wiped
  <2>4. Held' \subseteq Held
    BY <2>1, <2>2, <2>3, CalmHeld
  <2> QED  BY <1>a, <2>3, <2>4
<1>5. ASSUME NEW t \in Tabs, Undated(t) PROVE PagesFresh'
  <2>1. PICK rs \in Seq(ReqType) : Moved(t, 1, rs) /\ \A i \in 1..Len(rs) : IsShow(rs[i])
    BY <1>5, UndatedIs
  <2>2. mail[t][1].st # "sent"
    BY <1>5, AnswerIs DEF Undated
  <2>3. UNCHANGED <<stored, disk, shown, page, saving, up>>
    BY <1>5 DEF Undated
  <2>4. Held' \subseteq Held
    BY <2>1, <2>2, <2>3, ShowHeld
  <2> QED  BY <1>a, <2>3, <2>4
<1>6. ASSUME NEW t \in Tabs, Listed(t) PROVE PagesFresh'
  <2> DEFINE r == mail[t][1]
  <2>1. /\ Moved(t, 1, <<>>) /\ 1 \in DOMAIN mail[t] /\ r.st = "ok" /\ Head(mail[t]) = r
    BY <1>6, ListedIs
  <2>2. InMail' = InMail /\ Gots' \subseteq Gots
    BY <2>1, PoppedHeld
  <2>3. r.got \in Rows /\ In(r.got) \subseteq Gots /\ (r.job = "upload" => r.k \in Uploads /\ t \in SessionTabs)
    <3>1. r.got \in Rows /\ (r.job = "upload" => r.k \in Uploads /\ up[r.k].tab = t)
      BY <2>1, HeadOf
    <3>2. \A u \in Uploads : up[u].tab = t => t \in SessionTabs
      BY OfflineAssumption DEF Known, WellUp
    <3>3. In(r.got) \subseteq Gots
      BY <2>1, SMTT(30) DEF Gots, In
    <3> QED  BY <3>1, <3>2, <3>3
  <2>4. /\ UNCHANGED <<page, saving, stored, disk>>
        /\ shown' = IF r.job = "show" THEN [shown EXCEPT ![t] = r.got] ELSE shown
        /\ up' = IF r.job = "upload"
                 THEN [up EXCEPT ![r.k].blob = r.got, ![r.k].pc = "load", ![r.k].to = current[t]]
                 ELSE up
    BY <1>6, <2>1 DEF Listed
  <2>5. Busy(t)
    BY <2>1, BusyIs
  <2> HIDE DEF r
  <2>6. Held' \subseteq Held
    <3>1. \A o \in Tabs : shown'[o] = shown[o] \/ shown'[o] = r.got
      BY <2>4 DEF TypeOK
    <3>2. Lists' \subseteq Lists \cup Gots
      BY <2>3, <3>1 DEF Lists, In
    <3>3. In(stored') = In(stored)
      BY <2>4 DEF In
    <3> QED  BY <2>2, <2>4, <3>2, <3>3 DEF Held
  <2>7. \A u \in Uploads : up'[u] = up[u] \/ (up'[u].blob = r.got /\ t \in SessionTabs)
    <3>1. CASE r.job = "upload"
      <4> DEFINE a == [up[r.k] EXCEPT !.blob = r.got, !.pc = "load", !.to = current[t]]
      <4>1. up' = [up EXCEPT ![r.k] = a]
        BY <2>3, <2>4, <3>1, TypeUps
      <4>2. up[r.k] \in UpType
        BY <2>3, <3>1, TypeUps
      <4>3. a.blob = r.got
        BY <4>2 DEF UpType
      <4> HIDE DEF a
      <4> QED  BY <2>3, <3>1, <4>1, <4>3, TypeUps
    <3>2. CASE r.job # "upload"
      BY <2>4, <3>2
    <3> QED  BY <3>1, <3>2
  <2>8. t \in SessionTabs => \A o \in Tabs : \A x \in page[o] : x \notin In(r.got)
    <3> SUFFICES ASSUME t \in SessionTabs, NEW o \in Tabs, NEW x \in page[o] PROVE x \notin In(r.got)
      OBVIOUS
    <3>1. o # t
      BY DEF Known
    <3>2. saving[o] = {}
      BY <1>0, <2>5, <3>1, BusyIs DEF OneBusy
    <3>3. x \notin Gots
      BY <1>0b, <3>2 DEF Held
    <3> QED  BY <2>3, <3>3
  <2>9. \A u \in Uploads : \A x \in In(up'[u].blob) : x \in In(up[u].blob) \/ \A o \in Tabs : x \notin page'[o]
    <3> SUFFICES ASSUME NEW u \in Uploads, NEW x \in In(up'[u].blob), x \notin In(up[u].blob), NEW o \in Tabs
                 PROVE  x \notin page'[o]
      OBVIOUS
    <3>1. t \in SessionTabs /\ x \in In(r.got)
      BY <2>7 DEF In
    <3> QED  BY <2>4, <2>8, <3>1
  <2>10. PICK N : N = {}
    OBVIOUS
  <2>11. Held' \subseteq Held \cup N
    BY <2>6
  <2> QED  BY <1>0, <2>4, <2>9, <2>10, <2>11, PagesOn
<1>7. ASSUME NEW t \in Tabs, Refused(t) PROVE PagesFresh'
  <2> DEFINE r == mail[t][1]
  <2>1. Moved(t, 1, <<>>) /\ Head(mail[t]) = r /\ r.st = "err"
    BY <1>7, RefusedIs
  <2>2. InMail' = InMail /\ Gots' \subseteq Gots
    BY <2>1, PoppedHeld
  <2>3. /\ UNCHANGED <<page, stored, disk, shown>>
        /\ up' = up
    BY <1>7, <2>1 DEF Refused
  <2>3a. \A o \in Tabs : saving'[o] = {} => saving[o] = {}
    <3> DEFINE f(s) == IF r.job = "save" /\ s.k = r.k THEN [s EXCEPT !.spoiled = TRUE] ELSE s
    <3>1. saving' = [saving EXCEPT ![t] = {f(s) : s \in saving[t]}]
      BY <1>7, <2>1 DEF Refused
    <3> HIDE DEF f
    <3>2. saving'[t] = {f(s) : s \in saving[t]} /\ \A o \in Tabs \ {t} : saving'[o] = saving[o]
      BY <3>1 DEF TypeOK
    <3>3. \A s \in saving[t] : f(s) \in saving'[t]
      BY <3>2
    <3> QED  BY <3>2, <3>3
  <2> HIDE DEF r
  <2>4. \A u \in Uploads : In(up'[u].blob) \subseteq In(up[u].blob)
    BY <2>3
  <2>5. Held' \subseteq Held
    BY <2>2, <2>3 DEF Held, Lists, In
  <2> QED  BY <1>0, <2>3, <2>3a, <2>4, <2>5, PagesCalm
<1>c. ASSUME NEW t \in Tabs, Reload(t), UNCHANGED <<stored, disk>> PROVE PagesFresh'
  <2>1. page' = [page EXCEPT ![t] = {}] /\ saving' = [saving EXCEPT ![t] = {}]
    BY <1>c DEF Reload
  <2>2. \A o \in Tabs : page'[o] \subseteq page[o] /\ (saving'[o] = {} => saving[o] = {} \/ page'[o] = {})
    BY <2>1 DEF TypeOK
  <2>3. \A u \in Uploads : In(up'[u].blob) \subseteq In(up[u].blob)
    <3>1. \A u \in Uploads : up'[u] = IF up[u].tab = t THEN [up[u] EXCEPT !.tab = None] ELSE up[u]
      BY <1>c DEF Reload
    <3>2. \A u \in Uploads : up'[u].blob = up[u].blob
      BY <3>1, TypeUps DEF UpType
    <3> QED  BY <3>2 DEF In
  <2> QED  BY <1>0, <1>c, <2>2, <2>3, ReloadHeld, PagesCalm
<1>8. ASSUME NEW t \in Tabs, NEW s \in saving[t], SaveSettled(t, s) PROVE PagesFresh'
  <2>1. CASE s.reload
    BY <1>8, <1>c, <2>1 DEF SaveSettled
  <2>2. CASE ~s.reload
    <3>1. PICK rs \in Seq(ReqType) : Moved(t, 0, rs) /\ Len(rs) = 1 /\ IsShow(rs[1])
      BY <1>8, <2>2, ShowPosted DEF SaveSettled
    <3>2. /\ UNCHANGED <<stored, disk, shown, up>>
          /\ page' = [page EXCEPT ![t] = {}] /\ saving' = [saving EXCEPT ![t] = @ \ {s}]
      BY <1>8, <2>2 DEF SaveSettled
    <3>3. Held' \subseteq Held
      <4>1. \A j \in 1..Len(rs) : IsShow(rs[j])
        BY <3>1
      <4> QED  BY <3>1, <3>2, <4>1, ShowHeld
    <3>4. \A o \in Tabs : page'[o] \subseteq page[o] /\ (saving'[o] = {} => saving[o] = {} \/ page'[o] = {})
      BY <3>2 DEF TypeOK
    <3> QED  BY <1>0, <3>2, <3>3, <3>4, PagesCalm DEF In
  <2> QED  BY <2>1, <2>2
<1>9. ASSUME NEW t \in Tabs, NEW x \in Xacts, Add(t, x) PROVE PagesFresh'
  <2>1. UNCHANGED <<mail, stored, disk, shown, saving, up>> /\ x \notin entered /\ page' = [page EXCEPT ![t] = @ \cup {x}]
    BY <1>9 DEF Add
  <2>2. x \notin Held /\ \A u \in Uploads : x \notin In(up[u].blob)
    BY <2>1, NewIsFresh
  <2>3. Held' \subseteq Held
    BY <1>b, <2>1
  <2>4. \A o \in Tabs : \A y \in page'[o] : y \in page[o] \/ y = x
    BY <2>1 DEF TypeOK
  <2>5. \A u \in Uploads : In(up'[u].blob) = In(up[u].blob)
    BY <2>1 DEF In
  <2>6. PICK N : N = {}
    OBVIOUS
  <2>7. Held' \subseteq Held \cup N
    BY <2>3
  <2>8. \A o \in Tabs :
           /\ \A y \in page'[o] : y \in page[o] \/ (y \notin Held' /\ \A u \in Uploads : y \notin In(up[u].blob))
           /\ saving'[o] = {} => saving[o] = {} \/ page'[o] = {}
           /\ saving'[o] = {} => \A y \in page'[o] : y \notin N
    BY <2>1, <2>2, <2>3, <2>4, <2>6
  <2> QED  BY <1>0, <2>5, <2>7, <2>8, PagesOn
<1>10. ASSUME NEW t \in Tabs, NEW x \in Xacts, Register(t, x) PROVE PagesFresh'
  <2>1. saves[t] + 1 \in Nat /\ Post(t, <<Req("insert", x, "register", saves[t] + 1)>>)
    BY <1>10, OfflineAssumption DEF Register, TypeOK
  <2>2. PICK rs \in Seq(ReqType) : Moved(t, 0, rs) /\ Sole(rs, "insert", x, "register", saves[t] + 1)
    BY <2>1, SolePosted
  <2>3. UNCHANGED <<stored, disk, shown, page, saving, up>> /\ x \notin entered
    BY <1>10 DEF Register
  <2>4. Held' \subseteq Held \cup Those(rs)
    <3>1. \A j \in 1..Len(rs) : rs[j].st = "sent" /\ rs[j].got = NoRows
      BY <2>2 DEF Sole
    <3> QED  BY <2>2, <2>3, <3>1, MovedHeld
  <2>5. \A o \in Tabs : \A y \in page[o] : y \notin Those(rs)
    <3>1. Those(rs) \subseteq {x}
      BY <2>2 DEF Sole, Those
    <3> QED  BY <2>3, <3>1, NewIsFresh
  <2>6. \A u \in Uploads : In(up'[u].blob) = In(up[u].blob)
    BY <2>3 DEF In
  <2> QED  BY <1>0, <2>3, <2>4, <2>5, <2>6, PagesOn
<1>11. ASSUME NEW t \in Tabs, Save(t) PROVE PagesFresh'
  <2>1. /\ saves[t] + 1 \in Nat /\ page[t] \in SUBSET Xacts
        /\ Post(t, Inserts(page[t], "save", saves[t] + 1))
    BY <1>11, OfflineAssumption DEF Save, TypeOK
  <2>2. PICK rs \in Seq(ReqType) : Moved(t, 0, rs) /\ InsertsOf(rs, page[t], "save", saves[t] + 1)
    BY <2>1, InsertsPosted
  <2>3. Those(rs) \subseteq page[t] /\ \A j \in 1..Len(rs) : rs[j].st = "sent" /\ rs[j].got = NoRows
    BY <2>2 DEF InsertsOf, Those
  <2>4. saving'[t] # {} /\ \A o \in Tabs \ {t} : saving'[o] = saving[o]
    BY <1>11 DEF Save, StartSave, TypeOK
  <2>5. UNCHANGED <<stored, disk, shown, page, up>>
    BY <1>11 DEF Save
  <2> QED  BY <1>0, <2>2, <2>3, <2>4, <2>5, PagesSaved
<1>12. ASSUME NEW t \in Tabs, Close(t) PROVE PagesFresh'
  BY <1>12, <1>c DEF Close
<1>13. ASSUME NEW t \in Tabs, Stay(t) PROVE PagesFresh'
  BY <1>13, <1>a, <1>b DEF Stay
<1>14. ASSUME NEW t \in Tabs, Look(t) PROVE PagesFresh'
  <2>1. PICK rs \in Seq(ReqType) : Moved(t, 0, rs) /\ Len(rs) = 1 /\ IsShow(rs[1])
    BY <1>14, ShowPosted DEF Look
  <2>2. UNCHANGED <<stored, disk, shown, page, saving, up>>
    BY <1>14 DEF Look
  <2>3. Held' \subseteq Held
    <3>1. \A j \in 1..Len(rs) : IsShow(rs[j])
      BY <2>1
    <3> QED  BY <2>1, <2>2, <3>1, ShowHeld
  <2> QED  BY <1>a, <2>2, <2>3
<1>15. ASSUME NEW t \in Tabs, ClearPending(t) PROVE PagesFresh'
  <2>1. PICK rs \in Seq(ReqType) : Moved(t, 0, rs) /\ Sole(rs, "wipe", None, "clear", None)
    BY <1>15, SolePosted DEF ClearPending
  <2>2. UNCHANGED <<stored, disk, shown, page, saving, up>>
    BY <1>15 DEF ClearPending
  <2>3. Held' \subseteq Held
    <3>1. \A j \in 1..Len(rs) : rs[j].st = "sent" /\ rs[j].got = NoRows /\ rs[j].op # "insert"
      BY <2>1 DEF Sole
    <3> QED  BY <2>1, <2>2, <3>1, CalmHeld
  <2> QED  BY <1>a, <2>2, <2>3
<1>16. ASSUME NEW t \in Tabs, Export(t) PROVE PagesFresh'
  <2>1. UNCHANGED <<mail, stored, shown, page, saving, up>> /\ disk' = In(shown[t])
    BY <1>16 DEF Export
  <2>2. Held' \subseteq Held
    BY <2>1 DEF Held, InMail, Gots, Lists, In
  <2> QED  BY <1>a, <2>1, <2>2
<1>17. ASSUME NEW t \in Tabs, Import(t) PROVE PagesFresh'
  <2>1. Post(t, Inserts(disk, "import", None)) /\ disk \in SUBSET Xacts
    BY <1>17 DEF Import, TypeOK
  <2>2. PICK rs \in Seq(ReqType) : Moved(t, 0, rs) /\ InsertsOf(rs, disk, "import", None)
    BY <2>1, InsertsPosted
  <2>3. UNCHANGED <<stored, disk, shown, page, saving, up>>
    BY <1>17 DEF Import
  <2>4. Held' \subseteq Held
    <3>1. Those(rs) \subseteq disk /\ \A j \in 1..Len(rs) : rs[j].st = "sent" /\ rs[j].got = NoRows
      BY <2>2 DEF InsertsOf, Those
    <3>2. Held' \subseteq Held \cup Those(rs)
      BY <2>2, <2>3, <3>1, MovedHeld
    <3>3. disk \subseteq Held
      BY DEF Held
    <3> QED  BY <3>1, <3>2, <3>3
  <2> QED  BY <1>a, <2>3, <2>4
<1>18. ASSUME NEW t \in Tabs, NEW s \in Sessions, Select(t, s) PROVE PagesFresh'
  BY <1>18, <1>a, <1>b DEF Select
<1>19. ASSUME NEW t \in Tabs, NEW s \in Sessions, Process(t, s) PROVE PagesFresh'
  BY <1>19, <1>a, <1>b DEF Process
<1>20. ASSUME NEW t \in Tabs, NEW s \in Sessions, NEW u \in Uploads, AskUpload(t, u, s) PROVE PagesFresh'
  <2>1. /\ UNCHANGED <<page, saving, mail, stored, disk, shown>>
        /\ up' = [up EXCEPT ![u] = [tab |-> t, asked |-> s, pc |-> "asked", blob |-> NoRows, to |-> None]]
    BY <1>20 DEF AskUpload
  <2>2. \A v \in Uploads : up'[v] = up[v] \/ up'[v].blob = NoRows
    BY <2>1, TypeUps
  <2>3. \A v \in Uploads : In(up'[v].blob) \subseteq In(up[v].blob)
    BY <2>2, NoRowsType DEF In
  <2> QED  BY <1>0, <1>b, <2>1, <2>3, PagesCalm
<1>d. ASSUME NEW u \in Uploads, NEW pc \in UploadPc, up' = [up EXCEPT ![u].pc = pc], Held' \subseteq Held,
             UNCHANGED <<page, saving>>
      PROVE  PagesFresh'
  <2>1. up[u] \in UpType /\ up'[u] = [up[u] EXCEPT !.pc = pc] /\ \A v \in Uploads \ {u} : up'[v] = up[v]
    BY <1>d, TypeUps
  <2>2. up'[u].blob = up[u].blob
    BY <2>1 DEF UpType
  <2>3. \A v \in Uploads : In(up'[v].blob) \subseteq In(up[v].blob)
    BY <2>1, <2>2 DEF In
  <2> QED  BY <1>0, <1>d, <2>3, PagesCalm
<1>e. ASSUME NEW u \in Uploads, up' = [up EXCEPT ![u] = Finished], Held' \subseteq Held, UNCHANGED <<page, saving>>
      PROVE  PagesFresh'
  <2>1. \A v \in Uploads : up'[v] = up[v] \/ up'[v].blob = NoRows
    BY <1>e, TypeUps, UpsAre
  <2>2. \A v \in Uploads : In(up'[v].blob) \subseteq In(up[v].blob)
    BY <2>1, NoRowsType DEF In
  <2> QED  BY <1>0, <1>e, <2>2, PagesCalm
<1>21. ASSUME NEW u \in Uploads, GotExceptions(u) PROVE PagesFresh'
  <2>1. PICK t \in Tabs : t = up[u].tab
    BY <1>21, TypeUps, UpsAre DEF GotExceptions, Alive
  <2>2. /\ UNCHANGED <<page, saving, stored, disk, shown>>
        /\ Post(t, <<Req("list", None, "upload", u)>>) /\ up' = [up EXCEPT ![u].pc = "blob"]
    BY <1>21, <2>1 DEF GotExceptions
  <2>3. PICK rs \in Seq(ReqType) : Moved(t, 0, rs) /\ Sole(rs, "list", None, "upload", u)
    BY <2>2, SolePosted
  <2>4. Held' \subseteq Held
    <3>1. \A j \in 1..Len(rs) : rs[j].st = "sent" /\ rs[j].got = NoRows /\ rs[j].op # "insert"
      BY <2>3 DEF Sole
    <3> QED  BY <2>2, <2>3, <3>1, CalmHeld
  <2> QED  BY <1>d, <2>2, <2>4 DEF UploadPc
<1>22. ASSUME NEW u \in Uploads, LoadCheck(u) PROVE PagesFresh'
  <2> DEFINE pc == IF scripts[up[u].to] > 0 \/ ended[up[u].to] THEN "refused" ELSE "append"
  <2>1. UNCHANGED <<page, saving, mail, stored, disk, shown>> /\ up' = [up EXCEPT ![u].pc = pc]
    BY <1>22 DEF LoadCheck
  <2>2. pc \in UploadPc
    BY DEF UploadPc
  <2> HIDE DEF pc
  <2> QED  BY <1>b, <1>d, <2>1, <2>2
<1>23. ASSUME NEW u \in Uploads, LoadAppend(u) PROVE PagesFresh'
  <2>1. UNCHANGED <<page, saving, mail, stored, disk, shown>> /\ up' = [up EXCEPT ![u].pc = "loaded"]
    BY <1>23 DEF LoadAppend
  <2> QED  BY <1>b, <1>d, <2>1 DEF UploadPc
<1>24. ASSUME NEW u \in Uploads, Loaded(u) PROVE PagesFresh'
  <2>1. UNCHANGED <<page, saving, stored, disk, shown>> /\ up' = [up EXCEPT ![u] = Finished]
    BY <1>24 DEF Loaded
  <2>2. CASE ~Alive(u)
    BY <1>24, <1>b, <1>e, <2>1, <2>2 DEF Loaded
  <2>3. CASE Alive(u)
    <3>1. PICK t \in Tabs : t = up[u].tab
      BY <2>3, TypeUps, UpsAre DEF Alive
    <3>2. Post(t, <<Req("wipe", None, "clear", None)>>)
      BY <1>24, <2>3, <3>1 DEF Loaded
    <3>3. PICK rs \in Seq(ReqType) : Moved(t, 0, rs) /\ Sole(rs, "wipe", None, "clear", None)
      BY <3>2, SolePosted
    <3>4. \A j \in 1..Len(rs) : rs[j].st = "sent" /\ rs[j].got = NoRows /\ rs[j].op # "insert"
      BY <3>3 DEF Sole
    <3>5. Held' \subseteq Held
      BY <2>1, <3>3, <3>4, CalmHeld
    <3> QED  BY <1>e, <2>1, <3>5
  <2> QED  BY <2>2, <2>3
<1>25. ASSUME NEW u \in Uploads, NotLoaded(u) PROVE PagesFresh'
  BY <1>25, <1>b, <1>e DEF NotLoaded
<1>26. ASSUME NEW s \in Sessions, ChildRuns(s) PROVE PagesFresh'
  BY <1>26, <1>a, <1>b DEF ChildRuns
<1> QED
  BY <1>1, <1>2, <1>3, <1>4, <1>5, <1>6, <1>7, <1>8, <1>9, <1>10, <1>11, <1>12, <1>13, <1>14,
     <1>15, <1>16, <1>17, <1>18, <1>19, <1>20, <1>21, <1>22, <1>23, <1>24, <1>25, <1>26
     DEF Next, Machine, Network, Staff

LEMMA FreshStep ==
    ASSUME TypeOK, TypeOK', Known, OneBusy, PagesFresh, Next
    PROVE  PagesFresh'
<1>1. Careful' <=> Careful
  BY DEF Next, Careful, Hurries, MayStay, MayClose, Registers
<1>2. ~Careful' => PagesFresh'
  BY DEF PagesFresh
<1> QED  BY <1>1, <1>2, PagesStep
-----------------------------------------------------------------------------
(* The ledger.                                                             *)

OnServer(x) == \E s \in Sessions : file[s][x] > 0
OnPage(x) == \E t \in Tabs : x \in page[t]

\* What the workers' answers, and what the staff, leave as it is.
LEMMA MachineKeeps ==
    ASSUME NEW t \in Tabs, Machine(t)
    PROVE  /\ file' = file /\ dropped' = dropped /\ entered' = entered
           /\ page' = page \/ page' = [page EXCEPT ![t] = {}]
<1> USE DEF serverVars, staffVars
<1> DEFINE Kept == /\ file' = file /\ dropped' = dropped /\ entered' = entered
                   /\ page' = page \/ page' = [page EXCEPT ![t] = {}]
<1>1. CASE Work(t) \/ Inserted(t)
  BY <1>1, Zenon DEF Work, Inserted
<1>2. CASE Dated(t) \/ Wiped(t)
  BY <1>2, Zenon DEF Dated, Wiped
<1>3. CASE Undated(t) \/ Listed(t)
  BY <1>3, Zenon DEF Undated, Listed
<1>4. CASE Refused(t)
  BY <1>4, Zenon DEF Refused
<1>5. ASSUME NEW s \in saving[t], SaveSettled(t, s) PROVE Kept
  BY <1>5, Zenon DEF SaveSettled, Reload
<1> HIDE DEF Kept
<1> QED  BY <1>1, <1>2, <1>3, <1>4, <1>5, Zenon DEF Machine, Kept

LEMMA StaffKeeps ==
    ASSUME NEW t \in Tabs, Staff(t)
    PROVE  /\ file' = file /\ denied' = denied
           /\ dropped' = dropped \/ Close(t) \/ ClearPending(t) \/ Import(t)
           /\ (page' = page /\ entered' = entered) \/ Close(t) \/ \E y \in Xacts : Add(t, y) \/ Register(t, y)
<1> USE DEF serverVars, staffVars, tabVars
<1> DEFINE Kept == /\ file' = file /\ denied' = denied
                   /\ dropped' = dropped \/ Close(t) \/ ClearPending(t) \/ Import(t)
                   /\ \/ page' = page /\ entered' = entered
                      \/ Close(t) \/ \E y \in Xacts : Add(t, y) \/ Register(t, y)
<1> SUFFICES Kept
  OBVIOUS
<1>1. ASSUME NEW y \in Xacts, Add(t, y) \/ Register(t, y) PROVE Kept
  <2>1. file' = file /\ denied' = denied /\ dropped' = dropped
    BY <1>1, Zenon DEF Add, Register
  <2> QED  BY <1>1, <2>1, Zenon
<1>2. CASE Save(t) \/ Stay(t) \/ Look(t)
  BY <1>2, Zenon DEF Save, Stay, Look
<1>3. CASE Close(t)
  <2>1. file' = file /\ denied' = denied
    BY <1>3, Zenon DEF Close
  <2> QED  BY <1>3, <2>1, Zenon
<1>4. CASE ClearPending(t) \/ Import(t)
  <2>1. file' = file /\ denied' = denied /\ page' = page /\ entered' = entered
    BY <1>4, Zenon DEF ClearPending, Import
  <2> QED  BY <1>4, <2>1, Zenon
<1>5. CASE Export(t)
  BY <1>5, Zenon DEF Export
<1>6. ASSUME NEW s \in Sessions, Select(t, s) \/ Process(t, s) PROVE Kept
  BY <1>6, Zenon DEF Select, Process
<1>7. ASSUME NEW s \in Sessions, NEW u \in Uploads, AskUpload(t, u, s) PROVE Kept
  BY <1>7, Zenon DEF AskUpload
<1> HIDE DEF Kept
<1> QED  BY <1>1, <1>2, <1>3, <1>4, <1>5, <1>6, <1>7, Zenon DEF Staff

\* A transaction gets to the server from what an upload has, and stays there.
LEMMA ServerPath ==
    ASSUME TypeOK, Known, Next, NEW x \in Xacts
    PROVE  /\ OnServer(x) => OnServer(x)'
           /\ OnServer(x)' => OnServer(x) \/ \E u \in Uploads : x \in In(up[u].blob)
<1>1. CASE file' = file
  BY <1>1 DEF OnServer
<1>2. ASSUME NEW u \in Uploads, LoadAppend(u)
      PROVE  /\ OnServer(x) => OnServer(x)'
             /\ OnServer(x)' => OnServer(x) \/ x \in In(up[u].blob)
  <2> DEFINE s == up[u].to
             b == up[u].blob
  <2>1. s \in Sessions /\ b \in Rows /\ file' = [file EXCEPT ![s] = Sum2(@, b)]
    BY <1>2, TypeUps, UpsAre DEF LoadAppend, Known, WellUp, Begun
  <2> HIDE DEF s, b
  <2>2. /\ file'[s][x] = file[s][x] + b[x] /\ file[s][x] \in Nat /\ b[x] \in Nat
        /\ \A r \in Sessions \ {s} : file'[r] = file[r]
    BY <2>1 DEF TypeOK, Rows, Sum2
  <2>3. \A r \in Sessions : file[r][x] > 0 => file'[r][x] > 0
    BY <2>2
  <2>4. \A r \in Sessions : file'[r][x] > 0 => file[r][x] > 0 \/ b[x] > 0
    BY <2>2
  <2> QED  BY <2>3, <2>4 DEF OnServer, In, b
<1>3. file' = file \/ \E u \in Uploads : LoadAppend(u)
  <2> USE DEF serverVars
  <2>1. \A t \in Tabs : Machine(t) \/ Staff(t) => file' = file
    BY MachineKeeps, StaffKeeps
  <2>2. \A u \in Uploads : Network(u) => file' = file \/ LoadAppend(u)
    BY Zenon DEF Network, GotExceptions, LoadCheck, Loaded, NotLoaded
  <2>3. \A s \in Sessions : ChildRuns(s) => file' = file
    BY DEF ChildRuns
  <2> QED  BY <2>1, <2>2, <2>3, Zenon DEF Next
<1> QED  BY <1>1, <1>2, <1>3

\* The staff give up what is on a page or in the store, and take it back by importing it.
LEMMA DroppedPath ==
    ASSUME TypeOK, Known, Next, NEW x \in Xacts
    PROVE  /\ x \in dropped /\ x \notin dropped' => x \in InMail'
           /\ x \in dropped' /\ x \notin dropped => x \in In(stored) \cup InMail \/ OnPage(x)
<1>1. CASE dropped' = dropped
  BY <1>1
<1>2. ASSUME NEW t \in Tabs, Close(t) PROVE dropped \subseteq dropped' /\ dropped' \subseteq dropped \cup page[t]
  BY <1>2 DEF Close
<1>3. ASSUME NEW t \in Tabs, ClearPending(t)
      PROVE  dropped \subseteq dropped' /\ dropped' \subseteq dropped \cup In(stored) \cup InMail
  BY <1>3 DEF ClearPending
<1>4. ASSUME NEW t \in Tabs, Import(t) PROVE dropped' = dropped \ disk /\ disk \subseteq InMail'
  <2>1. dropped' = dropped \ disk /\ Post(t, Inserts(disk, "import", None)) /\ disk \in SUBSET Xacts
    BY <1>4 DEF Import, TypeOK
  <2>2. PICK rs \in Seq(ReqType) : Moved(t, 0, rs) /\ InsertsOf(rs, disk, "import", None)
    BY <2>1, InsertsPosted
  <2>3. disk \subseteq Those(rs) /\ \A j \in 1..Len(rs) : rs[j].st = "sent"
    BY <2>1, <2>2 DEF InsertsOf, Those
  <2>4. InMail' = InMail \cup Those(rs)
    BY <2>2, <2>3, MovedInMail
  <2> QED  BY <2>1, <2>3, <2>4
<1>5. \/ dropped' = dropped
      \/ \E t \in Tabs : Close(t) \/ ClearPending(t) \/ Import(t)
  <2> USE DEF staffVars
  <2>1. \A t \in Tabs : Machine(t) => dropped' = dropped
    BY MachineKeeps
  <2>2. \A t \in Tabs : Staff(t) => dropped' = dropped \/ Close(t) \/ ClearPending(t) \/ Import(t)
    BY StaffKeeps
  <2>3. \A u \in Uploads : Network(u) => dropped' = dropped
    BY Zenon DEF Network, GotExceptions, LoadCheck, LoadAppend, Loaded, NotLoaded
  <2>4. \A s \in Sessions : ChildRuns(s) => dropped' = dropped
    BY DEF ChildRuns
  <2> QED  BY <2>1, <2>2, <2>3, <2>4 DEF Next
<1> QED  BY <1>1, <1>2, <1>3, <1>4, <1>5 DEF OnPage

\* What is entered comes to no page, and stays entered.
LEMMA PagePath ==
    ASSUME TypeOK, Known, Next, NEW x \in entered
    PROVE  x \in entered' /\ (OnPage(x)' => OnPage(x))
<1>1. CASE page' = page /\ entered \subseteq entered'
  BY <1>1 DEF OnPage
<1>2. ASSUME NEW t \in Tabs, page' = [page EXCEPT ![t] = {}], entered' = entered
      PROVE  x \in entered' /\ (OnPage(x)' => OnPage(x))
  <2>1. \A o \in Tabs : page'[o] \subseteq page[o]
    BY <1>2 DEF TypeOK
  <2> QED  BY <1>2, <2>1 DEF OnPage
<1>3. ASSUME NEW t \in Tabs, NEW y \in Xacts, Add(t, y)
      PROVE  x \in entered' /\ (OnPage(x)' => OnPage(x))
  <2>1. /\ page' = [page EXCEPT ![t] = @ \cup {y}] /\ entered' = entered \cup {y} /\ y # x
    BY <1>3 DEF Add
  <2>2. \A o \in Tabs : page'[o] \subseteq page[o] \cup {y}
    BY <2>1 DEF TypeOK
  <2> QED  BY <2>1, <2>2 DEF OnPage
<1>4. \/ page' = page /\ entered \subseteq entered'
      \/ \E t \in Tabs : page' = [page EXCEPT ![t] = {}] /\ entered' = entered
      \/ \E t \in Tabs, y \in Xacts : Add(t, y)
  <2> USE DEF staffVars
  <2>1. \A t \in Tabs : Machine(t) => \/ page' = page /\ entered' = entered
                                      \/ page' = [page EXCEPT ![t] = {}] /\ entered' = entered
    BY MachineKeeps
  <2>2. \A t \in Tabs : Staff(t) => \/ page' = page /\ entered \subseteq entered'
                                    \/ page' = [page EXCEPT ![t] = {}] /\ entered' = entered
                                    \/ \E y \in Xacts : Add(t, y)
    <3>1. \A t \in Tabs : Close(t) => page' = [page EXCEPT ![t] = {}] /\ entered' = entered
      BY DEF Close, Reload
    <3>2. \A t \in Tabs : \A y \in Xacts : Register(t, y) => page' = page /\ entered \subseteq entered'
      BY DEF Register
    <3> QED  BY <3>1, <3>2, StaffKeeps
  <2>3. \A u \in Uploads : Network(u) => page' = page /\ entered' = entered
    BY DEF Network, GotExceptions, LoadCheck, LoadAppend, Loaded, NotLoaded
  <2>4. \A s \in Sessions : ChildRuns(s) => page' = page /\ entered' = entered
    BY DEF ChildRuns, tabVars
  <2> QED  BY <2>1, <2>2, <2>3, <2>4 DEF Next
<1> QED  BY <1>1, <1>2, <1>3, <1>4

\* The store refuses nothing that is entered in the same step.
LEMMA DeniedPath ==
    ASSUME Next
    PROVE  denied' = denied \/ entered' = entered
<1> USE DEF staffVars
<1>1. \A t \in Tabs : Machine(t) => entered' = entered
  BY MachineKeeps
<1>2. \A t \in Tabs : Staff(t) => denied' = denied
  BY StaffKeeps
<1>3. \A u \in Uploads : Network(u) => entered' = entered
  BY Zenon DEF Network, GotExceptions, LoadCheck, LoadAppend, Loaded, NotLoaded
<1>4. \A s \in Sessions : ChildRuns(s) => entered' = entered
  BY DEF ChildRuns
<1> QED  BY <1>1, <1>2, <1>3, <1>4 DEF Next

LEMMA InStoreKnown ==
    ASSUME TypeOK, Known
    PROVE  InMail \subseteq entered
<1>1. \A t \in Tabs : \A i \in DOMAIN mail[t] : mail[t][i].op = "insert" => mail[t][i].x \in entered
  BY DEF Known, Wellmade
<1> QED  BY <1>1 DEF InMail

LEMMA FateIs ==
    ASSUME NEW x
    PROVE  /\ Fate(x) = IF x \notin entered THEN "unborn" ELSE IF OnServer(x) THEN "server"
                        ELSE IF x \in In(stored) \cup InMail THEN "store" ELSE IF x \in dropped THEN "dropped"
                        ELSE IF OnPage(x) THEN "page" ELSE IF x \in denied THEN "refused" ELSE "lost"
           /\ Fate(x)' = IF x \notin entered' THEN "unborn" ELSE IF OnServer(x)' THEN "server"
                         ELSE IF x \in (In(stored) \cup InMail)' THEN "store" ELSE IF x \in dropped' THEN "dropped"
                         ELSE IF OnPage(x)' THEN "page" ELSE IF x \in denied' THEN "refused" ELSE "lost"
BY DEF Fate, OnServer, OnPage

\* What is entered is on its way.
Traced(x) == OnServer(x) \/ x \in In(stored) \cup InMail \/ x \in dropped \/ OnPage(x) \/ x \in denied

LEMMA TracedIs ==
    /\ Careful /\ CarefulTrue => \A x \in entered : Traced(x)
    /\ Careful' /\ CarefulTrue' => \A x \in entered' : Traced(x)'
BY CarefulIs DEF Parts, Somewhere, Safe, Gone, Traced, OnServer, OnPage

LEMMA FateStep ==
    ASSUME TypeOK, TypeOK', Known, Known', OneBusy, Careful, CarefulTrue, CarefulTrue', PagesFresh, Next,
           NEW x \in Xacts
    PROVE  \/ Fate(x)' = Fate(x)
           \/ <<Fate(x), Fate(x)'>> \in Ledger!Moves
<1> DEFINE st == x \in In(stored) \cup InMail
           sp == x \in (In(stored) \cup InMail)'
<1>1. /\ OnServer(x) => OnServer(x)'
      /\ OnServer(x)' => OnServer(x) \/ (x \in entered /\ ~OnPage(x))
  <2>1. ASSUME NEW u \in Uploads, x \in In(up[u].blob) PROVE x \in entered /\ ~OnPage(x)
    <3>1. x \in entered
      BY <2>1 DEF Known, WellUp
    <3>2. ~OnPage(x)
      BY <2>1 DEF PagesFresh, OnPage
    <3> QED  BY <3>1, <3>2
  <2> QED  BY <2>1, ServerPath
<1>2. /\ x \in dropped /\ x \notin dropped' => sp
      /\ x \in dropped' /\ x \notin dropped => st \/ OnPage(x)
  BY DroppedPath
<1>3. x \in entered => x \in entered' /\ (OnPage(x)' => OnPage(x))
  BY PagePath
<1>4. /\ OnServer(x) => x \in entered
      /\ OnPage(x) => x \in entered
      /\ st => x \in entered
      /\ x \in dropped => x \in entered
      /\ x \in denied => x \in entered
  BY InStoreKnown DEF Known, OnServer, OnPage, In, TypeOK
<1>5. x \in denied' => x \in denied \/ x \in entered
  BY DeniedPath DEF TypeOK
<1>6. x \in entered => OnServer(x) \/ st \/ x \in dropped \/ OnPage(x) \/ x \in denied
  BY TracedIs DEF Traced
<1>7. x \in entered' => OnServer(x)' \/ sp \/ x \in dropped' \/ OnPage(x)' \/ x \in denied'
  <2>1. Careful'
    BY DEF Next, Careful, Hurries, MayStay, MayClose, Registers
  <2>2. \A y \in entered' : Traced(y)'
    BY <2>1, TracedIs
  <2> QED  BY <2>2 DEF Traced
<1> HIDE DEF st, sp
<1>8. /\ Fate(x) = IF x \notin entered THEN "unborn" ELSE IF OnServer(x) THEN "server"
                   ELSE IF st THEN "store" ELSE IF x \in dropped THEN "dropped"
                   ELSE IF OnPage(x) THEN "page" ELSE IF x \in denied THEN "refused" ELSE "lost"
      /\ Fate(x)' = IF x \notin entered' THEN "unborn" ELSE IF OnServer(x)' THEN "server"
                    ELSE IF sp THEN "store" ELSE IF x \in dropped' THEN "dropped"
                    ELSE IF OnPage(x)' THEN "page" ELSE IF x \in denied' THEN "refused" ELSE "lost"
  BY FateIs DEF st, sp
<1>9. CASE x \notin entered
  BY <1>1, <1>2, <1>4, <1>5, <1>7, <1>8, <1>9 DEF Ledger!Moves
<1>10. CASE x \in entered /\ OnServer(x)
  BY <1>1, <1>3, <1>8, <1>10
<1>11. CASE x \in entered /\ ~OnServer(x) /\ st
  BY <1>3, <1>7, <1>8, <1>11 DEF Ledger!Moves
<1>12. CASE x \in entered /\ ~OnServer(x) /\ ~st /\ x \in dropped
  BY <1>2, <1>3, <1>7, <1>8, <1>12 DEF Ledger!Moves
<1>13. CASE x \in entered /\ ~OnServer(x) /\ ~st /\ x \notin dropped /\ OnPage(x)
  BY <1>1, <1>3, <1>7, <1>8, <1>13 DEF Ledger!Moves
<1>14. CASE x \in entered /\ ~OnServer(x) /\ ~st /\ x \notin dropped /\ ~OnPage(x)
  BY <1>2, <1>3, <1>6, <1>7, <1>8, <1>14 DEF Ledger!Moves
<1> QED  BY <1>9, <1>10, <1>11, <1>12, <1>13, <1>14
-----------------------------------------------------------------------------
(* The ledger.                                                             *)

KeptIInv ==
    /\ TypeOK /\ Known /\ OneBusy /\ StaysCurrent /\ SentWhereAsked
    /\ CarefulTrue /\ PagesFresh

LEMMA KeptInit == Init => KeptIInv
<1> SUFFICES ASSUME Init PROVE KeptIInv
  OBVIOUS
<1>0. /\ NoRows \in Rows /\ In(NoRows) = {} /\ <<>> \in Seq(ReqType) /\ <<>> \in Seq(Rows)
      /\ 0 \in 0..MaxSaves /\ 0 \in 0..MaxImports
      /\ NoUpload \in UpType
      /\ NoUpload.tab = None /\ NoUpload.asked = None /\ NoUpload.pc = "none"
      /\ NoUpload.blob = NoRows /\ NoUpload.to = None
  BY OfflineAssumption, NoRowsType, NoRequest, EmptySeq DEF NoUpload, UploadPc, UpType
<1>1. TypeOK
  <2>1. /\ page \in [Tabs -> SUBSET Xacts] /\ warns \in [Tabs -> BOOLEAN]
        /\ saves \in [Tabs -> 0..MaxSaves] /\ mail \in [Tabs -> Seq(ReqType)]
        /\ shown \in [Tabs -> Rows] /\ current \in [Tabs -> Sessions \cup {None}]
        /\ stored \in Rows /\ date \in BOOLEAN /\ disk \subseteq Xacts /\ imports \in 0..MaxImports
    BY <1>0 DEF Init
  <2>2. saving \in [Tabs -> SUBSET [k : 1..MaxSaves, reload : BOOLEAN, spoiled : BOOLEAN]]
    BY DEF Init
  <2>3. up \in [Uploads -> UpType]
    BY <1>0 DEF Init
  <2>4. /\ file \in [Sessions -> Rows] /\ scripts \in [Sessions -> Nat]
        /\ kids \in [Sessions -> Seq(Rows)] /\ ended \in [Sessions -> BOOLEAN] /\ ran \in Rows
        /\ ways \in Ways /\ entered = {} /\ dropped = {} /\ denied = {}
    BY <1>0 DEF Init
  <2> QED  BY <2>1, <2>2, <2>3, <2>4 DEF TypeOK, UpType
<1>2. /\ \A t \in Tabs : page[t] = {} /\ saving[t] = {} /\ mail[t] = <<>> /\ DOMAIN mail[t] = {} /\ shown[t] = NoRows
      /\ \A u \in Uploads : up[u] = NoUpload
      /\ \A s \in Sessions : file[s] = NoRows
      /\ stored = NoRows /\ disk = {} /\ entered = {}
  BY DEF Init
<1>3. Known
  <2>1. KnownData
    BY <1>0, <1>2 DEF KnownData, Tabs
  <2>2. KnownUps
    BY <1>0, <1>2 DEF KnownUps, WellUp, Begun
  <2>3. KnownMail
    BY <1>2 DEF KnownMail
  <2> QED  BY <2>1, <2>2, <2>3, KnownIs
<1>4. \A t \in Tabs : ~Busy(t)
  <2>1. \A t \in Tabs : t # None
    BY OfflineAssumption
  <2> QED  BY <1>0, <1>2, <2>1 DEF Busy, Uploading
<1>5. OneBusy
  BY <1>4 DEF OneBusy
<1>6. StaysCurrent /\ SentWhereAsked
  BY <1>2 DEF StaysCurrent, SentWhereAsked, NoUpload
<1>7. CarefulTrue
  BY <1>2 DEF CarefulTrue, NoUpload, Alive, WipeComes
<1>8. PagesFresh
  BY <1>2 DEF PagesFresh
<1> QED  BY <1>1, <1>3, <1>5, <1>6, <1>7, <1>8 DEF KeptIInv

LEMMA KeptStep == KeptIInv /\ [Next]_vars => KeptIInv'
<1> SUFFICES ASSUME KeptIInv, [Next]_vars PROVE KeptIInv'
  OBVIOUS
<1>1. CASE Next
  BY <1>1, TypeStep, KnownStep, OneBusyStep, CurrentStep, CarefulStep, FreshStep DEF KeptIInv
<1>2. CASE UNCHANGED vars
  <2> USE <1>2 DEF vars, tabVars, storeVars, diskVars, serverVars, staffVars
  <2>1. TypeOK'
    BY DEF KeptIInv, TypeOK
  <2>2. Known' /\ OneBusy'
    BY DEF KeptIInv, Known, WellUp, Wellmade, OneBusy, Busy, Uploading, Hurries
  <2>3. StaysCurrent' /\ SentWhereAsked'
    BY DEF KeptIInv, StaysCurrent, SentWhereAsked, Alive, Hurries
  <2>4. CarefulTrue'
    BY DEF KeptIInv, CarefulTrue, Careful, Hurries, MayStay, MayClose, Registers, Safe, Gone, InMail,
           WipeComes, ToWipe, Alive
  <2>5. PagesFresh'
    BY DEF KeptIInv, PagesFresh, Careful, Hurries, MayStay, MayClose, Registers, Fresh, InMail
  <2> QED  BY <2>1, <2>2, <2>3, <2>4, <2>5 DEF KeptIInv
<1> QED  BY <1>1, <1>2

\* What careful staff enter is on a page, on its way, with the server or where they
\* said, and one tab works at a time unless they hurry: in every state.
THEOREM KeptInductive == Spec => []KeptIInv
<1> QED  BY KeptInit, KeptStep, PTL DEF Spec

\* An upload goes to the session whose button was pressed (setSession and
\* uploadPending).
THEOREM SentRight == Spec => []SentWhereAsked
<1>1. KeptIInv => SentWhereAsked
  BY DEF KeptIInv
<1> QED  BY <1>1, KeptInductive, PTL

\* No transaction of careful staff is nowhere, however many tabs, saves and uploads
\* there are and whatever the worker refuses (save, addOfflineXact, uploadPending and
\* destroyPendingOfflineXacts).
THEOREM NoneLost == Spec => []NothingLost
<1>1. KeptIInv => NothingLost
  <2> SUFFICES ASSUME KeptIInv, Careful, NEW x \in Xacts PROVE Fate(x) # "lost"
    BY DEF NothingLost
  <2>1. x \in entered => Traced(x)
    BY TracedIs DEF KeptIInv
  <2> QED  BY <2>1, FateIs DEF Traced
<1> QED  BY <1>1, KeptInductive, PTL

LEMMA LedgerInit == Init => Ledger!LedgerInit
<1> SUFFICES ASSUME Init, NEW x \in Xacts
             PROVE  (IF Careful THEN Fate(x) ELSE "unborn") = "unborn"
  BY DEF Ledger!LedgerInit
<1>1. entered = {}
  BY DEF Init
<1> QED  BY <1>1 DEF Fate

LEMMA LedgerStep == KeptIInv /\ KeptIInv' /\ [Next]_vars => [Ledger!LedgerNext]_([x \in Xacts |-> IF Careful THEN Fate(x) ELSE "unborn"])
<1> SUFFICES ASSUME KeptIInv, KeptIInv', [Next]_vars
             PROVE  [Ledger!LedgerNext]_([x \in Xacts |-> IF Careful THEN Fate(x) ELSE "unborn"])
  OBVIOUS
<1>1. Careful' <=> Careful
  BY DEF Next, vars, Careful, Hurries, MayStay, MayClose, Registers
<1>2. CASE Next
  <2>1. \A x \in Xacts : Fate(x)' \in Ledger!Fates
    BY FateIs DEF Ledger!Fates
  <2>2. \A x \in Xacts : Careful => Fate(x)' = Fate(x) \/ <<Fate(x), Fate(x)'>> \in Ledger!Moves
    BY <1>2, FateStep DEF KeptIInv
  <2>3. Ledger!LedgerNext
    <3> DEFINE f == [x \in Xacts |-> IF Careful THEN Fate(x) ELSE "unborn"]
               g == [x \in Xacts |-> IF Careful' THEN Fate(x)' ELSE "unborn"]
    <3>1. g \in [Xacts -> Ledger!Fates]
      BY <2>1 DEF Ledger!Fates
    <3>2. \A x \in Xacts : g[x] = f[x] \/ <<f[x], g[x]>> \in Ledger!Moves
      BY <1>1, <2>2
    <3> QED  BY <3>1, <3>2 DEF Ledger!LedgerNext
  <2> QED  BY <2>3
<1>3. CASE UNCHANGED vars
  <2>1. \A x \in Xacts : Fate(x)' = Fate(x)
    BY <1>3 DEF Fate, InMail, vars, tabVars, storeVars, diskVars, serverVars, staffVars
  <2> QED  BY <1>1, <2>1
<1> QED  BY <1>2, <1>3

\* Each transaction of careful staff goes the way of the ledger: from the page to the
\* store, from the store to the server, and off that path only by their decision or
\* because the store refused it.
THEOREM Implementation == Spec => KeepsLedger
<1> QED  BY LedgerInit, LedgerStep, KeptInductive, PTL DEF Spec, KeepsLedger, Ledger!LedgerSpec
-----------------------------------------------------------------------------
(* The date.                                                               *)

Dutiful == "tabs" \notin Hurries /\ ~MayClose /\ ~MayRefuse

ReqDate(r) ==
    /\ r.st # "err"
    /\ r.op = "insert" /\ r.job = "nobody" => date
    /\ r.op = "date" /\ r.st = "ok" /\ r.job = "register" => date
    /\ r.op \in Deletes => r.job # "nobody"
    /\ (r.op = "insert" /\ r.st = "ok") \/ (r.op = "date" /\ r.st = "sent") => In(stored) # {}
    /\ Undating(r) => In(stored) = {}
Apart(t, i, j) ==
    /\ mail[t][i].op \in Deletes => mail[t][j].op # "insert"
    /\ mail[t][i].op \in Deletes /\ mail[t][j].op = "date" => j < i
    /\ mail[t][i].job = "upload" /\ mail[t][j].op = "insert" => j < i

SavesDate == \A t \in Tabs : \A s \in saving[t] : ~s.spoiled /\ (s.reload => date)
ReqsDate == \A t \in Tabs : \A i \in DOMAIN mail[t] : ReqDate(mail[t][i])
AllApart == \A t \in Tabs : \A i, j \in DOMAIN mail[t] : Apart(t, i, j)
UpDate(u) == up[u].pc \in Begun =>
    /\ Alive(u)
    /\ \A i \in DOMAIN mail[up[u].tab] : mail[up[u].tab][i].op # "insert"
DateFlag ==
    /\ In(stored) # {} /\ ~date => DateComes
    /\ In(stored) = {} /\ date => DateGoes

Dates == SavesDate /\ ReqsDate /\ AllApart /\ (\A u \in Uploads : UpDate(u)) /\ DateFlag

LEMMA DateIs ==
    /\ DateTrue <=> (Dutiful => Dates)
    /\ DateTrue' <=> (Dutiful' => Dates')
BY DEF DateTrue, Dutiful, Dates, SavesDate, ReqsDate, ReqDate, AllApart, Apart, UpDate, DateFlag

\* Only a tab of Session Management deletes, and only when it is the only busy one.
LEMMA NoDeletes ==
    ASSUME TypeOK, Known, NEW t \in Tabs, \A o \in Tabs \ {t} : ~Busy(o), t \in EntryTabs \/ ~Busy(t)
    PROVE  /\ \A o \in Tabs : \A i \in DOMAIN mail[o] :
                 o = t /\ t \in EntryTabs /\ mail[o][i].op \notin Deletes /\ mail[o][i].job # "upload"
           /\ \A u \in Uploads : up[u].tab = None /\ ~Alive(u)
<1>1. EntryTabs \cap SessionTabs = {}
  BY OfflineAssumption
<1>2. /\ \A u \in Uploads : ~Alive(u)
      /\ \A o \in Tabs : \A i \in DOMAIN mail[o] : o = t /\ t \in EntryTabs /\ mail[o][i].job # "upload"
  BY NoUploads
<1>3. ASSUME NEW o \in Tabs, NEW i \in DOMAIN mail[o] PROVE mail[o][i].op \notin Deletes
  <2>1. Wellmade(o, mail[o][i]) /\ o \notin SessionTabs
    BY <1>1, <1>2 DEF Known
  <2> QED  BY <2>1 DEF Wellmade, Deletes
<1> QED  BY <1>2, <1>3 DEF Alive

\* What a page may send.
Timely(r) ==
    /\ r.st = "sent"
    /\ r.op = "insert" => r.job \notin {"nobody", "upload"}
    /\ r.op \in Deletes => r.job # "nobody"
    /\ r.op = "date" => In(stored) # {}
    /\ r.op = "undate" => In(stored) = {}

LEMMA DateMoved ==
    ASSUME TypeOK, ReqsDate, AllApart, DateFlag, UNCHANGED <<stored, date>>,
           NEW t \in Tabs, NEW d \in {0, 1}, NEW rs \in Seq(ReqType), Moved(t, d, rs),
           \A j \in 1..Len(rs) : Timely(rs[j]),
           \A i, j \in 1..Len(rs) : rs[i].op = rs[j].op,
           d = 1 => /\ 1 \in DOMAIN mail[t]
                    /\ Dating(mail[t][1]) => \E j \in 1..Len(rs) : rs[j].op = "date"
                    /\ Undating(mail[t][1]) => \E j \in 1..Len(rs) : rs[j].op = "undate",
           \A j \in 1..Len(rs) : \A i \in DOMAIN mail[t] :
              /\ rs[j].op = "insert" => mail[t][i].op \notin Deletes /\ mail[t][i].job # "upload"
              /\ rs[j].op = "date" => mail[t][i].op \notin Deletes
              /\ rs[j].op \in Deletes => mail[t][i].op # "insert"
    PROVE  ReqsDate' /\ AllApart' /\ DateFlag'
<1>1. /\ \A o \in Tabs : \A i \in DOMAIN mail'[o] :
            \/ \E j \in DOMAIN mail[o] : /\ mail'[o][i] = mail[o][j]
                                         /\ j = IF o = t THEN i + d ELSE i
            \/ o = t /\ \E j \in 1..Len(rs) : mail'[o][i] = rs[j] /\ i = Len(mail[t]) - d + j
      /\ \A o \in Tabs : \A j \in DOMAIN mail[o] :
            (o = t => d < j) => \E i \in DOMAIN mail'[o] : mail'[o][i] = mail[o][j]
      /\ \A j \in 1..Len(rs) : \E i \in DOMAIN mail'[t] : mail'[t][i] = rs[j]
  <2>1. Flows(t, d, rs)
    BY TypeMails, MovedFlow
  <2> QED  BY <2>1 DEF Flows
<1>2. /\ \A o \in Tabs : Len(mail[o]) \in Nat /\ DOMAIN mail[o] = 1..Len(mail[o])
      /\ \A o \in Tabs : Len(mail'[o]) \in Nat /\ DOMAIN mail'[o] = 1..Len(mail'[o])
      /\ Len(rs) \in Nat
  BY TypeMails, MailType, LenProperties DEF Moved, Mails
<1>3. ReqsDate'
  <2> SUFFICES ASSUME NEW o \in Tabs, NEW i \in DOMAIN mail'[o] PROVE ReqDate(mail[o][i])'
    BY DEF ReqsDate
  <2>1. CASE \E j \in DOMAIN mail[o] : mail'[o][i] = mail[o][j]
    <3>1. PICK j \in DOMAIN mail[o] : mail'[o][i] = mail[o][j]
      BY <2>1
    <3>2. ReqDate(mail[o][j])
      BY DEF ReqsDate
    <3> QED  BY <3>1, <3>2 DEF ReqDate, Undating, In
  <2>2. CASE \E j \in 1..Len(rs) : mail'[o][i] = rs[j]
    BY <2>2 DEF ReqDate, Timely, Undating, In, Deletes
  <2> QED  BY <1>1, <2>1, <2>2
<1>4. ASSUME NEW o \in Tabs, NEW i \in DOMAIN mail'[o], NEW j \in DOMAIN mail'[o] PROVE Apart(o, i, j)'
  <2>1. CASE o # t
    <3>1. mail'[o] = mail[o]
      BY <2>1 DEF Moved
    <3> QED  BY <3>1 DEF AllApart, Apart
  <2>2. CASE o = t
    <3>1. \/ i + d \in DOMAIN mail[t] /\ mail'[t][i] = mail[t][i + d]
          \/ \E k \in 1..Len(rs) : mail'[t][i] = rs[k] /\ i = Len(mail[t]) - d + k
      BY <1>1, <2>2
    <3>2. \/ j + d \in DOMAIN mail[t] /\ mail'[t][j] = mail[t][j + d]
          \/ \E k \in 1..Len(rs) : mail'[t][j] = rs[k] /\ j = Len(mail[t]) - d + k
      BY <1>1, <2>2
    <3>3. CASE /\ i + d \in DOMAIN mail[t] /\ mail'[t][i] = mail[t][i + d]
               /\ j + d \in DOMAIN mail[t] /\ mail'[t][j] = mail[t][j + d]
      <4>1. Apart(t, i + d, j + d)
        BY <3>3 DEF AllApart
      <4>2. j + d < i + d => j < i
        BY <1>2, <2>2
      <4> QED  BY <2>2, <3>3, <4>1, <4>2 DEF Apart
    <3>4. CASE /\ i + d \in DOMAIN mail[t] /\ mail'[t][i] = mail[t][i + d]
               /\ \E k \in 1..Len(rs) : mail'[t][j] = rs[k] /\ j = Len(mail[t]) - d + k
      BY <2>2, <3>4 DEF Apart
    <3>5. CASE /\ \E k \in 1..Len(rs) : mail'[t][i] = rs[k] /\ i = Len(mail[t]) - d + k
               /\ j + d \in DOMAIN mail[t] /\ mail'[t][j] = mail[t][j + d]
      <4>1. j < i
        BY <1>2, <2>2, <3>5
      <4> QED  BY <2>2, <3>5, <4>1 DEF Apart
    <3>6. CASE /\ \E k \in 1..Len(rs) : mail'[t][i] = rs[k]
               /\ \E k \in 1..Len(rs) : mail'[t][j] = rs[k]
      BY <2>2, <3>6 DEF Apart, Timely, Deletes
    <3> QED  BY <3>1, <3>2, <3>3, <3>4, <3>5, <3>6
  <2> QED  BY <2>1, <2>2
<1>5. ASSUME NEW o \in Tabs, NEW j \in DOMAIN mail[o]
      PROVE  \/ \E i \in DOMAIN mail'[o] : mail'[o][i] = mail[o][j]
             \/ o = t /\ d = 1 /\ j = 1
  BY <1>1, <1>2
<1>6. ASSUME In(stored) # {}, ~date PROVE DateComes'
  <2>1. PICK o \in Tabs : \E j \in DOMAIN mail[o] : Dating(mail[o][j])
    BY <1>6 DEF DateFlag, DateComes
  <2>2. PICK j \in DOMAIN mail[o] : Dating(mail[o][j])
    BY <2>1
  <2>3. CASE \E i \in DOMAIN mail'[o] : mail'[o][i] = mail[o][j]
    BY <2>2, <2>3 DEF DateComes, Dating
  <2>4. CASE o = t /\ d = 1 /\ j = 1
    <3>1. PICK k \in 1..Len(rs) : rs[k].op = "date"
      BY <2>2, <2>4
    <3>2. PICK i \in DOMAIN mail'[t] : mail'[t][i] = rs[k]
      BY <1>1
    <3>3. Dating(mail[t][i])'
      BY <3>1, <3>2 DEF Timely, Dating
    <3> QED  BY <3>3 DEF DateComes
  <2> QED  BY <1>5, <2>3, <2>4
<1>7. ASSUME In(stored) = {}, date PROVE DateGoes'
  <2>1. PICK o \in Tabs : \E j \in DOMAIN mail[o] : Undating(mail[o][j])
    BY <1>7 DEF DateFlag, DateGoes
  <2>2. PICK j \in DOMAIN mail[o] : Undating(mail[o][j])
    BY <2>1
  <2>3. CASE \E i \in DOMAIN mail'[o] : mail'[o][i] = mail[o][j]
    BY <2>2, <2>3 DEF DateGoes, Undating
  <2>4. CASE o = t /\ d = 1 /\ j = 1
    <3>1. PICK k \in 1..Len(rs) : rs[k].op = "undate"
      BY <2>2, <2>4
    <3>2. PICK i \in DOMAIN mail'[t] : mail'[t][i] = rs[k]
      BY <1>1
    <3>3. Undating(mail[t][i])'
      BY <3>1, <3>2 DEF Timely, Undating
    <3> QED  BY <3>3 DEF DateGoes
  <2> QED  BY <1>5, <2>3, <2>4
<1>8. In(stored)' = In(stored)
  BY DEF In
<1> QED  BY <1>3, <1>4, <1>6, <1>7, <1>8 DEF AllApart, DateFlag

\* A page asks for the list.
LEMMA DateShown ==
    ASSUME TypeOK, ReqsDate, AllApart, DateFlag, UNCHANGED <<stored, date>>,
           NEW t \in Tabs, NEW d \in {0, 1}, NEW rs \in Seq(ReqType), Moved(t, d, rs),
           \A j \in 1..Len(rs) : rs[j].op = "list" /\ rs[j].st = "sent",
           d = 1 => 1 \in DOMAIN mail[t] /\ ~Dating(mail[t][1]) /\ ~Undating(mail[t][1])
    PROVE  ReqsDate' /\ AllApart' /\ DateFlag'
<1>1. \A j \in 1..Len(rs) : Timely(rs[j]) /\ rs[j].op = "list"
  BY DEF Timely, Deletes
<1>2. \A j \in 1..Len(rs) : rs[j].op \notin {"insert", "date"} \cup Deletes
  BY DEF Deletes
<1> QED  BY <1>1, <1>2, DateMoved

LEMMA DatePopped ==
    ASSUME TypeOK, ReqsDate, AllApart, DateFlag, UNCHANGED <<stored, date>>,
           NEW t \in Tabs, Moved(t, 1, <<>>), 1 \in DOMAIN mail[t], ~Dating(mail[t][1]), ~Undating(mail[t][1])
    PROVE  ReqsDate' /\ AllApart' /\ DateFlag'
<1>1. PICK rs \in Seq(ReqType) : rs = <<>> /\ Len(rs) = 0
  BY NoRequest
<1>2. Moved(t, 1, rs) /\ \A j \in 1..Len(rs) : rs[j].op = "list" /\ rs[j].st = "sent"
  BY <1>1
<1>3. \E d \in {0, 1} : d = 1
  OBVIOUS
<1> QED  BY <1>2, <1>3, DateShown

\* A save or an import sends its inserts.
LEMMA DateInserts ==
    ASSUME TypeOK, Known, ReqsDate, AllApart, DateFlag, UNCHANGED <<stored, date>>,
           NEW t \in Tabs, \A o \in Tabs \ {t} : ~Busy(o), t \in EntryTabs \/ ~Busy(t),
           NEW d \in {0, 1}, NEW rs \in Seq(ReqType), Moved(t, d, rs),
           \A j \in 1..Len(rs) : rs[j].op = "insert" /\ rs[j].st = "sent" /\ rs[j].job \notin {"nobody", "upload"},
           d = 1 => 1 \in DOMAIN mail[t] /\ ~Dating(mail[t][1]) /\ ~Undating(mail[t][1])
    PROVE  ReqsDate' /\ AllApart' /\ DateFlag'
<1>1. \A j \in 1..Len(rs) : Timely(rs[j]) /\ rs[j].op = "insert"
  BY DEF Timely, Deletes
<1>2. \A i \in DOMAIN mail[t] : mail[t][i].op \notin Deletes /\ mail[t][i].job # "upload"
  BY NoDeletes
<1>3. \A j \in 1..Len(rs) : rs[j].op # "date" /\ rs[j].op \notin Deletes
  BY DEF Deletes
<1> QED  BY <1>1, <1>2, <1>3, DateMoved

LEMMA DateStill ==
    ASSUME ReqsDate, AllApart, DateFlag, UNCHANGED <<stored, date, mail>>
    PROVE  ReqsDate' /\ AllApart' /\ DateFlag'
BY DEF ReqsDate, ReqDate, Undating, AllApart, Apart, DateFlag, DateComes, DateGoes, Dating, In

\* No upload has begun.
LEMMA NoneBegun ==
    ASSUME TypeOK, Known, \A u \in Uploads : UpDate(u), NEW t \in Tabs, \A o \in Tabs \ {t} : ~Busy(o),
           t \in EntryTabs \/ ~Busy(t), \A u \in Uploads : up'[u].pc \in Begun => up[u].pc \in Begun
    PROVE  \A u \in Uploads : UpDate(u)'
BY NoDeletes DEF UpDate

\* The uploads that have begun have no insert behind them.
LEMMA BegunStill ==
    ASSUME TypeOK, NEW t \in Tabs, NEW d \in {0, 1}, NEW rs \in Seq(ReqType), Moved(t, d, rs),
           \A j \in 1..Len(rs) : rs[j].op # "insert",
           NEW u \in Uploads, UpDate(u), up'[u].pc \in Begun => up[u].pc \in Begun /\ up'[u].tab = up[u].tab
    PROVE  UpDate(u)'
<1>1. /\ \A o \in Tabs : \A i \in DOMAIN mail'[o] :
            \/ \E j \in DOMAIN mail[o] : mail'[o][i] = mail[o][j]
            \/ o = t /\ \E j \in 1..Len(rs) : mail'[o][i] = rs[j]
  <2>1. Flows(t, d, rs)
    BY TypeMails, MovedFlow
  <2> QED  BY <2>1 DEF Flows
<1>2. up[u].tab \in Tabs \cup {None}
  BY TypeUps, UpsAre
<1> QED  BY <1>1, <1>2 DEF UpDate, Alive

\* The worker carries out one request.
LEMMA DateServed ==
    ASSUME TypeOK, Known, OneBusy, Dutiful, Dates, NEW t \in Tabs, Work(t)
    PROVE  Dates'
<1>0. /\ saving' = saving /\ up' = up /\ "tabs" \notin Hurries /\ ~MayRefuse
  BY DEF Work, Dutiful
<1>1. PICK i \in 1..Len(mail[t]) : Served(t, i)
  BY TypeMails, WorkIs
<1> DEFINE r == mail[t][i]
           n == mail'[t][i]
<1>2. /\ \A o \in Tabs : DOMAIN mail'[o] = DOMAIN mail[o]
      /\ \A o \in Tabs : \A j \in DOMAIN mail[o] :
            /\ mail'[o][j].op = mail[o][j].op /\ mail'[o][j].job = mail[o][j].job
            /\ o # t \/ j # i => mail'[o][j] = mail[o][j]
      /\ i \in DOMAIN mail[t] /\ r.st = "sent"
      /\ \A j \in DOMAIN mail[t] : j < i => mail[t][j].st # "sent"
  BY <1>1, TypeMails, ServedFlow
<1>3. /\ Busy(t) /\ \A o \in Tabs \ {t} : ~Busy(o)
      /\ \A o \in Tabs : (\E j \in DOMAIN mail[o] : TRUE) \/ saving[o] # {} => o = t
  BY <1>0, <1>2, BusyIs DEF OneBusy
<1>4. /\ Perform(r) /\ n.st = "ok" /\ n.op = r.op /\ n.job = r.job
  BY <1>0, <1>1 DEF Served
<1>5. /\ r \in ReqType /\ Wellmade(t, r) /\ (r.op = "insert" => r.x \in Xacts)
      /\ r.op \in {"insert", "date", "wipe", "undate", "list"}
  BY <1>2, HeadOf DEF ReqType
<1>6. ReqDate(r) /\ \A j \in DOMAIN mail[t] : ReqDate(mail[t][j]) /\ Apart(t, i, j) /\ Apart(t, j, i)
  BY <1>2 DEF Dates, ReqsDate, AllApart
<1>7. /\ AllApart'
  BY <1>2 DEF Dates, AllApart, Apart
<1>8. \A u \in Uploads : UpDate(u)'
  <2>1. \A u \in Uploads : up[u].tab \in Tabs \cup {None}
    BY TypeUps, UpsAre
  <2> QED  BY <1>0, <1>2, <2>1, SMTT(30) DEF Dates, UpDate, Alive
<1>9. \A o \in Tabs : \A j \in DOMAIN mail'[o] : o = t /\ j \in DOMAIN mail[t] /\ (j = i \/ mail'[t][j] = mail[t][j])
  BY <1>2, <1>3
<1> HIDE DEF r, n
<1>10. CASE r.op = "insert"
  <2>1. /\ In(stored') # {} /\ date' = date
    <3>1. PICK x \in Xacts : x = r.x
      BY <1>5, <1>10
    <3>2. stored' = [stored EXCEPT ![x] = @ + 1] /\ date' = date
      BY <1>4, <1>10, <3>1 DEF Perform
    <3>3. stored'[x] = stored[x] + 1 /\ stored[x] \in Nat
      BY <3>2 DEF TypeOK, Rows
    <3>4. x \in In(stored')
      BY <3>3 DEF In
    <3> QED  BY <3>2, <3>4
  <2>2. \A j \in DOMAIN mail[t] : mail[t][j].op \notin Deletes
    BY <1>6, <1>10 DEF Apart, r
  <2>3. ReqsDate'
    <3> SUFFICES ASSUME NEW o \in Tabs, NEW j \in DOMAIN mail'[o] PROVE ReqDate(mail[o][j])'
      BY DEF ReqsDate
    <3>1. o = t /\ j \in DOMAIN mail[t] /\ (j = i \/ mail'[t][j] = mail[t][j])
      BY <1>9
    <3>2. CASE j = i
      <4>1. ReqDate(r) /\ mail'[o][j] = n
        BY <1>6, <3>1, <3>2 DEF n
      <4> QED  BY <1>4, <1>10, <2>1, <4>1 DEF ReqDate, Undating, Deletes, In
    <3>3. CASE mail'[t][j] = mail[t][j]
      <4>1. ReqDate(mail[t][j]) /\ mail[t][j].op \notin Deletes
        BY <1>6, <2>2, <3>1
      <4> QED  BY <2>1, <3>1, <3>3, <4>1 DEF ReqDate, Undating, Deletes, In
    <3> QED  BY <3>1, <3>2, <3>3
  <2>4. DateFlag'
    <3>1. ~date => r.job # "nobody"
      BY <1>6, <1>10 DEF ReqDate
    <3>2. ~date => Dating(mail[t][i])'
      BY <1>4, <1>10, <3>1 DEF Dating, n
    <3>3. ~date => DateComes'
      BY <1>2, <3>2 DEF DateComes
    <3> QED  BY <2>1, <3>3 DEF DateFlag, In
  <2> QED  BY <1>0, <1>7, <1>8, <2>1, <2>3, <2>4 DEF Dates, SavesDate
<1>11. CASE r.op = "wipe"
  <2>1. /\ In(stored') = {} /\ date' = date
    <3>1. stored' = NoRows /\ date' = date
      BY <1>4, <1>11 DEF Perform
    <3> QED  BY <3>1, NoRowsType
  <2>2. \A j \in DOMAIN mail[t] : mail[t][j].op # "insert" /\ ~(mail[t][j].op = "date" /\ mail[t][j].st = "sent")
    BY <1>2, <1>6, <1>11 DEF Apart, r, Deletes
  <2>3. ReqsDate'
    <3> SUFFICES ASSUME NEW o \in Tabs, NEW j \in DOMAIN mail'[o] PROVE ReqDate(mail[o][j])'
      BY DEF ReqsDate
    <3>1. o = t /\ j \in DOMAIN mail[t] /\ (j = i \/ mail'[t][j] = mail[t][j])
      BY <1>9
    <3>2. CASE j = i
      <4>1. ReqDate(r) /\ mail'[o][j] = n
        BY <1>6, <3>1, <3>2 DEF n
      <4> QED  BY <1>4, <1>11, <2>1, <4>1 DEF ReqDate, Undating, Deletes, In
    <3>3. CASE mail'[t][j] = mail[t][j]
      <4>1. ReqDate(mail[t][j])
        BY <1>6, <3>1
      <4> QED  BY <2>1, <2>2, <3>1, <3>3, <4>1 DEF ReqDate, Undating, Deletes, In
    <3> QED  BY <3>1, <3>2, <3>3
  <2>4. DateFlag'
    <3>1. Undating(mail[t][i])'
      BY <1>4, <1>11 DEF Undating, n
    <3>2. DateGoes'
      BY <1>2, <3>1 DEF DateGoes
    <3> QED  BY <2>1, <3>2 DEF DateFlag, In
  <2> QED  BY <1>0, <1>7, <1>8, <2>1, <2>3, <2>4 DEF Dates, SavesDate
<1>12. CASE r.op = "date"
  <2>1. stored' = stored /\ date' = TRUE /\ In(stored) # {}
    <3>1. In(stored) # {}
      BY <1>2, <1>6, <1>12 DEF ReqDate, r
    <3> QED  BY <1>4, <1>12, <3>1 DEF Perform
  <2>2. ReqsDate'
    <3> SUFFICES ASSUME NEW o \in Tabs, NEW j \in DOMAIN mail'[o] PROVE ReqDate(mail[o][j])'
      BY DEF ReqsDate
    <3>1. o = t /\ j \in DOMAIN mail[t] /\ (j = i \/ mail'[t][j] = mail[t][j])
      BY <1>9
    <3>2. CASE j = i
      <4>1. ReqDate(r) /\ mail'[o][j] = n
        BY <1>6, <3>1, <3>2 DEF n
      <4> QED  BY <1>4, <1>12, <2>1, <4>1 DEF ReqDate, Undating, Deletes, In
    <3>3. CASE mail'[t][j] = mail[t][j]
      <4>1. ReqDate(mail[t][j])
        BY <1>6, <3>1
      <4> QED  BY <2>1, <3>1, <3>3, <4>1 DEF ReqDate, Undating, Deletes, In
    <3> QED  BY <3>1, <3>2, <3>3
  <2>3. SavesDate' /\ DateFlag'
    BY <1>0, <2>1 DEF Dates, SavesDate, DateFlag, In
  <2> QED  BY <1>7, <1>8, <2>2, <2>3 DEF Dates
<1>13. CASE r.op = "undate"
  <2>1. stored' = stored /\ date' = FALSE /\ In(stored) = {}
    <3>1. In(stored) = {}
      BY <1>2, <1>6, <1>13 DEF ReqDate, Undating, r
    <3> QED  BY <1>4, <1>13, <3>1 DEF Perform
  <2>2. /\ t \in SessionTabs /\ t \notin EntryTabs
        /\ \A j \in DOMAIN mail[t] : mail[t][j].op # "insert" /\ mail[t][j].job # "register"
    <3>1. t \in SessionTabs /\ t \notin EntryTabs
      BY <1>5, <1>13, OfflineAssumption DEF Wellmade
    <3>2. \A j \in DOMAIN mail[t] : Wellmade(t, mail[t][j])
      BY DEF Known
    <3> QED  BY <1>6, <1>13, <3>1, <3>2 DEF Apart, r, Deletes, Wellmade
  <2>3. ReqsDate'
    <3> SUFFICES ASSUME NEW o \in Tabs, NEW j \in DOMAIN mail'[o] PROVE ReqDate(mail[o][j])'
      BY DEF ReqsDate
    <3>1. o = t /\ j \in DOMAIN mail[t] /\ (j = i \/ mail'[t][j] = mail[t][j])
      BY <1>9
    <3>2. CASE j = i
      <4>1. ReqDate(r) /\ mail'[o][j] = n
        BY <1>6, <3>1, <3>2 DEF n
      <4> QED  BY <1>4, <1>13, <2>1, <4>1 DEF ReqDate, Undating, Deletes, In
    <3>3. CASE mail'[t][j] = mail[t][j]
      <4>1. ReqDate(mail[t][j])
        BY <1>6, <3>1
      <4> QED  BY <2>1, <2>2, <3>1, <3>3, <4>1 DEF ReqDate, Undating, Deletes, In
    <3> QED  BY <3>1, <3>2, <3>3
  <2>4. SavesDate'
    <3>1. \A o \in Tabs : saving[o] = {}
      BY <1>3, <2>2 DEF Known
    <3> QED  BY <1>0, <3>1 DEF SavesDate
  <2>5. DateFlag'
    BY <2>1 DEF DateFlag, In
  <2> QED  BY <1>7, <1>8, <2>3, <2>4, <2>5 DEF Dates
<1>14. CASE r.op = "list"
  <2>1. stored' = stored /\ date' = date
    BY <1>4, <1>14 DEF Perform
  <2>2. ReqsDate'
    <3> SUFFICES ASSUME NEW o \in Tabs, NEW j \in DOMAIN mail'[o] PROVE ReqDate(mail[o][j])'
      BY DEF ReqsDate
    <3>1. o = t /\ j \in DOMAIN mail[t] /\ (j = i \/ mail'[t][j] = mail[t][j])
      BY <1>9
    <3>2. CASE j = i
      <4>1. ReqDate(r) /\ mail'[o][j] = n
        BY <1>6, <3>1, <3>2 DEF n
      <4> QED  BY <1>4, <1>14, <2>1, <4>1 DEF ReqDate, Undating, Deletes, In
    <3>3. CASE mail'[t][j] = mail[t][j]
      <4>1. ReqDate(mail[t][j])
        BY <1>6, <3>1
      <4> QED  BY <2>1, <3>1, <3>3, <4>1 DEF ReqDate, Undating, Deletes, In
    <3> QED  BY <3>1, <3>2, <3>3
  <2>3. ~Dating(r) /\ ~Undating(r)
    BY <1>14 DEF Dating, Undating
  <2>4. /\ DateComes => DateComes'
        /\ DateGoes => DateGoes'
    <3>1. \A o \in Tabs : \A j \in DOMAIN mail[o] :
             Dating(mail[o][j]) \/ Undating(mail[o][j]) => j \in DOMAIN mail'[o] /\ mail'[o][j] = mail[o][j]
      BY <1>2, <2>3 DEF r
    <3>2. ASSUME DateComes PROVE DateComes'
      <4>1. PICK o \in Tabs : \E j \in DOMAIN mail[o] : Dating(mail[o][j])
        BY <3>2 DEF DateComes
      <4> QED  BY <3>1, <4>1 DEF DateComes, Dating
    <3>3. ASSUME DateGoes PROVE DateGoes'
      <4>1. PICK o \in Tabs : \E j \in DOMAIN mail[o] : Undating(mail[o][j])
        BY <3>3 DEF DateGoes
      <4> QED  BY <3>1, <4>1 DEF DateGoes, Undating
    <3> QED  BY <3>2, <3>3
  <2>5. DateFlag' /\ SavesDate'
    BY <1>0, <2>1, <2>4 DEF Dates, DateFlag, SavesDate, In
  <2> QED  BY <1>7, <1>8, <2>2, <2>5 DEF Dates
<1> QED  BY <1>5, <1>10, <1>11, <1>12, <1>13, <1>14

\* A registration's save ends: the page reloads, and leaves its requests.
LEMMA DateReload ==
    ASSUME TypeOK, Known, OneBusy, Dutiful, Dates, NEW t \in Tabs, NEW s \in saving[t], s.reload, Reload(t),
           UNCHANGED <<stored, date>>
    PROVE  Dates'
<1>1. PICK d \in 0..Len(mail[t]) : Renewed(t, d)
  BY TypeMails, ReloadIs
<1>2. date
  BY DEF Dates, SavesDate
<1>3. t \in EntryTabs /\ \A o \in Tabs \ {t} : ~Busy(o)
  BY BusyIs DEF Dutiful, OneBusy, Known, Tabs
<1>4. /\ \A o \in Tabs : \A i \in DOMAIN mail[o] : o = t /\ mail[o][i].op \notin Deletes /\ mail[o][i].job # "upload"
      /\ \A u \in Uploads : ~Alive(u)
  BY <1>3, NoDeletes
<1>5. /\ \A o \in Tabs : o # t => mail'[o] = mail[o]
      /\ \A i \in DOMAIN mail'[t] :
            \/ mail'[t][i].op = "list" /\ mail'[t][i].job = "show" /\ mail'[t][i].st = "sent"
            \/ \E j \in DOMAIN mail[t] :
                  /\ mail'[t][i].job = "nobody" /\ mail'[t][i].op = mail[t][j].op
                  /\ mail'[t][i].st = mail[t][j].st
  BY <1>1, TypeMails, RenewedFlow
<1>6. ReqsDate'
  <2> SUFFICES ASSUME NEW o \in Tabs, NEW i \in DOMAIN mail'[o] PROVE ReqDate(mail[o][i])'
    BY DEF ReqsDate
  <2>1. o = t
    BY <1>4, <1>5
  <2>2. CASE mail'[t][i].op = "list" /\ mail'[t][i].job = "show" /\ mail'[t][i].st = "sent"
    BY <2>1, <2>2 DEF ReqDate, Undating, Deletes
  <2>3. CASE \E j \in DOMAIN mail[t] :
                  /\ mail'[t][i].job = "nobody" /\ mail'[t][i].op = mail[t][j].op
                  /\ mail'[t][i].st = mail[t][j].st
    <3>1. PICK j \in DOMAIN mail[t] :
                  /\ mail'[t][i].job = "nobody" /\ mail'[t][i].op = mail[t][j].op
                  /\ mail'[t][i].st = mail[t][j].st
      BY <2>3
    <3>2. ReqDate(mail[t][j]) /\ mail[t][j].op \notin Deletes
      BY <1>4 DEF Dates, ReqsDate
    <3> QED  BY <1>2, <2>1, <3>1, <3>2 DEF ReqDate, Undating, Deletes, In
  <2> QED  BY <1>5, <2>1, <2>2, <2>3
<1>7. AllApart'
  <2>1. \A o \in Tabs : \A i \in DOMAIN mail'[o] : mail'[o][i].op \notin Deletes /\ mail'[o][i].job # "upload"
    BY <1>4, <1>5 DEF Deletes
  <2> QED  BY <2>1 DEF AllApart, Apart
<1>8. \A u \in Uploads : UpDate(u)'
  <2>1. \A u \in Uploads : up[u].pc \notin Begun
    BY <1>4 DEF Dates, UpDate
  <2>2. \A u \in Uploads : up'[u].pc = up[u].pc
    BY TypeUps DEF Reload, UpType
  <2> QED  BY <2>1, <2>2 DEF UpDate
<1>9. SavesDate'
  <2>1. \A o \in Tabs : saving'[o] \subseteq saving[o]
    BY DEF Reload, TypeOK
  <2> QED  BY <2>1 DEF Dates, SavesDate
<1>10. DateFlag'
  <2>1. ~DateGoes
    BY <1>4 DEF DateGoes, Undating, Deletes
  <2> QED  BY <1>2, <2>1 DEF Dates, DateFlag, In
<1> QED  BY <1>6, <1>7, <1>8, <1>9, <1>10 DEF Dates

LEMMA DatesStep ==
    ASSUME TypeOK, Known, OneBusy, Dutiful, Dates, Next
    PROVE  Dates'
<1> USE DEF tabVars, storeVars, diskVars, serverVars, staffVars
<1>0. /\ "tabs" \notin Hurries /\ ~MayClose /\ ~MayRefuse
      /\ SavesDate /\ ReqsDate /\ AllApart /\ (\A u \in Uploads : UpDate(u)) /\ DateFlag
  BY DEF Dutiful, Dates
<1>0a. /\ Finished.tab = None /\ Finished.pc \notin Begun
       /\ \A u \in Uploads : up[u].tab \in Tabs \cup {None} /\ up[u] \in UpType
  BY UpsAre, TypeUps DEF Begun
\* The dates are as they were, but for the saves and the uploads.
<1>a. ASSUME ReqsDate' /\ AllApart' /\ DateFlag', UNCHANGED <<up, saving, date>>,
             \A u \in Uploads : UpDate(u)'
      PROVE  Dates'
  BY <1>0, <1>a DEF Dates, SavesDate
<1>b. ASSUME NEW t \in Tabs, NEW d \in {0, 1}, NEW rs \in Seq(ReqType), Moved(t, d, rs),
             \A j \in 1..Len(rs) : rs[j].op # "insert", UNCHANGED up
      PROVE  \A u \in Uploads : UpDate(u)'
  BY <1>0, <1>b, BegunStill
<1>c. ASSUME NEW t \in Tabs, NEW d \in {0, 1}, NEW rs \in Seq(ReqType), Moved(t, d, rs),
             \A j \in 1..Len(rs) : IsShow(rs[j]), UNCHANGED <<up, saving, date, stored>>,
             d = 1 => 1 \in DOMAIN mail[t] /\ ~Dating(mail[t][1]) /\ ~Undating(mail[t][1])
      PROVE  Dates'
  <2>1. \A j \in 1..Len(rs) : rs[j].op = "list" /\ rs[j].st = "sent" /\ rs[j].op # "insert"
    BY <1>c DEF IsShow
  <2>2. ReqsDate' /\ AllApart' /\ DateFlag'
    BY <1>0, <1>c, <2>1, DateShown
  <2>3. \A u \in Uploads : UpDate(u)'
    BY <1>b, <1>c, <2>1
  <2> QED  BY <1>a, <1>c, <2>2, <2>3
<1>d. ASSUME UNCHANGED <<mail, saving, date, stored>>,
             \A u \in Uploads : up'[u].pc \in Begun => up[u].pc \in Begun /\ up'[u].tab = up[u].tab
      PROVE  Dates'
  <2>1. \A u \in Uploads : UpDate(u)'
    BY <1>0, <1>d DEF UpDate, Alive
  <2> QED  BY <1>0, <1>d, <2>1, DateStill DEF Dates, SavesDate
<1>e. \A t \in Tabs : MayAct(t) => \A o \in Tabs \ {t} : ~Busy(o)
  BY <1>0 DEF MayAct
<1>f. \A t \in Tabs : Busy(t) => \A o \in Tabs \ {t} : ~Busy(o)
  BY <1>0 DEF OneBusy
<1>1. ASSUME NEW t \in Tabs, Work(t) PROVE Dates'
  BY <1>1, DateServed
<1>2. ASSUME NEW t \in Tabs, Inserted(t) PROVE Dates'
  <2>1. PICK rs \in Seq(ReqType) :
              /\ Moved(t, 1, rs)
              /\ Len(rs) = IF mail[t][1].job = "nobody" THEN 0 ELSE 1
              /\ \A i \in 1..Len(rs) :
                    /\ rs[i].op = "date" /\ rs[i].job = mail[t][1].job /\ rs[i].k = mail[t][1].k
                    /\ rs[i].st = "sent" /\ rs[i].got = NoRows
    BY <1>2, InsertedIs
  <2>2. 1 \in DOMAIN mail[t] /\ mail[t][1].op = "insert" /\ mail[t][1].st = "ok"
    BY <1>2, AnswerIs DEF Inserted
  <2>3. In(stored) # {} /\ \A i \in DOMAIN mail[t] : mail[t][i].op \notin Deletes
    BY <1>0, <2>2 DEF ReqsDate, ReqDate, AllApart, Apart
  <2>4. \A j \in 1..Len(rs) : Timely(rs[j]) /\ rs[j].op = "date"
    BY <2>1, <2>3 DEF Timely, Deletes
  <2>5. /\ Dating(mail[t][1]) => \E j \in 1..Len(rs) : rs[j].op = "date"
        /\ ~Undating(mail[t][1])
    <3>1. Dating(mail[t][1]) => mail[t][1].job # "nobody"
      BY <2>2 DEF Dating
    <3>2. mail[t][1].job # "nobody" => 1 \in 1..Len(rs)
      BY <2>1
    <3> QED  BY <2>2, <2>4, <3>1, <3>2 DEF Undating
  <2>6. \E d \in {0, 1} : d = 1
    OBVIOUS
  <2>7. UNCHANGED <<up, saving, date, stored>>
    BY <1>2 DEF Inserted
  <2>8. \A j \in 1..Len(rs) : rs[j].op # "insert" /\ rs[j].op \notin Deletes
    BY <2>1 DEF Deletes
  <2>9. ReqsDate' /\ AllApart' /\ DateFlag'
    BY <1>0, <2>1, <2>2, <2>3, <2>4, <2>5, <2>6, <2>7, <2>8, DateMoved
  <2>10. \A u \in Uploads : UpDate(u)'
    BY <1>b, <2>1, <2>6, <2>7, <2>8
  <2> QED  BY <1>a, <2>7, <2>9, <2>10
<1>3. ASSUME NEW t \in Tabs, Dated(t) PROVE Dates'
  <2>1. PICK rs \in Seq(ReqType) :
              /\ Moved(t, 1, rs)
              /\ \/ /\ mail[t][1].job = "register" /\ StartSave(t, mail[t][1].k, TRUE)
                    /\ InsertsOf(rs, page[t], "save", mail[t][1].k)
                 \/ /\ mail[t][1].job # "register" /\ saving' = saving
                    /\ Len(rs) \in {0, 1} /\ \A i \in 1..Len(rs) : IsShow(rs[i])
    BY <1>3, DatedIs
  <2>2. /\ 1 \in DOMAIN mail[t] /\ mail[t][1].op = "date" /\ mail[t][1].st = "ok" /\ Busy(t)
        /\ ~Dating(mail[t][1]) /\ ~Undating(mail[t][1])
        /\ UNCHANGED <<up, date, stored>>
    BY <1>3, AnswerIs, BusyIs DEF Dated, Dating, Undating
  <2>3. \E d \in {0, 1} : d = 1
    OBVIOUS
  <2>4. CASE saving' = saving /\ \A i \in 1..Len(rs) : IsShow(rs[i])
    BY <1>c, <2>1, <2>2, <2>3, <2>4
  <2>5. CASE /\ mail[t][1].job = "register" /\ StartSave(t, mail[t][1].k, TRUE)
             /\ InsertsOf(rs, page[t], "save", mail[t][1].k)
    <3>1. t \in EntryTabs /\ date
      BY <1>0, <2>2, <2>5, HeadOf DEF ReqsDate, ReqDate
    <3>2. \A o \in Tabs \ {t} : ~Busy(o)
      BY <1>f, <2>2
    <3>3. \A i \in 1..Len(rs) : rs[i].op = "insert" /\ rs[i].st = "sent" /\ rs[i].job \notin {"nobody", "upload"}
      BY <2>5 DEF InsertsOf
    <3>4. ReqsDate' /\ AllApart' /\ DateFlag'
      BY <1>0, <2>1, <2>2, <2>3, <3>1, <3>2, <3>3, DateInserts
    <3>5. \A u \in Uploads : UpDate(u)'
      BY <1>0, <2>2, <3>1, <3>2, NoneBegun
    <3>6. SavesDate'
      <4>1. saving' = [saving EXCEPT ![t] = @ \cup {[k |-> mail[t][1].k, reload |-> TRUE, spoiled |-> FALSE]}]
        BY <2>5 DEF StartSave
      <4>2. \A o \in Tabs : \A s \in saving'[o] : s \in saving[o] \/ ~s.spoiled
        BY <4>1 DEF TypeOK
      <4> QED  BY <1>0, <2>2, <3>1, <4>2 DEF SavesDate
    <3> QED  BY <3>4, <3>5, <3>6 DEF Dates
  <2> QED  BY <2>1, <2>4, <2>5
<1>4. ASSUME NEW t \in Tabs, Wiped(t) PROVE Dates'
  <2>1. PICK rs \in Seq(ReqType) :
              /\ Moved(t, 1, rs)
              /\ Len(rs) = IF mail[t][1].job = "nobody" THEN 0 ELSE 1
              /\ \A i \in 1..Len(rs) : /\ rs[i].op = "undate" /\ rs[i].job = "clear"
                                       /\ rs[i].st = "sent" /\ rs[i].got = NoRows
    BY <1>4, WipedIs
  <2>2. 1 \in DOMAIN mail[t] /\ mail[t][1].op = "wipe" /\ mail[t][1].st = "ok"
    BY <1>4, AnswerIs DEF Wiped
  <2>3. /\ In(stored) = {} /\ mail[t][1].job # "nobody" /\ ~Dating(mail[t][1])
        /\ \A i \in DOMAIN mail[t] : mail[t][i].op # "insert"
    BY <1>0, <2>2 DEF ReqsDate, ReqDate, AllApart, Apart, Undating, Deletes, Dating
  <2>4. 1 \in 1..Len(rs) /\ \A j \in 1..Len(rs) : Timely(rs[j]) /\ rs[j].op = "undate"
    BY <2>1, <2>3 DEF Timely
  <2>5. \E j \in 1..Len(rs) : rs[j].op = "undate"
    BY <2>4
  <2>6. \E d \in {0, 1} : d = 1
    OBVIOUS
  <2>7. UNCHANGED <<up, saving, date, stored>>
    BY <1>4 DEF Wiped
  <2>8. \A j \in 1..Len(rs) : rs[j].op # "insert" /\ rs[j].op # "date"
    BY <2>1
  <2>9. \A i, j \in 1..Len(rs) : rs[i].op = rs[j].op
    BY <2>4
  <2>10. ReqsDate' /\ AllApart' /\ DateFlag'
    BY <1>0, <2>1, <2>2, <2>3, <2>4, <2>5, <2>6, <2>7, <2>8, <2>9, DateMoved
  <2>11. \A u \in Uploads : UpDate(u)'
    BY <1>b, <2>1, <2>6, <2>7, <2>8
  <2> QED  BY <1>a, <2>7, <2>10, <2>11
<1>5. ASSUME NEW t \in Tabs, Undated(t) PROVE Dates'
  <2>1. PICK rs \in Seq(ReqType) : Moved(t, 1, rs) /\ \A i \in 1..Len(rs) : IsShow(rs[i])
    BY <1>5, UndatedIs
  <2>2. 1 \in DOMAIN mail[t] /\ ~Dating(mail[t][1]) /\ ~Undating(mail[t][1])
    BY <1>5, AnswerIs DEF Undated, Dating, Undating
  <2>3. \E d \in {0, 1} : d = 1
    OBVIOUS
  <2> QED  BY <1>5, <1>c, <2>1, <2>2, <2>3 DEF Undated
<1>6. ASSUME NEW t \in Tabs, Listed(t) PROVE Dates'
  <2> DEFINE r == mail[t][1]
  <2>1. /\ Moved(t, 1, <<>>) /\ 1 \in DOMAIN mail[t] /\ r.op = "list" /\ Head(mail[t]) = r
        /\ r.job = "upload" => r.k \in Uploads /\ up[r.k].tab = t
    BY <1>6, ListedIs, HeadOf, SMTT(30)
  <2>2. /\ UNCHANGED <<saving, date, stored>>
        /\ up' = IF r.job = "upload"
                 THEN [up EXCEPT ![r.k].blob = r.got, ![r.k].pc = "load", ![r.k].to = current[t]]
                 ELSE up
    BY <1>6, <2>1 DEF Listed
  <2>3. ~Dating(r) /\ ~Undating(r)
    BY <2>1, SMTT(30) DEF Dating, Undating
  <2>4. ReqsDate' /\ AllApart' /\ DateFlag'
    BY <1>0, <2>1, <2>2, <2>3, DatePopped
  <2>5. \A j \in DOMAIN mail[t] : r.job = "upload" => mail[t][j].op # "insert"
    <3>1. DOMAIN mail[t] = 1..Len(mail[t]) /\ Len(mail[t]) \in Nat
      BY TypeMails, MailType
    <3>2. \A j \in DOMAIN mail[t] : ~(j < 1)
      BY <3>1
    <3> QED  BY <1>0, <2>1, <3>2 DEF AllApart, Apart
  <2> HIDE DEF r
  <2>6. PICK rs \in Seq(ReqType) : Moved(t, 1, rs) /\ \A j \in 1..Len(rs) : rs[j].op # "insert"
    <3>1. <<>> \in Seq(ReqType) /\ \A j \in 1..Len(<<>>) : FALSE
      BY NoRequest
    <3> QED  BY <2>1, <3>1
  <2>7. ASSUME NEW u \in Uploads PROVE UpDate(u)'
    <3>1. CASE up'[u] = up[u]
      <4>1. \E d \in {0, 1} : d = 1
        OBVIOUS
      <4> QED  BY <1>0, <2>6, <3>1, <4>1, BegunStill
    <3>2. CASE up'[u] # up[u]
      <4>1. r.job = "upload" /\ u = r.k /\ up'[u].tab = t
        <5>1. r.job = "upload" /\ up' = [up EXCEPT ![r.k] = [@ EXCEPT !.blob = r.got, !.pc = "load", !.to = current[t]]]
          BY <2>2, <3>2
        <5>2. u = r.k /\ up'[u] = [up[u] EXCEPT !.blob = r.got, !.pc = "load", !.to = current[t]]
          BY <3>2, <5>1, TypeUps
        <5> QED  BY <1>0a, <2>1, <5>1, <5>2 DEF UpType
      <4>2. \A i \in DOMAIN mail'[t] : mail'[t][i].op # "insert"
        <5>1. \A i \in DOMAIN mail'[t] :
                 \/ \E j \in DOMAIN mail[t] : mail'[t][i] = mail[t][j]
                 \/ \E j \in 1..Len(rs) : mail'[t][i] = rs[j]
          <6>1. Flows(t, 1, rs)
            BY <2>6, TypeMails, MovedFlow
          <6> QED  BY <6>1 DEF Flows
        <5> QED  BY <2>5, <2>6, <4>1, <5>1
      <4>3. t # None
        BY OfflineAssumption
      <4> QED  BY <4>1, <4>2, <4>3 DEF UpDate, Alive
    <3> QED  BY <3>1, <3>2
  <2> QED  BY <1>0, <2>2, <2>4, <2>7 DEF Dates, SavesDate
<1>7. ASSUME NEW t \in Tabs, Refused(t) PROVE Dates'
  <2>1. 1 \in DOMAIN mail[t] /\ mail[t][1].st = "err"
    BY <1>7, RefusedIs
  <2> QED  BY <1>0, <2>1 DEF ReqsDate, ReqDate
<1>8. ASSUME NEW t \in Tabs, NEW s \in saving[t], SaveSettled(t, s) PROVE Dates'
  <2>1. CASE s.reload
    BY <1>8, <2>1, DateReload DEF SaveSettled
  <2>2. CASE ~s.reload
    <3>1. PICK rs \in Seq(ReqType) : Moved(t, 0, rs) /\ Len(rs) = 1 /\ IsShow(rs[1])
      BY <1>8, <2>2, ShowPosted DEF SaveSettled
    <3>2. /\ saving' = [saving EXCEPT ![t] = @ \ {s}] /\ UNCHANGED <<up, date, stored>>
      BY <1>8, <2>2 DEF SaveSettled
    <3>3. \A j \in 1..Len(rs) : rs[j].op = "list" /\ rs[j].st = "sent" /\ rs[j].op # "insert"
      BY <3>1 DEF IsShow
    <3>4. \E d \in {0, 1} : d = 0
      OBVIOUS
    <3>5. ReqsDate' /\ AllApart' /\ DateFlag'
      BY <1>0, <3>1, <3>2, <3>3, <3>4, DateShown
    <3>6. \A u \in Uploads : UpDate(u)'
      BY <1>b, <3>1, <3>2, <3>3, <3>4
    <3>7. \A o \in Tabs : saving'[o] \subseteq saving[o]
      BY <3>2 DEF TypeOK
    <3> QED  BY <1>0, <3>2, <3>5, <3>6, <3>7 DEF Dates, SavesDate
  <2> QED  BY <2>1, <2>2
<1>9. ASSUME NEW t \in Tabs, NEW x \in Xacts, Add(t, x) PROVE Dates'
  BY <1>9, <1>d DEF Add
<1>10. ASSUME NEW t \in Tabs, NEW x \in Xacts, Register(t, x) PROVE Dates'
  <2>1. /\ saves[t] + 1 \in Nat /\ Post(t, <<Req("insert", x, "register", saves[t] + 1)>>)
        /\ t \in EntryTabs /\ MayAct(t) /\ UNCHANGED <<up, saving, date, stored>>
    BY <1>10, OfflineAssumption DEF Register, TypeOK
  <2>2. PICK rs \in Seq(ReqType) : Moved(t, 0, rs) /\ Sole(rs, "insert", x, "register", saves[t] + 1)
    BY <2>1, SolePosted
  <2>3. \A i \in 1..Len(rs) : rs[i].op = "insert" /\ rs[i].st = "sent" /\ rs[i].job \notin {"nobody", "upload"}
    BY <2>2 DEF Sole
  <2>4. \E d \in {0, 1} : d = 0
    OBVIOUS
  <2>5. ReqsDate' /\ AllApart' /\ DateFlag'
    BY <1>0, <1>e, <2>1, <2>2, <2>3, <2>4, DateInserts
  <2>6. \A u \in Uploads : UpDate(u)'
    BY <1>0, <1>e, <2>1, NoneBegun
  <2> QED  BY <1>a, <2>1, <2>5, <2>6
<1>11. ASSUME NEW t \in Tabs, Save(t) PROVE Dates'
  <2>0. /\ saves[t] + 1 \in Nat /\ page[t] \in SUBSET Xacts
        /\ Post(t, Inserts(page[t], "save", saves[t] + 1))
    BY <1>11, OfflineAssumption DEF Save, TypeOK
  <2>1. /\ saves[t] + 1 \in Nat /\ page[t] \in SUBSET Xacts
        /\ Post(t, Inserts(page[t], "save", saves[t] + 1))
        /\ t \in EntryTabs /\ MayAct(t) /\ UNCHANGED <<up, date, stored>>
        /\ StartSave(t, saves[t] + 1, FALSE)
    <3>1. t \in EntryTabs /\ MayAct(t)
      BY <1>11 DEF Save
    <3>2. UNCHANGED <<up, date, stored>>
      BY <1>11 DEF Save
    <3>3. StartSave(t, saves[t] + 1, FALSE)
      BY <1>11 DEF Save
    <3> QED  BY <2>0, <3>1, <3>2, <3>3
  <2>2. PICK rs \in Seq(ReqType) : Moved(t, 0, rs) /\ InsertsOf(rs, page[t], "save", saves[t] + 1)
    BY <2>1, InsertsPosted
  <2>3. \A i \in 1..Len(rs) : rs[i].op = "insert" /\ rs[i].st = "sent" /\ rs[i].job \notin {"nobody", "upload"}
    BY <2>2 DEF InsertsOf
  <2>4. \E d \in {0, 1} : d = 0
    OBVIOUS
  <2>5. ReqsDate' /\ AllApart' /\ DateFlag'
    BY <1>0, <1>e, <2>1, <2>2, <2>3, <2>4, DateInserts
  <2>6. \A u \in Uploads : UpDate(u)'
    BY <1>0, <1>e, <2>1, NoneBegun
  <2>7. SavesDate'
    <3>1. saving' = [saving EXCEPT ![t] = @ \cup {[k |-> saves[t] + 1, reload |-> FALSE, spoiled |-> FALSE]}]
      BY <2>1 DEF StartSave
    <3>2. \A o \in Tabs : \A s \in saving'[o] : s \in saving[o] \/ (~s.spoiled /\ ~s.reload)
      BY <3>1 DEF TypeOK
    <3> QED  BY <1>0, <2>1, <3>2 DEF SavesDate
  <2> QED  BY <2>5, <2>6, <2>7 DEF Dates
<1>12. ASSUME NEW t \in Tabs, Close(t) PROVE Dates'
  BY <1>0, <1>12 DEF Close
<1>13. ASSUME NEW t \in Tabs, Stay(t) PROVE Dates'
  BY <1>13, <1>d DEF Stay
<1>14. ASSUME NEW t \in Tabs, Look(t) PROVE Dates'
  <2>1. PICK rs \in Seq(ReqType) : Moved(t, 0, rs) /\ Len(rs) = 1 /\ IsShow(rs[1])
    BY <1>14, ShowPosted DEF Look
  <2>2. \E d \in {0, 1} : d = 0
    OBVIOUS
  <2>3. \A j \in 1..Len(rs) : IsShow(rs[j])
    BY <2>1
  <2> QED  BY <1>14, <1>c, <2>1, <2>2, <2>3 DEF Look
<1>g. ASSUME NEW t \in Tabs, NEW rs \in Seq(ReqType), Moved(t, 0, rs), Sole(rs, "wipe", None, "clear", None),
             UNCHANGED <<saving, date, stored>>, \A i \in DOMAIN mail[t] : mail[t][i].op # "insert",
             \A u \in Uploads : up'[u].pc \in Begun => up[u].pc \in Begun /\ up'[u].tab = up[u].tab
      PROVE  Dates'
  <2>1. \A j \in 1..Len(rs) : Timely(rs[j]) /\ rs[j].op = "wipe"
    BY <1>g DEF Sole, Timely
  <2>2. \E d \in {0, 1} : d = 0
    OBVIOUS
  <2>3. ReqsDate' /\ AllApart' /\ DateFlag'
    BY <1>0, <1>g, <2>1, <2>2, DateMoved
  <2>4. \A u \in Uploads : UpDate(u)'
    BY <1>0, <1>g, <2>1, <2>2, BegunStill
  <2> QED  BY <1>0, <1>g, <2>3, <2>4 DEF Dates, SavesDate
<1>15. ASSUME NEW t \in Tabs, ClearPending(t) PROVE Dates'
  <2>1. PICK rs \in Seq(ReqType) : Moved(t, 0, rs) /\ Sole(rs, "wipe", None, "clear", None)
    BY <1>15, SolePosted DEF ClearPending
  <2>2. \A i \in DOMAIN mail[t] : FALSE
    BY <1>15, BusyIs DEF ClearPending
  <2> QED  BY <1>15, <1>g, <2>1, <2>2 DEF ClearPending
<1>16. ASSUME NEW t \in Tabs, Export(t) PROVE Dates'
  BY <1>16, <1>d DEF Export
<1>17. ASSUME NEW t \in Tabs, Import(t) PROVE Dates'
  <2>1. /\ disk \in SUBSET Xacts /\ Post(t, Inserts(disk, "import", None)) /\ MayAct(t) /\ ~Busy(t)
        /\ UNCHANGED <<up, saving, date, stored>>
    BY <1>17 DEF Import, TypeOK
  <2>2. PICK rs \in Seq(ReqType) : Moved(t, 0, rs) /\ InsertsOf(rs, disk, "import", None)
    BY <2>1, InsertsPosted
  <2>3. \A i \in 1..Len(rs) : rs[i].op = "insert" /\ rs[i].st = "sent" /\ rs[i].job \notin {"nobody", "upload"}
    BY <2>2 DEF InsertsOf
  <2>4. \E d \in {0, 1} : d = 0
    OBVIOUS
  <2>5. ReqsDate' /\ AllApart' /\ DateFlag'
    BY <1>0, <1>e, <2>1, <2>2, <2>3, <2>4, DateInserts
  <2>6. \A u \in Uploads : UpDate(u)'
    BY <1>0, <1>e, <2>1, NoneBegun
  <2> QED  BY <1>a, <2>1, <2>5, <2>6
<1>18. ASSUME NEW t \in Tabs, NEW s \in Sessions, Select(t, s) PROVE Dates'
  BY <1>18, <1>d DEF Select
<1>19. ASSUME NEW t \in Tabs, NEW s \in Sessions, Process(t, s) PROVE Dates'
  BY <1>19, <1>d DEF Process
<1>20. ASSUME NEW t \in Tabs, NEW s \in Sessions, NEW u \in Uploads, AskUpload(t, u, s) PROVE Dates'
  <2>1. /\ up'[u].pc = "asked" /\ \A v \in Uploads \ {u} : up'[v] = up[v]
        /\ UNCHANGED <<mail, saving, date, stored>>
    BY <1>20, TypeUps DEF AskUpload
  <2>2. "asked" \notin Begun
    BY DEF Begun
  <2> QED  BY <1>d, <2>1, <2>2
<1>21. ASSUME NEW u \in Uploads, GotExceptions(u) PROVE Dates'
  <2>1. PICK t \in Tabs : t = up[u].tab
    BY <1>21 DEF GotExceptions, Alive, TypeOK
  <2>2. /\ UNCHANGED <<saving, date, stored>>
        /\ Post(t, <<Req("list", None, "upload", u)>>) /\ up' = [up EXCEPT ![u] = [@ EXCEPT !.pc = "blob"]]
    BY <1>21, <2>1 DEF GotExceptions
  <2>3. PICK rs \in Seq(ReqType) : Moved(t, 0, rs) /\ Sole(rs, "list", None, "upload", u)
    BY <2>2, SolePosted
  <2>4. \A v \in Uploads : up'[v].pc \in Begun => up[v].pc \in Begun /\ up'[v].tab = up[v].tab
    <3>1. up'[u].pc = "blob" /\ \A v \in Uploads \ {u} : up'[v] = up[v]
      <4>1. up'[u] = [up[u] EXCEPT !.pc = "blob"] /\ \A v \in Uploads \ {u} : up'[v] = up[v]
        BY <2>2, TypeUps
      <4> QED  BY <1>0a, <4>1 DEF UpType
    <3> QED  BY <3>1 DEF Begun
  <2>5. \A j \in 1..Len(rs) : rs[j].op = "list" /\ rs[j].st = "sent" /\ rs[j].op # "insert"
    BY <2>3 DEF Sole
  <2>6. \E d \in {0, 1} : d = 0
    OBVIOUS
  <2>7. ReqsDate' /\ AllApart' /\ DateFlag'
    BY <1>0, <2>2, <2>3, <2>5, <2>6, DateShown
  <2>8. \A v \in Uploads : UpDate(v)'
    BY <1>0, <2>3, <2>4, <2>5, <2>6, BegunStill
  <2> QED  BY <1>0, <2>2, <2>7, <2>8 DEF Dates, SavesDate
<1>22. ASSUME NEW u \in Uploads, LoadCheck(u) PROVE Dates'
  <2> DEFINE pc == IF scripts[up[u].to] > 0 \/ ended[up[u].to] THEN "refused" ELSE "append"
  <2>1. /\ up' = [up EXCEPT ![u] = [@ EXCEPT !.pc = pc]] /\ up[u].pc = "load"
        /\ UNCHANGED <<mail, saving, date, stored>>
    BY <1>22 DEF LoadCheck
  <2> HIDE DEF pc
  <2>2. up'[u] = [up[u] EXCEPT !.pc = pc] /\ \A v \in Uploads \ {u} : up'[v] = up[v]
    BY <2>1, TypeUps
  <2>3. up'[u].tab = up[u].tab
    BY <1>0a, <2>2 DEF UpType
  <2> QED  BY <1>d, <2>1, <2>2, <2>3 DEF Begun
<1>23. ASSUME NEW u \in Uploads, LoadAppend(u) PROVE Dates'
  <2>1. /\ up' = [up EXCEPT ![u] = [@ EXCEPT !.pc = "loaded"]] /\ up[u].pc = "append"
        /\ UNCHANGED <<mail, saving, date, stored>>
    BY <1>23 DEF LoadAppend
  <2>2. up'[u] = [up[u] EXCEPT !.pc = "loaded"] /\ \A v \in Uploads \ {u} : up'[v] = up[v]
    BY <2>1, TypeUps
  <2>3. up'[u].tab = up[u].tab
    BY <1>0a, <2>2 DEF UpType
  <2> QED  BY <1>d, <2>1, <2>2, <2>3 DEF Begun
<1>h. \A u \in Uploads : up' = [up EXCEPT ![u] = Finished] =>
         \A v \in Uploads : up'[v].pc \in Begun => up[v].pc \in Begun /\ up'[v].tab = up[v].tab
  <2> SUFFICES ASSUME NEW u \in Uploads, up' = [up EXCEPT ![u] = Finished], NEW v \in Uploads
               PROVE  up'[v] = up[v] \/ up'[v].pc \notin Begun
    OBVIOUS
  <2> QED  BY <1>0a, TypeUps
<1>24. ASSUME NEW u \in Uploads, Loaded(u) PROVE Dates'
  <2>1. up' = [up EXCEPT ![u] = Finished] /\ up[u].pc = "loaded" /\ UNCHANGED <<saving, date, stored>>
    BY <1>24 DEF Loaded
  <2>2. Alive(u) /\ \A i \in DOMAIN mail[up[u].tab] : mail[up[u].tab][i].op # "insert"
    BY <1>0, <2>1 DEF UpDate, Begun
  <2>3. PICK t \in Tabs : t = up[u].tab
    BY <1>0a, <2>2 DEF Alive
  <2>4. PICK rs \in Seq(ReqType) : Moved(t, 0, rs) /\ Sole(rs, "wipe", None, "clear", None)
    BY <1>24, <2>2, <2>3, SolePosted DEF Loaded
  <2> QED  BY <1>g, <1>h, <2>1, <2>2, <2>3, <2>4
<1>25. ASSUME NEW u \in Uploads, NotLoaded(u) PROVE Dates'
  BY <1>25, <1>d, <1>h DEF NotLoaded
<1>26. ASSUME NEW s \in Sessions, ChildRuns(s) PROVE Dates'
  BY <1>26, <1>d DEF ChildRuns
<1> QED
  BY <1>1, <1>2, <1>3, <1>4, <1>5, <1>6, <1>7, <1>8, <1>9, <1>10, <1>11, <1>12, <1>13, <1>14,
     <1>15, <1>16, <1>17, <1>18, <1>19, <1>20, <1>21, <1>22, <1>23, <1>24, <1>25, <1>26
     DEF Next, Machine, Network, Staff

LEMMA DateStep ==
    ASSUME TypeOK, Known, OneBusy, DateTrue, Next
    PROVE  DateTrue'
<1>1. Dutiful' <=> Dutiful
  BY DEF Next, Dutiful, Hurries, MayClose, MayRefuse
<1> QED  BY <1>1, DateIs, DatesStep
-----------------------------------------------------------------------------
(* Orderly staff have each transaction run once.                           *)

Ordered == Orderly /\ imports = 0

Waiting == \A x \in InMail : Nowhere(x)
PagesWait == \A t \in Tabs : saving[t] = {} => \A x \in page[t] : x \notin InMail /\ Nowhere(x)
WipesAlone == WipeComes => \A u \in Uploads : ~Active(u)
UpRun(u) == Active(u) =>
    /\ Alive(u) /\ ~Processing
    /\ \A v \in Uploads : Active(v) => u = v
    /\ up[u].pc \in {"load", "append"} => \A x \in Xacts : up[u].blob[x] <= stored[x]
    /\ up[u].pc = "append" => scripts[up[u].to] = 0

Stock == \A x \in Xacts : stored[x] <= 1
Scripts == \A s \in Sessions :
    /\ scripts[s] <= 1 /\ Len(kids[s]) <= 1
    /\ kids[s] # <<>> => kids[s][1] = file[s] /\ ~ended[s]
Filed(s, x) ==
    /\ file[s][x] = 1 /\ scripts[s] = 1
    /\ \A r \in Sessions : file[r][x] > 0 => r = s
Clearing == WipeComes \/ \E u \in Uploads : up[u].pc = "loaded"
Files == \A s \in Sessions : \A x \in Xacts : file[s][x] > 0 => Filed(s, x) /\ (stored[x] > 0 => Clearing)
RanOnce == \A x \in Xacts : ran[x] <= 1 /\ (ran[x] > 0 => \E s \in Sessions : ended[s] /\ file[s][x] > 0)
Once == Stock /\ Scripts /\ Files /\ RanOnce

Distinct == \A t, o \in Tabs : \A i \in DOMAIN mail[t] : \A j \in DOMAIN mail[o] :
    ToInsert(mail[t][i]) /\ ToInsert(mail[o][j]) /\ mail[t][i].x = mail[o][j].x => t = o /\ i = j
Forms == \A t \in Tabs : \A i \in DOMAIN mail[t] : mail[t][i].job = "register" =>
    saving[t] = {} /\ \A j \in DOMAIN mail[t] : mail[t][j].job = "register" => j = i
Granted(r) == r.st # "err" /\ (r.job = "upload" /\ r.st = "ok" => \A x \in Xacts : r.got[x] <= stored[x])
AllGranted == \A t \in Tabs : \A i \in DOMAIN mail[t] : Granted(mail[t][i])

Runs == /\ Waiting /\ PagesWait /\ WipesAlone /\ (\A u \in Uploads : UpRun(u)) /\ Once
        /\ Distinct /\ Forms /\ AllGranted

LEMMA RunIs ==
    /\ RunTrue <=> (Ordered => Runs)
    /\ RunTrue' <=> (Ordered' => Runs')
BY DEF RunTrue, Ordered, Runs, Waiting, PagesWait, WipesAlone, UpRun, Once, Stock, Scripts, Files, Filed, Clearing,
       RanOnce, Distinct, Forms, AllGranted, Granted

\* The tab that sends is the only one that could have an upload or a wipe.
LEMMA NoneActive ==
    ASSUME TypeOK, Known, Ordered, NEW t \in SessionTabs, MayAct(t), ~Busy(t), \A u \in Uploads : UpRun(u)
    PROVE  ~WipeComes /\ (\A u \in Uploads : ~Active(u)) /\ ~Processing
<1>0. t \in Tabs /\ EntryTabs \cap SessionTabs = {}
  BY OfflineAssumption DEF Tabs
<1>1. \A o \in SessionTabs : o # t => ~Busy(o)
  <2>1. CASE "tabs" \in Hurries
    BY <2>1 DEF Ordered, Orderly
  <2>2. CASE "tabs" \notin Hurries
    BY <2>2 DEF MayAct, Tabs
  <2> QED  BY <2>1, <2>2
<1>2. \A o \in SessionTabs : ~Busy(o)
  BY <1>1
<1>3. ASSUME NEW u \in Uploads, Active(u) PROVE FALSE
  <2>1. Alive(u) /\ up[u].tab \in Tabs \cup {None} /\ WellUp(up[u])
    BY <1>3, TypeUps, UpsAre DEF UpRun, Known
  <2>2. up[u].tab \in SessionTabs /\ Busy(up[u].tab)
    BY <1>3, <2>1, BusyIs DEF WellUp, Alive, Active
  <2> QED  BY <1>2, <2>2
<1>4. ASSUME NEW o \in Tabs, NEW i \in DOMAIN mail[o], ToWipe(mail[o][i]) PROVE FALSE
  <2>1. o \in SessionTabs /\ Busy(o)
    BY <1>4, BusyIs DEF Known, Wellmade, ToWipe
  <2> QED  BY <1>2, <2>1
<1>5. ~Processing
  BY DEF MayAct, Ordered, Orderly
<1> QED  BY <1>3, <1>4, <1>5 DEF WipeComes

\* A step that leaves store and server alone: new inserts are of what is nowhere yet.
LEMMA RunKept ==
    ASSUME Waiting, PagesWait, Once, UNCHANGED <<stored, file, scripts, kids, ended, ran>>,
           NEW N, \A x \in N : Nowhere(x), InMail' \subseteq InMail \cup N,
           \A t \in Tabs : saving'[t] = {} => \A x \in page'[t] :
              \/ saving[t] = {} /\ x \in page[t] /\ x \notin N
              \/ x \notin InMail' /\ Nowhere(x),
           Clearing => Clearing'
    PROVE  Waiting' /\ PagesWait' /\ Once'
<1>1. \A x : Nowhere(x) => Nowhere(x)'
  BY DEF Nowhere
<1>2. Waiting'
  BY <1>1 DEF Waiting
<1>3. PagesWait'
  BY <1>1 DEF PagesWait
<1>4. Once'
  BY DEF Once, Stock, Scripts, Files, Filed, RanOnce
<1> QED  BY <1>2, <1>3, <1>4

\* The queue moves on; new inserts are of other transactions.
LEMMA RunMoved ==
    ASSUME TypeOK, Known, Distinct, AllGranted, stored' = stored,
           NEW t \in Tabs, NEW d \in {0, 1}, NEW rs \in Seq(ReqType), Moved(t, d, rs),
           d = 1 => 1 \in DOMAIN mail[t] /\ mail[t][1].st # "sent",
           \A j \in 1..Len(rs) : rs[j].st = "sent" /\ (rs[j].op = "insert" => rs[j].x \notin InMail),
           \A i, j \in 1..Len(rs) : rs[i].op = "insert" /\ rs[j].op = "insert" /\ rs[i].x = rs[j].x => i = j
    PROVE  /\ Distinct' /\ AllGranted' /\ InMail' = InMail \cup Those(rs)
           /\ WipeComes' => WipeComes \/ \E j \in 1..Len(rs) : rs[j].op = "wipe"
           /\ WipeComes => WipeComes'
           /\ \A j \in 1..Len(rs) : rs[j].op = "wipe" => WipeComes'
<1>1. /\ \A o \in Tabs : \A i \in DOMAIN mail'[o] :
            \/ \E j \in DOMAIN mail[o] : /\ mail'[o][i] = mail[o][j]
                                         /\ j = IF o = t THEN i + d ELSE i
            \/ o = t /\ \E j \in 1..Len(rs) : mail'[o][i] = rs[j] /\ i = Len(mail[t]) - d + j
      /\ \A o \in Tabs : \A j \in DOMAIN mail[o] :
            (o = t => d < j) => \E i \in DOMAIN mail'[o] : mail'[o][i] = mail[o][j]
      /\ \A j \in 1..Len(rs) : \E i \in DOMAIN mail'[t] : mail'[t][i] = rs[j]
  <2>1. Flows(t, d, rs)
    BY TypeMails, MovedFlow
  <2> QED  BY <2>1 DEF Flows
<1>2. /\ \A o \in Tabs : Len(mail[o]) \in Nat /\ DOMAIN mail[o] = 1..Len(mail[o])
      /\ \A o \in Tabs : Len(mail'[o]) \in Nat /\ DOMAIN mail'[o] = 1..Len(mail'[o])
      /\ Len(rs) \in Nat
  BY TypeMails, MailType, LenProperties DEF Moved, Mails
<1>3. InMail' = InMail \cup Those(rs)
  BY MovedInMail
<1>4. AllGranted'
  BY <1>1 DEF AllGranted, Granted
<1>5. \A o \in Tabs : \A i \in DOMAIN mail[o] : ToInsert(mail[o][i]) => mail[o][i].x \in InMail
  BY HeadOf DEF InMail, ToInsert
<1>6. ASSUME NEW o \in Tabs, NEW p \in Tabs, NEW i \in DOMAIN mail'[o], NEW j \in DOMAIN mail'[p],
             ToInsert(mail'[o][i]), ToInsert(mail'[p][j]), mail'[o][i].x = mail'[p][j].x
      PROVE  o = p /\ i = j
  <2>1. CASE /\ \E k \in DOMAIN mail[o] : mail'[o][i] = mail[o][k] /\ k = IF o = t THEN i + d ELSE i
             /\ \E k \in DOMAIN mail[p] : mail'[p][j] = mail[p][k] /\ k = IF p = t THEN j + d ELSE j
    <3>1. PICK k \in DOMAIN mail[o] : mail'[o][i] = mail[o][k] /\ k = IF o = t THEN i + d ELSE i
      BY <2>1
    <3>2. PICK l \in DOMAIN mail[p] : mail'[p][j] = mail[p][l] /\ l = IF p = t THEN j + d ELSE j
      BY <2>1
    <3>3. o = p /\ k = l
      BY <1>6, <3>1, <3>2 DEF Distinct
    <3> QED  BY <1>2, <3>1, <3>2, <3>3
  <2>2. CASE /\ \E k \in DOMAIN mail[o] : mail'[o][i] = mail[o][k]
             /\ \E k \in 1..Len(rs) : mail'[p][j] = rs[k]
    BY <1>5, <1>6, <2>2 DEF ToInsert
  <2>3. CASE /\ \E k \in 1..Len(rs) : mail'[o][i] = rs[k]
             /\ \E k \in DOMAIN mail[p] : mail'[p][j] = mail[p][k]
    BY <1>5, <1>6, <2>3 DEF ToInsert
  <2>4. CASE /\ o = t /\ \E k \in 1..Len(rs) : mail'[o][i] = rs[k] /\ i = Len(mail[t]) - d + k
             /\ p = t /\ \E k \in 1..Len(rs) : mail'[p][j] = rs[k] /\ j = Len(mail[t]) - d + k
    BY <1>6, <2>4 DEF ToInsert
  <2> QED  BY <1>1, <2>1, <2>2, <2>3, <2>4
<1>7. Distinct'
  BY <1>6 DEF Distinct, ToInsert
<1>8. WipeComes' => WipeComes \/ \E j \in 1..Len(rs) : rs[j].op = "wipe"
  BY <1>1 DEF WipeComes, ToWipe
<1>9. ASSUME WipeComes PROVE WipeComes'
  <2>1. PICK o \in Tabs : \E j \in DOMAIN mail[o] : ToWipe(mail[o][j])
    BY <1>9 DEF WipeComes
  <2>2. PICK j \in DOMAIN mail[o] : ToWipe(mail[o][j])
    BY <2>1
  <2>3. o = t => d < j
    BY <1>2, <2>2 DEF ToWipe
  <2> QED  BY <1>1, <2>2, <2>3 DEF WipeComes, ToWipe
<1>10. \A j \in 1..Len(rs) : rs[j].op = "wipe" => WipeComes'
  BY <1>1 DEF WipeComes, ToWipe
<1> QED  BY <1>3, <1>4, <1>7, <1>8, <1>9, <1>10

\* No registration begins.
LEMMA FormsMoved ==
    ASSUME TypeOK, Forms, NEW t \in Tabs, NEW d \in {0, 1}, NEW rs \in Seq(ReqType), Moved(t, d, rs),
           \A j \in 1..Len(rs) : rs[j].job # "register",
           \A o \in Tabs : saving[o] = {} => saving'[o] = {}
    PROVE  Forms'
<1>1. \A o \in Tabs : \A i \in DOMAIN mail'[o] :
         \/ \E j \in DOMAIN mail[o] : /\ mail'[o][i] = mail[o][j]
                                      /\ j = IF o = t THEN i + d ELSE i
         \/ o = t /\ \E j \in 1..Len(rs) : mail'[o][i] = rs[j]
  <2>1. Flows(t, d, rs)
    BY TypeMails, MovedFlow
  <2> QED  BY <2>1 DEF Flows
<1>2. \A o \in Tabs : Len(mail'[o]) \in Nat /\ DOMAIN mail'[o] = 1..Len(mail'[o])
  BY LenProperties DEF Moved, Mails
<1>3. \A o \in Tabs : \A i \in DOMAIN mail'[o] : mail'[o][i].job = "register" =>
         \E j \in DOMAIN mail[o] : mail'[o][i] = mail[o][j] /\ j = IF o = t THEN i + d ELSE i
  BY <1>1
<1> SUFFICES ASSUME NEW o \in Tabs, NEW i \in DOMAIN mail'[o], mail'[o][i].job = "register"
             PROVE  saving'[o] = {} /\ \A j \in DOMAIN mail'[o] : mail'[o][j].job = "register" => j = i
  BY DEF Forms
<1>4. PICK k \in DOMAIN mail[o] : mail'[o][i] = mail[o][k] /\ k = IF o = t THEN i + d ELSE i
  BY <1>3
<1>5. saving[o] = {} /\ \A l \in DOMAIN mail[o] : mail[o][l].job = "register" => l = k
  BY <1>4 DEF Forms
<1>6. ASSUME NEW j \in DOMAIN mail'[o], mail'[o][j].job = "register" PROVE j = i
  <2>1. PICK l \in DOMAIN mail[o] : mail'[o][j] = mail[o][l] /\ l = IF o = t THEN j + d ELSE j
    BY <1>3, <1>6
  <2>2. l = k
    BY <1>5, <1>6, <2>1
  <2> QED  BY <1>2, <1>4, <2>1, <2>2
<1> QED  BY <1>5, <1>6

\* What is left of the tab's queue is not for a registration.
LEMMA FormsAnew ==
    ASSUME TypeOK, Forms, NEW t \in Tabs, NEW d \in {0, 1}, NEW rs \in Seq(ReqType), Moved(t, d, rs),
           \A i \in DOMAIN mail[t] : d < i => mail[t][i].job # "register",
           \A j \in 1..Len(rs) : rs[j].job = "register" => Len(rs) = 1 /\ saving'[t] = {},
           \A o \in Tabs \ {t} : saving'[o] = saving[o]
    PROVE  Forms'
<1>1. \A o \in Tabs : \A i \in DOMAIN mail'[o] :
         \/ \E j \in DOMAIN mail[o] : /\ mail'[o][i] = mail[o][j]
                                      /\ j = IF o = t THEN i + d ELSE i
         \/ o = t /\ \E j \in 1..Len(rs) : mail'[o][i] = rs[j] /\ i = Len(mail[t]) - d + j
  <2>1. mail \in Mails /\ d \in Nat
    BY TypeMails
  <2>2. Flows(t, d, rs)
    BY <2>1, MovedFlow
  <2> QED  BY <2>2 DEF Flows
<1>2. /\ \A o \in Tabs : Len(mail'[o]) \in Nat /\ DOMAIN mail'[o] = 1..Len(mail'[o])
      /\ \A o \in Tabs : Len(mail[o]) \in Nat /\ DOMAIN mail[o] = 1..Len(mail[o])
  BY TypeMails, MailType, LenProperties DEF Moved, Mails
<1> SUFFICES ASSUME NEW o \in Tabs, NEW i \in DOMAIN mail'[o], mail'[o][i].job = "register"
             PROVE  saving'[o] = {} /\ \A j \in DOMAIN mail'[o] : mail'[o][j].job = "register" => j = i
  BY DEF Forms
<1>3. CASE o # t
  <2>1. mail'[o] = mail[o] /\ saving'[o] = saving[o]
    BY <1>3 DEF Moved
  <2> QED  BY <2>1 DEF Forms
<1>4. CASE o = t
  <2>1. \A j \in DOMAIN mail'[t] : mail'[t][j].job = "register" =>
           \E k \in 1..Len(rs) : mail'[t][j] = rs[k] /\ j = Len(mail[t]) - d + k
    <3>1. \A j \in DOMAIN mail'[t] : d < j + d
      BY <1>2
    <3> QED  BY <1>1, <3>1
  <2>2. Len(rs) = 1 /\ saving'[t] = {}
    <3>1. \E k \in 1..Len(rs) : rs[k].job = "register"
      BY <1>4, <2>1
    <3> QED  BY <3>1
  <2>3. \A j \in DOMAIN mail'[t] : mail'[t][j].job = "register" => j = Len(mail[t]) - d + 1
    BY <2>1, <2>2
  <2> QED  BY <1>4, <2>2, <2>3
<1> QED  BY <1>3, <1>4

\* A registration's save ends.
LEMMA RunReload ==
    ASSUME TypeOK, Known, Runs, NEW t \in EntryTabs, Reload(t),
           UNCHANGED <<stored, file, scripts, kids, ended, ran>>
    PROVE  Runs'
<1>0. t \in Tabs /\ EntryTabs \cap SessionTabs = {}
  BY OfflineAssumption DEF Tabs
<1>1. PICK d \in 0..Len(mail[t]) : Renewed(t, d)
  BY <1>0, TypeMails, ReloadIs
<1>2. /\ \A o \in Tabs : o # t => mail'[o] = mail[o]
      /\ \A i \in DOMAIN mail'[t] :
            \/ /\ mail'[t][i].op = "list" /\ mail'[t][i].job = "show" /\ mail'[t][i].st = "sent"
            \/ \E j \in DOMAIN mail[t] :
                  /\ j = i + d /\ mail'[t][i].job = "nobody"
                  /\ mail'[t][i].op = mail[t][j].op /\ mail'[t][i].x = mail[t][j].x
                  /\ mail'[t][i].st = mail[t][j].st
      /\ \A j \in DOMAIN mail[t] : mail[t][j].st = "sent" =>
            \E i \in DOMAIN mail'[t] : mail'[t][i].op = mail[t][j].op /\ mail'[t][i].st = mail[t][j].st
  BY <1>0, <1>1, TypeMails, RenewedFlow
<1>3. /\ \A o \in Tabs : Len(mail[o]) \in Nat /\ DOMAIN mail[o] = 1..Len(mail[o])
      /\ Len(mail'[t]) \in Nat /\ DOMAIN mail'[t] = 1..Len(mail'[t])
  BY <1>0, <1>1, TypeMails, MailType, LenProperties DEF Renewed, Mails
<1>4. InMail' = InMail /\ (WipeComes' => WipeComes)
  BY <1>0, ReloadCalm DEF Steady
<1>5. up' = up
  <2>1. \A u \in Uploads : up[u].tab # t
    <3>1. t # None
      BY <1>0, OfflineAssumption
    <3> QED  BY <1>0, <3>1 DEF Known, WellUp
  <2>2. up' = [u \in Uploads |-> IF up[u].tab = t THEN [up[u] EXCEPT !.tab = None] ELSE up[u]]
    BY DEF Reload
  <2> QED  BY <2>1, <2>2, TypeUps
<1>6. ASSUME WipeComes PROVE WipeComes'
  <2>1. PICK o \in Tabs : \E j \in DOMAIN mail[o] : ToWipe(mail[o][j])
    BY <1>6 DEF WipeComes
  <2>2. PICK j \in DOMAIN mail[o] : ToWipe(mail[o][j])
    BY <2>1
  <2> QED  BY <1>2, <2>2 DEF WipeComes, ToWipe
<1>7. Clearing => Clearing'
  BY <1>5, <1>6 DEF Clearing
<1>8. \A o \in Tabs : saving'[o] = {} => \A x \in page'[o] : saving[o] = {} /\ x \in page[o]
  <2>1. /\ page'[t] = {} /\ \A o \in Tabs \ {t} : page'[o] = page[o] /\ saving'[o] = saving[o]
    BY <1>0 DEF Reload, TypeOK
  <2> QED  BY <2>1
<1>9. Waiting' /\ PagesWait' /\ Once'
  <2>1. \E N : N = {}
    OBVIOUS
  <2> QED  BY <1>4, <1>7, <1>8, <2>1, RunKept DEF Runs
<1>10. WipesAlone' /\ \A u \in Uploads : UpRun(u)'
  BY <1>4, <1>5 DEF Runs, WipesAlone, UpRun, Active, Alive, Processing
<1>11. Distinct'
  <2> SUFFICES ASSUME NEW o \in Tabs, NEW p \in Tabs, NEW i \in DOMAIN mail'[o], NEW j \in DOMAIN mail'[p],
                      ToInsert(mail'[o][i]), ToInsert(mail'[p][j]), mail'[o][i].x = mail'[p][j].x
               PROVE  o = p /\ i = j
    BY DEF Distinct, ToInsert
  <2>1. PICK k \in DOMAIN mail[o] : /\ ToInsert(mail[o][k]) /\ mail'[o][i].x = mail[o][k].x
                                    /\ k = IF o = t THEN i + d ELSE i
    BY <1>2 DEF ToInsert
  <2>2. PICK l \in DOMAIN mail[p] : /\ ToInsert(mail[p][l]) /\ mail'[p][j].x = mail[p][l].x
                                    /\ l = IF p = t THEN j + d ELSE j
    BY <1>2 DEF ToInsert
  <2>3. o = p /\ k = l
    <3>1. mail[o][k].x = mail[p][l].x /\ ToInsert(mail[o][k]) /\ ToInsert(mail[p][l])
      BY <2>1, <2>2
    <3>2. Distinct
      BY DEF Runs
    <3> QED  BY <3>1, <3>2 DEF Distinct
  <2>4. CASE o = t
    <3>1. i \in Nat /\ j \in Nat /\ d \in Nat
      BY <1>3, <2>3, <2>4
    <3> QED  BY <2>1, <2>2, <2>3, <2>4, <3>1
  <2>5. CASE o # t
    BY <2>1, <2>2, <2>3, <2>5
  <2> QED  BY <2>4, <2>5
<1>12. Forms'
  <2>1. \A i \in DOMAIN mail'[t] : mail'[t][i].job # "register"
    BY <1>2
  <2>2. \A o \in Tabs \ {t} : saving'[o] = saving[o]
    BY DEF Reload, TypeOK
  <2> QED  BY <1>2, <2>1, <2>2 DEF Runs, Forms
<1>13. AllGranted'
  BY <1>2 DEF Runs, AllGranted, Granted
<1> QED  BY <1>9, <1>10, <1>11, <1>12, <1>13 DEF Runs

\* The worker carries out one request.
LEMMA RunServed ==
    ASSUME TypeOK, Known, Ordered, Runs, NEW t \in Tabs, Work(t)
    PROVE  Runs'
<1>0. /\ UNCHANGED <<up, saving, page, file, scripts, kids, ended, ran>> /\ ~MayRefuse
      /\ stored \in Rows
  BY DEF Work, serverVars, Ordered, Orderly, TypeOK
<1>1. PICK i \in 1..Len(mail[t]) : Served(t, i)
  BY TypeMails, WorkIs
<1> DEFINE r == mail[t][i]
           n == mail'[t][i]
<1>2. /\ \A o \in Tabs : DOMAIN mail'[o] = DOMAIN mail[o]
      /\ \A o \in Tabs : \A j \in DOMAIN mail[o] :
            /\ mail'[o][j].op = mail[o][j].op /\ mail'[o][j].job = mail[o][j].job
            /\ mail'[o][j].x = mail[o][j].x
            /\ o # t \/ j # i => mail'[o][j] = mail[o][j]
      /\ i \in DOMAIN mail[t] /\ r.st = "sent" /\ n.st # "sent"
  BY <1>1, TypeMails, ServedFlow
<1>3. /\ Perform(r) /\ n.st = "ok" /\ n.op = r.op /\ n.job = r.job
      /\ n.got = IF r.job \in {"show", "upload"} THEN stored ELSE NoRows
  BY <1>0, <1>1 DEF Served
<1>4. /\ InMail' \subseteq InMail
      /\ r.op = "insert" => r.x \in Xacts /\ r.x \in InMail
      /\ WipeComes' => WipeComes
      /\ r.op = "wipe" => WipeComes
      /\ r.op = "wipe" => r.job # "upload"
      /\ r.op \in {"insert", "wipe", "date", "undate", "list"}
  BY <1>1, <1>2, ServedInMail, HeadOf DEF Wellmade, ReqType
<1>5. Distinct'
  <2>1. \A o \in Tabs : \A j \in DOMAIN mail'[o] : mail'[o][j].st = "sent" =>
           j \in DOMAIN mail[o] /\ mail'[o][j] = mail[o][j]
    BY <1>2
  <2> QED  BY <2>1 DEF Runs, Distinct, ToInsert
<1>6. Forms'
  BY <1>0, <1>2 DEF Runs, Forms
<1>7. r.op # "wipe" /\ WipeComes => WipeComes'
  <2>1. \A o \in Tabs : \A j \in DOMAIN mail[o] : r.op # "wipe" /\ ToWipe(mail[o][j]) =>
           j \in DOMAIN mail'[o] /\ mail'[o][j] = mail[o][j]
    BY <1>2 DEF ToWipe
  <2> QED  BY <2>1 DEF WipeComes, ToWipe
<1>8. WipesAlone'
  BY <1>0, <1>4 DEF Runs, WipesAlone, Active
<1>9. \A o \in Tabs : \A j \in DOMAIN mail'[o] :
         j \in DOMAIN mail[o] /\ ((o = t /\ j = i) \/ mail'[o][j] = mail[o][j])
  BY <1>2
<1>10. Scripts' /\ RanOnce'
  BY <1>0 DEF Runs, Once, Scripts, RanOnce
<1>11. \A o \in Tabs : page[o] \subseteq Xacts
  BY DEF TypeOK
<1>12. \A o \in Tabs : \A j \in DOMAIN mail[o] : ToInsert(mail[o][j]) /\ mail[o][j].x = r.x /\ r.op = "insert" =>
          o = t /\ j = i
  BY <1>2 DEF Runs, Distinct, ToInsert
<1> HIDE DEF r, n
<1>13. CASE r.op = "insert"
  <2>1. PICK x \in Xacts : x = r.x /\ x \in InMail
    BY <1>4, <1>13
  <2>2. stored' = [stored EXCEPT ![x] = @ + 1]
    BY <1>3, <1>13, <2>1 DEF Perform
  <2>3. Nowhere(x)
    BY <2>1 DEF Runs, Waiting
  <2>4. /\ stored[x] = 0 /\ stored'[x] = 1 /\ \A y \in Xacts : y # x => stored'[y] = stored[y]
        /\ \A s \in Sessions : file[s][x] = 0
        /\ \A y \in Xacts : stored[y] <= stored'[y] /\ stored[y] \in Nat /\ stored'[y] \in Nat
    <3>1. stored[x] = 0 /\ \A s \in Sessions : file[s][x] = 0
      BY <2>3 DEF Nowhere
    <3>2. stored'[x] = 1 /\ \A y \in Xacts : y # x => stored'[y] = stored[y]
      BY <1>0, <2>1, <2>2, <3>1 DEF Rows
    <3>3. \A y \in Xacts : stored[y] \in Nat
      BY <1>0 DEF Rows
    <3> QED  BY <3>1, <3>2, <3>3
  <2>5. x \notin InMail'
    <3> SUFFICES ASSUME x \in InMail' PROVE FALSE
      OBVIOUS
    <3>1. PICK o \in Tabs : \E j \in DOMAIN mail'[o] :
             mail'[o][j].op = "insert" /\ mail'[o][j].x = x /\ mail'[o][j].st = "sent"
      BY DEF InMail
    <3>2. PICK j \in DOMAIN mail'[o] :
             mail'[o][j].op = "insert" /\ mail'[o][j].x = x /\ mail'[o][j].st = "sent"
      BY <3>1
    <3>3. j \in DOMAIN mail[o] /\ mail'[o][j] = mail[o][j] /\ ~(o = t /\ j = i)
      BY <1>3, <1>9, <3>2 DEF n
    <3> QED  BY <1>12, <1>13, <2>1, <3>2, <3>3 DEF ToInsert
  <2>6. \A y \in Xacts : y # x /\ Nowhere(y) => Nowhere(y)'
    BY <1>0, <2>4 DEF Nowhere
  <2>7. Waiting'
    <3>1. \A y \in InMail' : y \in Xacts /\ y \in InMail /\ y # x
      BY <1>4, <2>5 DEF InMail
    <3> QED  BY <2>6, <3>1 DEF Runs, Waiting
  <2>8. PagesWait'
    <3>1. \A o \in Tabs : saving[o] = {} => \A y \in page[o] : y # x /\ y \in Xacts /\ y \notin InMail /\ Nowhere(y)
      BY <1>11, <2>1 DEF Runs, PagesWait
    <3> QED  BY <1>0, <1>4, <2>6, <3>1 DEF PagesWait
  <2>9. Stock'
    BY <2>4 DEF Runs, Once, Stock
  <2>10. Files'
    <3>1. Clearing => Clearing'
      BY <1>0, <1>7, <1>13 DEF Clearing
    <3>2. \A s \in Sessions : \A y \in Xacts : file[s][y] > 0 => y # x /\ stored'[y] = stored[y]
      BY <2>4
    <3> QED  BY <1>0, <3>1, <3>2 DEF Runs, Once, Files, Filed
  <2>11. \A u \in Uploads : UpRun(u)'
    <3> SUFFICES ASSUME NEW u \in Uploads PROVE UpRun(u)'
      OBVIOUS
    <3>1. UpRun(u)
      BY DEF Runs
    <3>2. \A y \in Xacts : up[u].blob[y] <= stored[y] => up[u].blob[y] <= stored'[y]
      <4>1. \A y \in Xacts : up[u].blob[y] \in Nat
        BY TypeUps, UpsAre DEF Rows
      <4> QED  BY <2>4, <4>1
    <3> QED  BY <1>0, <3>1, <3>2 DEF UpRun, Active, Alive, Processing
  <2>12. AllGranted'
    <3> SUFFICES ASSUME NEW o \in Tabs, NEW j \in DOMAIN mail'[o] PROVE Granted(mail[o][j])'
      BY DEF AllGranted
    <3>1. Granted(mail[o][j]) /\ j \in DOMAIN mail[o]
      BY <1>9 DEF Runs, AllGranted
    <3>2. mail[o][j].got \in Rows
      BY <3>1, HeadOf
    <3>3. CASE mail'[o][j] = mail[o][j]
      <4>1. \A y \in Xacts : mail[o][j].got[y] \in Nat
        BY <3>2 DEF Rows
      <4> QED  BY <2>4, <3>1, <3>3, <4>1 DEF Granted
    <3>4. CASE o = t /\ j = i
      BY <1>3, <2>4, <3>4 DEF Granted, n
    <3> QED  BY <1>9, <3>3, <3>4
  <2> QED  BY <1>5, <1>6, <1>8, <1>10, <2>7, <2>8, <2>9, <2>10, <2>11, <2>12 DEF Runs, Once
<1>14. CASE r.op = "wipe"
  <2>1. stored' = NoRows
    BY <1>3, <1>14 DEF Perform
  <2>2. /\ \A y \in Xacts : stored'[y] = 0
        /\ \A y \in Xacts : Nowhere(y) => Nowhere(y)'
    BY <1>0, <2>1 DEF NoRows, Nowhere
  <2>3. \A u \in Uploads : ~Active(u)
    BY <1>4, <1>14 DEF Runs, WipesAlone
  <2>4. Waiting'
    <3>1. \A y \in InMail' : y \in Xacts /\ y \in InMail
      BY <1>4 DEF InMail
    <3> QED  BY <2>2, <3>1 DEF Runs, Waiting
  <2>5. PagesWait'
    BY <1>0, <1>4, <1>11, <2>2 DEF Runs, PagesWait
  <2>6. Stock' /\ Files'
    BY <1>0, <2>2 DEF Runs, Once, Stock, Files, Filed
  <2>7. \A u \in Uploads : UpRun(u)'
    BY <1>0, <2>3 DEF UpRun, Active
  <2>8. AllGranted'
    <3> SUFFICES ASSUME NEW o \in Tabs, NEW j \in DOMAIN mail'[o] PROVE Granted(mail[o][j])'
      BY DEF AllGranted
    <3>1. Granted(mail[o][j]) /\ j \in DOMAIN mail[o]
      BY <1>9 DEF Runs, AllGranted
    <3>2. mail[o][j].job # "upload"
      BY <2>3, <3>1, HeadOf DEF Active
    <3>3. mail'[o][j].job # "upload" /\ mail'[o][j].st # "err"
      BY <1>3, <1>4, <1>9, <1>14, <3>1, <3>2 DEF Granted, n
    <3> QED  BY <3>3 DEF Granted
  <2> QED  BY <1>5, <1>6, <1>8, <1>10, <2>4, <2>5, <2>6, <2>7, <2>8 DEF Runs, Once
<1>15. CASE r.op \notin {"insert", "wipe"}
  <2>1. stored' = stored
    BY <1>3, <1>15 DEF Perform
  <2>2. Clearing => Clearing'
    BY <1>0, <1>7, <1>15 DEF Clearing
  <2>3. Waiting' /\ PagesWait' /\ Once'
    <3>1. \E N : N = {}
      OBVIOUS
    <3> QED  BY <1>0, <1>4, <2>1, <2>2, <3>1, RunKept DEF Runs
  <2>4. \A u \in Uploads : UpRun(u)'
    BY <1>0, <2>1 DEF Runs, UpRun, Active, Alive, Processing
  <2>5. AllGranted'
    <3> SUFFICES ASSUME NEW o \in Tabs, NEW j \in DOMAIN mail'[o] PROVE Granted(mail[o][j])'
      BY DEF AllGranted
    <3>1. Granted(mail[o][j]) /\ j \in DOMAIN mail[o]
      BY <1>9 DEF Runs, AllGranted
    <3>2. CASE mail'[o][j] = mail[o][j]
      BY <2>1, <3>1, <3>2 DEF Granted
    <3>3. CASE o = t /\ j = i
      <4>1. \A y \in Xacts : stored[y] <= stored'[y]
        BY <1>0, <2>1 DEF Rows
      <4> QED  BY <1>3, <3>3, <4>1 DEF Granted, n
    <3> QED  BY <1>9, <3>2, <3>3
  <2> QED  BY <1>5, <1>6, <1>8, <2>3, <2>4, <2>5 DEF Runs
<1> QED  BY <1>13, <1>14, <1>15

\* What a session has for its child: the file, once, as it has one script.
LEMMA RunProcess ==
    ASSUME TypeOK, Known, Ordered, Runs, NEW t \in Tabs, NEW s \in Sessions, Process(t, s)
    PROVE  Runs'
<1> DEFINE f == [x \in Xacts |-> scripts[s] * file[s][x]]
<1>1. /\ t \in SessionTabs /\ MayAct(t) /\ ~Busy(t) /\ scripts[s] > 0 /\ ~ended[s]
      /\ kids' = [kids EXCEPT ![s] = Append(@, f)]
  BY DEF Process
<1>2. UNCHANGED <<page, saving, mail, up, stored, file, scripts, ended, ran>>
  BY DEF Process, storeVars
<1>3. (\A u \in Uploads : ~Active(u)) /\ ~Processing
  BY <1>1, NoneActive DEF Runs
<1>4. f = file[s] /\ f \in Rows
  <2>1. scripts[s] = 1
    BY <1>1 DEF Runs, Once, Scripts, TypeOK
  <2>2. file[s] \in Rows
    BY DEF TypeOK
  <2> QED  BY <2>1, <2>2 DEF Rows
<1> HIDE DEF f
<1>5. /\ kids'[s] = Append(<<>>, f) /\ \A r \in Sessions \ {s} : kids'[r] = kids[r]
      /\ Len(kids'[s]) = 1 /\ kids'[s][1] = f
  <2>1. kids[s] = <<>>
    BY <1>3 DEF Processing
  <2>2. <<>> \in Seq(Rows) /\ Len(<<>>) = 0
    BY EmptySeq
  <2>3. kids'[s] = Append(<<>>, f) /\ \A r \in Sessions \ {s} : kids'[r] = kids[r]
    BY <1>1, <2>1 DEF TypeOK
  <2>4. Len(Append(<<>>, f)) = 1 /\ Append(<<>>, f)[1] = f
    BY <1>4, <2>2, AppendProperties
  <2> QED  BY <2>3, <2>4
<1>6. Scripts'
  <2> SUFFICES ASSUME NEW r \in Sessions
               PROVE  /\ scripts'[r] <= 1 /\ Len(kids'[r]) <= 1
                      /\ kids'[r] # <<>> => kids'[r][1] = file'[r] /\ ~ended'[r]
    BY DEF Scripts
  <2>1. CASE r = s
    BY <1>1, <1>2, <1>4, <1>5, <2>1 DEF Runs, Once, Scripts
  <2>2. CASE r # s
    BY <1>2, <1>5, <2>2 DEF Runs, Once, Scripts
  <2> QED  BY <2>1, <2>2
<1>7. InMail' = InMail /\ (\A x : Nowhere(x)' <=> Nowhere(x)) /\ (Clearing' <=> Clearing)
  BY <1>2 DEF InMail, Nowhere, Clearing, WipeComes
<1>8. Waiting' /\ PagesWait' /\ WipesAlone' /\ Stock' /\ RanOnce'
  BY <1>2, <1>3, <1>7 DEF Runs, Waiting, PagesWait, WipesAlone, Active, Once, Stock, RanOnce
<1>9. Files'
  BY <1>2, <1>7 DEF Runs, Once, Files, Filed
<1>10. Distinct' /\ Forms' /\ AllGranted'
  BY <1>2 DEF Runs, Distinct, Forms, AllGranted, Granted
<1>11. \A u \in Uploads : UpRun(u)'
  BY <1>2, <1>3 DEF UpRun, Active
<1> QED  BY <1>6, <1>8, <1>9, <1>10, <1>11 DEF Runs, Once

\* The child runs the file of its session, which then has ended.
LEMMA RunChild ==
    ASSUME TypeOK, Runs, NEW s \in Sessions, ChildRuns(s)
    PROVE  Runs'
<1>1. /\ kids[s] # <<>> /\ ran' = Sum2(ran, Head(kids[s]))
      /\ ended' = [ended EXCEPT ![s] = TRUE] /\ kids' = [kids EXCEPT ![s] = Tail(@)]
      /\ UNCHANGED <<page, saving, mail, up, stored, file, scripts>>
  BY DEF ChildRuns, tabVars, storeVars
<1>2. /\ kids[s] \in Seq(Rows) /\ Len(kids[s]) = 1 /\ Tail(kids[s]) = <<>> /\ Head(kids[s]) = file[s]
      /\ ~ended[s] /\ file[s] \in Rows /\ ran \in Rows
  <2>1. kids[s] \in Seq(Rows) /\ file[s] \in Rows /\ ran \in Rows
    BY DEF TypeOK
  <2>2. Len(kids[s]) <= 1 /\ kids[s][1] = file[s] /\ ~ended[s]
    BY <1>1 DEF Runs, Once, Scripts
  <2>3. Len(kids[s]) = 1
    <3>1. Len(kids[s]) \in Nat \ {0}
      BY <1>1, <2>1, EmptySeq
    <3>2. \A n \in Nat \ {0} : n <= 1 => n = 1
      OBVIOUS
    <3> QED  BY <2>2, <3>1, <3>2
  <2>4. Tail(kids[s]) \in Seq(Rows) /\ Len(Tail(kids[s])) = 0
    BY <1>1, <2>1, <2>3, HeadTailProperties
  <2>5. Tail(kids[s]) = <<>>
    BY <2>4, EmptySeq
  <2>6. Head(kids[s]) = kids[s][1]
    BY <2>1, <2>3
  <2> QED  BY <2>1, <2>2, <2>3, <2>5, <2>6
<1>3. /\ kids'[s] = <<>> /\ ended'[s] /\ \A r \in Sessions \ {s} : kids'[r] = kids[r] /\ ended'[r] = ended[r]
      /\ \A x \in Xacts : ran'[x] = ran[x] + file[s][x] /\ ran[x] \in Nat /\ file[s][x] \in Nat
  <2>1. kids'[s] = <<>> /\ ended'[s] /\ \A r \in Sessions \ {s} : kids'[r] = kids[r] /\ ended'[r] = ended[r]
    BY <1>1, <1>2 DEF TypeOK
  <2>2. \A x \in Xacts : ran'[x] = ran[x] + file[s][x] /\ ran[x] \in Nat /\ file[s][x] \in Nat
    BY <1>1, <1>2 DEF Sum2, Rows
  <2> QED  BY <2>1, <2>2
<1>4. \A u \in Uploads : ~Active(u)
  BY <1>1 DEF Runs, UpRun, Processing
<1>5. Scripts'
  <2> SUFFICES ASSUME NEW r \in Sessions
               PROVE  /\ scripts'[r] <= 1 /\ Len(kids'[r]) <= 1
                      /\ kids'[r] # <<>> => kids'[r][1] = file'[r] /\ ~ended'[r]
    BY DEF Scripts
  <2>1. CASE r = s
    <3>1. Len(<<>>) = 0
      BY EmptySeq
    <3> QED  BY <1>1, <1>3, <2>1, <3>1 DEF Runs, Once, Scripts
  <2>2. CASE r # s
    BY <1>1, <1>3, <2>2 DEF Runs, Once, Scripts
  <2> QED  BY <2>1, <2>2
<1>6. RanOnce'
  <2> SUFFICES ASSUME NEW x \in Xacts
               PROVE  ran'[x] <= 1 /\ (ran'[x] > 0 => \E r \in Sessions : ended'[r] /\ file'[r][x] > 0)
    BY DEF RanOnce
  <2>1. \A r \in Sessions : ended[r] => ended'[r]
    BY <1>2, <1>3
  <2>2. ran[x] <= 1 /\ (ran[x] > 0 => \E r \in Sessions : ended[r] /\ file[r][x] > 0)
    BY DEF Runs, Once, RanOnce
  <2>3. CASE file[s][x] = 0
    BY <1>1, <1>3, <2>1, <2>2, <2>3
  <2>4. CASE file[s][x] > 0
    <3>1. file[s][x] = 1 /\ \A r \in Sessions : file[r][x] > 0 => r = s
      BY <2>4 DEF Runs, Once, Files, Filed
    <3>2. ran[x] = 0
      BY <1>2, <1>3, <2>2, <3>1
    <3> QED  BY <1>1, <1>3, <2>4, <3>1, <3>2
  <2> QED  BY <1>3, <2>3, <2>4
<1>7. InMail' = InMail /\ (\A x : Nowhere(x)' <=> Nowhere(x)) /\ (Clearing' <=> Clearing)
  BY <1>1 DEF InMail, Nowhere, Clearing, WipeComes
<1>8. Waiting' /\ PagesWait' /\ WipesAlone' /\ Stock'
  BY <1>1, <1>4, <1>7 DEF Runs, Waiting, PagesWait, WipesAlone, Active, Once, Stock
<1>9. Files'
  BY <1>1, <1>7 DEF Runs, Once, Files, Filed
<1>10. Distinct' /\ Forms' /\ AllGranted'
  BY <1>1 DEF Runs, Distinct, Forms, AllGranted, Granted
<1>11. \A u \in Uploads : UpRun(u)'
  BY <1>1, <1>4 DEF UpRun, Active
<1> QED  BY <1>5, <1>6, <1>8, <1>9, <1>10, <1>11 DEF Runs, Once

\* The server takes the list: no session has any of it yet.
LEMMA RunAppend ==
    ASSUME TypeOK, Known, Runs, NEW u \in Uploads, LoadAppend(u)
    PROVE  Runs'
<1> DEFINE s == up[u].to
           blob == up[u].blob
<1>1. /\ up[u].pc = "append" /\ file' = [file EXCEPT ![s] = Sum2(@, blob)]
      /\ scripts' = [scripts EXCEPT ![s] = @ + 1] /\ up' = [up EXCEPT ![u] = [@ EXCEPT !.pc = "loaded"]]
      /\ UNCHANGED <<page, saving, mail, stored, kids, ended, ran>>
  BY DEF LoadAppend, storeVars
<1>2. /\ Active(u) /\ Alive(u) /\ ~Processing /\ scripts[s] = 0
      /\ \A v \in Uploads : v # u => ~Active(v)
      /\ \A x \in Xacts : blob[x] <= stored[x]
  BY <1>1 DEF Runs, UpRun, Active
<1>3. s \in Sessions /\ blob \in Rows /\ file[s] \in Rows /\ stored \in Rows /\ up[u] \in UpType
  BY <1>1, TypeUps, UpsAre DEF Known, WellUp, Begun, TypeOK
<1>4. ~WipeComes /\ ~Clearing
  <2>1. ~WipeComes
    BY <1>2 DEF Runs, WipesAlone
  <2>2. \A v \in Uploads : up[v].pc # "loaded"
    BY <1>1, <1>2 DEF Active
  <2> QED  BY <2>1, <2>2 DEF Clearing
<1> HIDE DEF s, blob
<1>5. /\ up'[u].pc = "loaded" /\ up'[u].tab = up[u].tab /\ \A v \in Uploads \ {u} : up'[v] = up[v]
  <2>1. up'[u] = [up[u] EXCEPT !.pc = "loaded"] /\ \A v \in Uploads \ {u} : up'[v] = up[v]
    BY <1>1, TypeUps
  <2> QED  BY <1>3, <2>1 DEF UpType
<1>6. /\ \A x \in Xacts : file[s][x] = 0 /\ file'[s][x] = blob[x] /\ blob[x] \in Nat /\ stored[x] \in {0, 1}
      /\ \A r \in Sessions : r # s => file'[r] = file[r] /\ scripts'[r] = scripts[r]
      /\ scripts'[s] = 1
  <2>1. \A x \in Xacts : file[s][x] \in Nat /\ blob[x] \in Nat /\ stored[x] \in Nat
    BY <1>3 DEF Rows
  <2>2. \A x \in Xacts : file[s][x] = 0
    BY <1>2, <1>3, <2>1 DEF Runs, Once, Files, Filed
  <2>3. file'[s] = Sum2(file[s], blob) /\ \A r \in Sessions : r # s => file'[r] = file[r] /\ scripts'[r] = scripts[r]
    BY <1>1, <1>3 DEF TypeOK
  <2>4. scripts'[s] = 1
    BY <1>1, <1>2, <1>3 DEF TypeOK
  <2>5. \A x \in Xacts : file'[s][x] = blob[x]
    BY <2>1, <2>2, <2>3 DEF Sum2
  <2>6. \A x \in Xacts : stored[x] \in {0, 1}
    BY <2>1 DEF Runs, Once, Stock
  <2> QED  BY <2>1, <2>2, <2>3, <2>4, <2>5, <2>6
<1>7. \A r \in Sessions : \A x \in Xacts : file[r][x] > 0 => r # s /\ stored[x] = 0 /\ Filed(r, x)
  <2> SUFFICES ASSUME NEW r \in Sessions, NEW x \in Xacts, file[r][x] > 0
               PROVE  r # s /\ stored[x] = 0 /\ Filed(r, x)
    OBVIOUS
  <2>1. Filed(r, x) /\ ~(stored[x] > 0)
    BY <1>4 DEF Runs, Once, Files
  <2> QED  BY <1>6, <2>1
<1>8. \A x \in Xacts : stored[x] = 0 => blob[x] = 0
  BY <1>2, <1>6
<1>9. InMail' = InMail /\ \A x \in Xacts : Nowhere(x) => Nowhere(x)'
  <2>1. InMail' = InMail
    BY <1>1 DEF InMail
  <2>2. ASSUME NEW x \in Xacts, Nowhere(x) PROVE Nowhere(x)'
    <3>1. \A r \in Sessions : file'[r][x] = 0
      BY <1>6, <1>8, <2>2 DEF Nowhere
    <3> QED  BY <1>1, <2>2, <3>1 DEF Nowhere
  <2> QED  BY <2>1, <2>2
<1>10. Waiting' /\ PagesWait'
  <2>1. InMail \subseteq Xacts /\ \A t \in Tabs : page[t] \subseteq Xacts
    BY DEF InMail, TypeOK
  <2> QED  BY <1>1, <1>9, <2>1 DEF Runs, Waiting, PagesWait
<1>11. WipesAlone'
  BY <1>1, <1>4 DEF WipesAlone, WipeComes
<1>12. ASSUME NEW v \in Uploads PROVE UpRun(v)'
  <2>1. \A w \in Uploads : w # u => ~Active(w)'
    BY <1>2, <1>5 DEF Active
  <2>2. CASE v = u
    <3>1. Alive(u)' /\ ~Processing'
      BY <1>1, <1>2, <1>5 DEF Alive, Processing
    <3> QED  BY <1>5, <2>1, <2>2, <3>1 DEF UpRun
  <2>3. CASE v # u
    BY <2>1, <2>3 DEF UpRun
  <2> QED  BY <2>2, <2>3
<1>13. Stock'
  BY <1>1 DEF Runs, Once, Stock
<1>14. Scripts'
  <2> SUFFICES ASSUME NEW r \in Sessions
               PROVE  /\ scripts'[r] <= 1 /\ Len(kids'[r]) <= 1
                      /\ kids'[r] # <<>> => kids'[r][1] = file'[r] /\ ~ended'[r]
    BY DEF Scripts
  <2>1. kids'[r] = <<>> /\ Len(<<>>) = 0
    BY <1>1, <1>2, EmptySeq DEF Processing
  <2>2. scripts'[r] <= 1
    BY <1>6 DEF Runs, Once, Scripts
  <2> QED  BY <2>1, <2>2
<1>15. Files'
  <2> SUFFICES ASSUME NEW r \in Sessions, NEW x \in Xacts, file'[r][x] > 0
               PROVE  Filed(r, x)' /\ Clearing'
    BY DEF Files
  <2>1. Clearing'
    BY <1>5 DEF Clearing
  <2>2. CASE r = s
    <3>1. blob[x] = 1 /\ stored[x] = 1
      BY <1>2, <1>6, <2>2
    <3>2. \A q \in Sessions : file'[q][x] > 0 => q = s
      BY <1>6, <1>7, <3>1
    <3> QED  BY <1>6, <2>1, <2>2, <3>1, <3>2 DEF Filed
  <2>3. CASE r # s
    <3>1. file[r][x] > 0 /\ stored[x] = 0 /\ Filed(r, x)
      BY <1>6, <1>7, <2>3
    <3>2. file'[s][x] = 0
      BY <1>6, <1>8, <3>1
    <3>3. \A q \in Sessions : file'[q][x] > 0 => q = r
      BY <1>6, <3>1, <3>2 DEF Filed
    <3> QED  BY <1>6, <2>1, <2>3, <3>1, <3>3 DEF Filed
  <2> QED  BY <2>2, <2>3
<1>16. RanOnce'
  <2>1. \A r \in Sessions : \A x \in Xacts : file[r][x] > 0 => file'[r][x] > 0
    BY <1>6, <1>7
  <2> QED  BY <1>1, <2>1 DEF Runs, Once, RanOnce
<1>17. Distinct' /\ Forms' /\ AllGranted'
  BY <1>1 DEF Runs, Distinct, Forms, AllGranted, Granted
<1> QED  BY <1>10, <1>11, <1>12, <1>13, <1>14, <1>15, <1>16, <1>17 DEF Runs, Once

LEMMA RunsStep ==
    ASSUME TypeOK, Known, Ordered, Ordered', Runs, Next
    PROVE  Runs'
<1> USE DEF tabVars, storeVars, diskVars, serverVars, staffVars
<1>0. /\ "save" \notin Hurries /\ "click" \notin Hurries /\ ~MayLose /\ ~MayRefuse /\ ~MayClose
      /\ Waiting /\ PagesWait /\ WipesAlone /\ (\A u \in Uploads : UpRun(u)) /\ Once
      /\ Distinct /\ Forms /\ AllGranted
  BY DEF Ordered, Orderly, Runs
<1>0a. /\ Finished.tab = None /\ Finished.pc = "done"
       /\ \A u \in Uploads : up[u].tab \in Tabs \cup {None} /\ up[u] \in UpType
  BY UpsAre, TypeUps
<1>0b. \A t \in Tabs : t # None
  BY OfflineAssumption
<1>0c. \E d \in {0, 1} : d = 0
  OBVIOUS
<1>0d. \E d \in {0, 1} : d = 1
  OBVIOUS
\* Requests other than inserts and wipes; the uploads and the pages are as they were.
<1>a. ASSUME NEW t \in Tabs, NEW d \in {0, 1}, NEW rs \in Seq(ReqType), Moved(t, d, rs),
             d = 1 => 1 \in DOMAIN mail[t] /\ mail[t][1].st # "sent",
             \A j \in 1..Len(rs) : rs[j].st = "sent" /\ rs[j].op \notin {"insert", "wipe"},
             UNCHANGED <<stored, file, scripts, kids, ended, ran>>,
             \A o \in Tabs : saving'[o] = {} => \A x \in page'[o] : saving[o] = {} /\ x \in page[o],
             Clearing => Clearing' \/ WipeComes
      PROVE  /\ Waiting' /\ PagesWait' /\ Once' /\ Distinct' /\ AllGranted'
             /\ WipeComes' <=> WipeComes
  <2>1. /\ Distinct' /\ AllGranted' /\ InMail' = InMail \cup Those(rs)
        /\ WipeComes' <=> WipeComes
    BY <1>0, <1>a, RunMoved
  <2>2. Those(rs) = {}
    BY <1>a DEF Those
  <2>3. \E N : N = {}
    OBVIOUS
  <2>4. Clearing => Clearing'
    BY <1>a, <2>1 DEF Clearing
  <2>5. Waiting' /\ PagesWait' /\ Once'
    BY <1>0, <1>a, <2>1, <2>2, <2>3, <2>4, RunKept
  <2> QED  BY <2>1, <2>5
<1>b. ASSUME NEW t \in Tabs, NEW d \in {0, 1}, NEW rs \in Seq(ReqType), Moved(t, d, rs),
             d = 1 => 1 \in DOMAIN mail[t] /\ mail[t][1].st # "sent",
             \A j \in 1..Len(rs) : rs[j].st = "sent" /\ rs[j].op \notin {"insert", "wipe"},
             UNCHANGED <<up, stored, file, scripts, kids, ended, ran>>,
             \A o \in Tabs : saving'[o] = {} => \A x \in page'[o] : saving[o] = {} /\ x \in page[o],
             Forms'
      PROVE  Runs'
  <2>1. Clearing => Clearing' \/ WipeComes
    BY <1>b DEF Clearing
  <2>2. /\ Waiting' /\ PagesWait' /\ Once' /\ Distinct' /\ AllGranted'
        /\ WipeComes' <=> WipeComes
    BY <1>a, <1>b, <2>1
  <2>3. WipesAlone' /\ \A u \in Uploads : UpRun(u)'
    BY <1>0, <1>b, <2>2 DEF WipesAlone, UpRun, Active, Alive, Processing
  <2> QED  BY <1>b, <2>2, <2>3 DEF Runs
\* The page or the worker's answer is only shown.
<1>c. ASSUME NEW t \in Tabs, NEW d \in {0, 1}, NEW rs \in Seq(ReqType), Moved(t, d, rs),
             d = 1 => 1 \in DOMAIN mail[t] /\ mail[t][1].st # "sent",
             \A j \in 1..Len(rs) : IsShow(rs[j]),
             UNCHANGED <<up, page, saving, stored, file, scripts, kids, ended, ran>>
      PROVE  Runs'
  <2>1. \A j \in 1..Len(rs) : rs[j].st = "sent" /\ rs[j].op \notin {"insert", "wipe"} /\ rs[j].job # "register"
    BY <1>c DEF IsShow
  <2>2. Forms'
    BY <1>0, <1>c, <2>1, FormsMoved
  <2> QED  BY <1>b, <1>c, <2>1, <2>2
\* Nothing is sent and the store and the server stay.
<1>d. ASSUME UNCHANGED <<mail, page, saving, stored, file, scripts, kids, ended, ran>>,
             Clearing => Clearing', \A u \in Uploads : UpRun(u)', WipesAlone'
      PROVE  Runs'
  <2>1. InMail' = InMail
    BY <1>d DEF InMail
  <2>2. \E N : N = {}
    OBVIOUS
  <2>3. Waiting' /\ PagesWait' /\ Once'
    BY <1>0, <1>d, <2>1, <2>2, RunKept
  <2>4. Distinct' /\ Forms' /\ AllGranted'
    BY <1>0, <1>d DEF Distinct, Forms, AllGranted, Granted
  <2> QED  BY <1>d, <2>3, <2>4 DEF Runs
<1>e. ASSUME UNCHANGED <<mail, page, saving, stored, file, scripts, kids, ended, ran, up>>
      PROVE  Runs'
  <2>1. Clearing => Clearing'
    BY <1>e DEF Clearing, WipeComes
  <2>2. WipesAlone' /\ \A u \in Uploads : UpRun(u)'
    BY <1>0, <1>e DEF WipesAlone, WipeComes, UpRun, Active, Alive, Processing
  <2> QED  BY <1>d, <1>e, <2>1, <2>2
\* A save: what the tab's page holds is nowhere else.
<1>f. ASSUME NEW t \in Tabs, NEW d \in {0, 1}, NEW rs \in Seq(ReqType), Moved(t, d, rs),
             NEW k, InsertsOf(rs, page[t], "save", k),
             d = 1 => 1 \in DOMAIN mail[t] /\ mail[t][1].st # "sent",
             saving[t] = {}, saving'[t] # {}, \A o \in Tabs \ {t} : saving'[o] = saving[o],
             \A i \in DOMAIN mail[t] : d < i => mail[t][i].job # "register",
             UNCHANGED <<up, page, stored, file, scripts, kids, ended, ran>>
      PROVE  Runs'
  <2>1. \A x \in page[t] : x \notin InMail /\ Nowhere(x)
    BY <1>0, <1>f DEF PagesWait
  <2>2. \A j \in 1..Len(rs) : /\ rs[j].op = "insert" /\ rs[j].x \in page[t] /\ rs[j].job = "save"
                              /\ rs[j].st = "sent" /\ rs[j].x \notin InMail
    BY <1>f, <2>1 DEF InsertsOf
  <2>3. \A i, j \in 1..Len(rs) : rs[i].x = rs[j].x => i = j
    BY <1>f DEF InsertsOf
  <2>4. /\ Distinct' /\ AllGranted' /\ InMail' = InMail \cup Those(rs)
        /\ WipeComes' <=> WipeComes
    BY <1>0, <1>f, <2>2, <2>3, RunMoved
  <2>5. Those(rs) \subseteq page[t]
    BY <2>2 DEF Those
  <2>6. PICK N : N = page[t]
    OBVIOUS
  <2>7. \A o \in Tabs : saving'[o] = {} => \A x \in page'[o] : saving[o] = {} /\ x \in page[o] /\ x \notin N
    BY <1>f, <2>6 DEF Known
  <2>8. Clearing => Clearing'
    BY <1>f, <2>4 DEF Clearing
  <2>9. \A x \in N : Nowhere(x)
    BY <2>1, <2>6
  <2>10. InMail' \subseteq InMail \cup N
    BY <2>4, <2>5, <2>6
  <2>11. Waiting' /\ PagesWait' /\ Once'
    BY <1>0, <1>f, <2>7, <2>8, <2>9, <2>10, RunKept
  <2>12. WipesAlone' /\ \A u \in Uploads : UpRun(u)'
    BY <1>0, <1>f, <2>4 DEF WipesAlone, UpRun, Active, Alive, Processing
  <2>13. Forms'
    BY <1>0, <1>f, <2>2, FormsAnew
  <2> QED  BY <2>4, <2>11, <2>12, <2>13 DEF Runs
\* The pending transactions are cleared: there was no wipe under way.
<1>g. ASSUME NEW t \in Tabs, NEW rs \in Seq(ReqType), Moved(t, 0, rs), Sole(rs, "wipe", None, "clear", None),
             UNCHANGED <<page, saving, stored, file, scripts, kids, ended, ran>>,
             \A u \in Uploads : ~Active(u)'
      PROVE  Runs'
  <2>1. \A j \in 1..Len(rs) : rs[j].st = "sent" /\ rs[j].op = "wipe" /\ rs[j].job # "register"
    BY <1>g DEF Sole
  <2>2. 1 \in 1..Len(rs)
    BY <1>g DEF Sole
  <2>3. Distinct' /\ AllGranted' /\ InMail' = InMail \cup Those(rs) /\ WipeComes'
    BY <1>0, <1>0c, <1>g, <2>1, <2>2, RunMoved
  <2>4. Those(rs) = {}
    BY <2>1 DEF Those
  <2>5. \E N : N = {}
    OBVIOUS
  <2>6. Clearing'
    BY <2>3 DEF Clearing
  <2>7. Waiting' /\ PagesWait' /\ Once'
    BY <1>0, <1>g, <2>3, <2>4, <2>5, <2>6, RunKept
  <2>8. WipesAlone' /\ \A u \in Uploads : UpRun(u)'
    BY <1>g DEF WipesAlone, UpRun
  <2>9. Forms'
    BY <1>0, <1>0c, <1>g, <2>1, FormsMoved
  <2> QED  BY <2>3, <2>7, <2>8, <2>9 DEF Runs
\* One upload goes on.
<1>h. ASSUME NEW u \in Uploads, up'[u].tab = up[u].tab, Active(u), Active(u)',
             \A v \in Uploads \ {u} : up'[v] = up[v], kids' = kids,
             up'[u].pc \in {"load", "append"} => \A x \in Xacts : up'[u].blob[x] <= stored'[x],
             up'[u].pc = "append" => scripts'[up'[u].to] = 0
      PROVE  (\A v \in Uploads : UpRun(v)') /\ \A v \in Uploads : Active(v)' <=> Active(v)
  <2>1. \A v \in Uploads : Active(v)' <=> Active(v)
    BY <1>h DEF Active
  <2>2. Alive(u) /\ ~Processing /\ \A v \in Uploads : Active(v) => u = v
    BY <1>0, <1>h DEF UpRun
  <2>3. Alive(u)' /\ ~Processing'
    BY <1>h, <2>2 DEF Alive, Processing
  <2> QED  BY <1>h, <2>1, <2>2, <2>3 DEF UpRun
<1>1. ASSUME NEW t \in Tabs, Work(t) PROVE Runs'
  BY <1>1, RunServed
<1>2. ASSUME NEW t \in Tabs, Inserted(t) PROVE Runs'
  <2>1. PICK rs \in Seq(ReqType) :
              /\ Moved(t, 1, rs)
              /\ Len(rs) = IF mail[t][1].job = "nobody" THEN 0 ELSE 1
              /\ \A i \in 1..Len(rs) :
                    /\ rs[i].op = "date" /\ rs[i].job = mail[t][1].job /\ rs[i].k = mail[t][1].k
                    /\ rs[i].st = "sent" /\ rs[i].got = NoRows
    BY <1>2, InsertedIs
  <2>2. 1 \in DOMAIN mail[t] /\ mail[t][1].st = "ok"
    BY <1>2, AnswerIs DEF Inserted
  <2>3. UNCHANGED <<up, page, saving, stored, file, scripts, kids, ended, ran>>
    BY <1>2 DEF Inserted
  <2>4. Forms'
    <3>1. CASE mail[t][1].job = "register"
      <4>1. saving'[t] = {} /\ \A i \in DOMAIN mail[t] : mail[t][i].job = "register" => i = 1
        BY <1>0, <2>2, <2>3, <3>1 DEF Forms
      <4>2. Len(rs) = 1
        BY <2>1, <3>1
      <4>3. \A i \in DOMAIN mail[t] : 1 < i => mail[t][i].job # "register"
        BY <4>1
      <4> QED  BY <1>0, <1>0d, <2>1, <2>3, <4>1, <4>2, <4>3, FormsAnew
    <3>2. CASE mail[t][1].job # "register"
      BY <1>0, <1>0d, <2>1, <2>3, <3>2, FormsMoved
    <3> QED  BY <3>1, <3>2
  <2>5. \A j \in 1..Len(rs) : rs[j].st = "sent" /\ rs[j].op \notin {"insert", "wipe"}
    BY <2>1
  <2> QED  BY <1>0d, <1>b, <2>1, <2>2, <2>3, <2>4, <2>5
<1>3. ASSUME NEW t \in Tabs, Dated(t) PROVE Runs'
  <2>1. PICK rs \in Seq(ReqType) :
              /\ Moved(t, 1, rs)
              /\ \/ /\ mail[t][1].job = "register" /\ StartSave(t, mail[t][1].k, TRUE)
                    /\ InsertsOf(rs, page[t], "save", mail[t][1].k)
                 \/ /\ mail[t][1].job # "register" /\ saving' = saving
                    /\ Len(rs) \in {0, 1} /\ \A i \in 1..Len(rs) : IsShow(rs[i])
    BY <1>3, DatedIs
  <2>2. 1 \in DOMAIN mail[t] /\ mail[t][1].st = "ok"
    BY <1>3, AnswerIs DEF Dated
  <2>3. UNCHANGED <<up, page, stored, file, scripts, kids, ended, ran>>
    BY <1>3 DEF Dated
  <2>4. CASE saving' = saving /\ \A i \in 1..Len(rs) : IsShow(rs[i])
    BY <1>0d, <1>c, <2>1, <2>2, <2>3, <2>4
  <2>5. CASE /\ mail[t][1].job = "register" /\ StartSave(t, mail[t][1].k, TRUE)
             /\ InsertsOf(rs, page[t], "save", mail[t][1].k)
    <3>1. saving[t] = {} /\ \A i \in DOMAIN mail[t] : mail[t][i].job = "register" => i = 1
      BY <1>0, <2>2, <2>5 DEF Forms
    <3>2. \A i \in DOMAIN mail[t] : 1 < i => mail[t][i].job # "register"
      BY <3>1
    <3>3. saving'[t] # {} /\ \A o \in Tabs \ {t} : saving'[o] = saving[o]
      <4>1. saving' = [saving EXCEPT ![t] = @ \cup {[k |-> mail[t][1].k, reload |-> TRUE, spoiled |-> FALSE]}]
        BY <2>5 DEF StartSave
      <4> QED  BY <4>1 DEF TypeOK
    <3> QED  BY <1>0d, <1>f, <2>1, <2>2, <2>3, <2>5, <3>1, <3>2, <3>3
  <2> QED  BY <2>1, <2>4, <2>5
<1>4. ASSUME NEW t \in Tabs, Wiped(t) PROVE Runs'
  <2>1. PICK rs \in Seq(ReqType) :
              /\ Moved(t, 1, rs)
              /\ Len(rs) = IF mail[t][1].job = "nobody" THEN 0 ELSE 1
              /\ \A i \in 1..Len(rs) : /\ rs[i].op = "undate" /\ rs[i].job = "clear"
                                       /\ rs[i].st = "sent" /\ rs[i].got = NoRows
    BY <1>4, WipedIs
  <2>2. 1 \in DOMAIN mail[t] /\ mail[t][1].st = "ok"
    BY <1>4, AnswerIs DEF Wiped
  <2>3. UNCHANGED <<up, page, saving, stored, file, scripts, kids, ended, ran>>
    BY <1>4 DEF Wiped
  <2>4. \A j \in 1..Len(rs) : rs[j].st = "sent" /\ rs[j].op \notin {"insert", "wipe"} /\ rs[j].job # "register"
    BY <2>1
  <2>5. Forms'
    BY <1>0, <1>0d, <2>1, <2>3, <2>4, FormsMoved
  <2> QED  BY <1>0d, <1>b, <2>1, <2>2, <2>3, <2>4, <2>5
<1>5. ASSUME NEW t \in Tabs, Undated(t) PROVE Runs'
  <2>1. PICK rs \in Seq(ReqType) : Moved(t, 1, rs) /\ \A i \in 1..Len(rs) : IsShow(rs[i])
    BY <1>5, UndatedIs
  <2>2. 1 \in DOMAIN mail[t] /\ mail[t][1].st = "ok"
    BY <1>5, AnswerIs DEF Undated
  <2>3. UNCHANGED <<up, page, saving, stored, file, scripts, kids, ended, ran>>
    BY <1>5 DEF Undated
  <2> QED  BY <1>0d, <1>c, <2>1, <2>2, <2>3
<1>6. ASSUME NEW t \in Tabs, Listed(t) PROVE Runs'
  <2> DEFINE r == mail[t][1]
  <2>1. /\ Moved(t, 1, <<>>) /\ 1 \in DOMAIN mail[t] /\ r.st = "ok" /\ Head(mail[t]) = r
        /\ r.job = "upload" => r.k \in Uploads /\ up[r.k].tab = t /\ up[r.k].pc = "blob"
    BY <1>6, ListedIs, HeadOf, SMTT(30)
  <2>2. UNCHANGED <<page, saving, stored, file, scripts, kids, ended, ran>>
    BY <1>6, SMTT(30) DEF Listed
  <2>3. up' = IF r.job = "upload"
              THEN [up EXCEPT ![r.k].blob = r.got, ![r.k].pc = "load", ![r.k].to = current[t]]
              ELSE up
    BY <1>6, <2>1 DEF Listed
  <2>4. r.job = "upload" => \A x \in Xacts : r.got[x] <= stored[x]
    BY <1>0, <2>1 DEF AllGranted, Granted
  <2> HIDE DEF r
  <2>5. PICK rs \in Seq(ReqType) : Moved(t, 1, rs) /\ \A j \in 1..Len(rs) : IsShow(rs[j])
    <3>1. <<>> \in Seq(ReqType) /\ \A j \in 1..Len(<<>>) : FALSE
      BY NoRequest
    <3> QED  BY <2>1, <3>1
  <2>6. CASE r.job # "upload"
    BY <1>0d, <1>c, <2>1, <2>2, <2>3, <2>5, <2>6 DEF r
  <2>7. CASE r.job = "upload"
    <3>1. PICK u \in Uploads : u = r.k /\ up[u].tab = t /\ up[u].pc = "blob"
      BY <2>1, <2>7
    <3>2. up' = [up EXCEPT ![u] = [@ EXCEPT !.blob = r.got, !.pc = "load", !.to = current[t]]]
      BY <2>3, <2>7, <3>1
    <3>3. /\ up'[u] = [up[u] EXCEPT !.blob = r.got, !.pc = "load", !.to = current[t]]
          /\ \A v \in Uploads \ {u} : up'[v] = up[v]
      BY <3>2, TypeUps
    <3>4. up'[u].blob = r.got /\ up'[u].pc = "load" /\ up'[u].tab = up[u].tab
      BY <1>0a, <3>3 DEF UpType
    <3>5. Active(u) /\ Active(u)'
      BY <3>1, <3>4 DEF Active
    <3>6. \A x \in Xacts : up'[u].blob[x] <= stored'[x]
      BY <2>2, <2>4, <2>7, <3>4
    <3>7. (\A v \in Uploads : UpRun(v)') /\ \A v \in Uploads : Active(v)' <=> Active(v)
      BY <1>h, <2>2, <3>3, <3>4, <3>5, <3>6
    <3>8. Clearing => Clearing' \/ WipeComes
      BY <3>1, <3>3 DEF Clearing
    <3>9. \A j \in 1..Len(rs) : rs[j].st = "sent" /\ rs[j].op \notin {"insert", "wipe"} /\ rs[j].job # "register"
      BY <2>5 DEF IsShow
    <3>10. mail[t][1].st # "sent" /\ 1 \in DOMAIN mail[t]
      BY <2>1 DEF r
    <3>11. /\ Waiting' /\ PagesWait' /\ Once' /\ Distinct' /\ AllGranted'
           /\ WipeComes' <=> WipeComes
      BY <1>0d, <1>a, <2>2, <2>5, <3>8, <3>9, <3>10
    <3>12. WipesAlone'
      BY <1>0, <3>7, <3>11 DEF WipesAlone
    <3>13. Forms'
      BY <1>0, <1>0d, <2>2, <2>5, <3>9, FormsMoved
    <3> QED  BY <3>7, <3>11, <3>12, <3>13 DEF Runs
  <2> QED  BY <2>6, <2>7
<1>7. ASSUME NEW t \in Tabs, Refused(t) PROVE Runs'
  <2>1. 1 \in DOMAIN mail[t] /\ mail[t][1].st = "err"
    BY <1>7, RefusedIs
  <2> QED  BY <1>0, <2>1 DEF AllGranted, Granted
<1>8. ASSUME NEW t \in Tabs, NEW s \in saving[t], SaveSettled(t, s) PROVE Runs'
  <2>0. t \in EntryTabs
    BY DEF Known, Tabs
  <2>1. CASE s.reload
    <3>1. Reload(t) /\ UNCHANGED <<stored, file, scripts, kids, ended, ran>>
      BY <1>8, <2>1 DEF SaveSettled
    <3> QED  BY <2>0, <3>1, RunReload
  <2>2. CASE ~s.reload
    <3>1. PICK rs \in Seq(ReqType) : Moved(t, 0, rs) /\ Len(rs) = 1 /\ IsShow(rs[1])
      BY <1>8, <2>2, ShowPosted DEF SaveSettled
    <3>2. /\ saving' = [saving EXCEPT ![t] = @ \ {s}] /\ page' = [page EXCEPT ![t] = {}]
          /\ UNCHANGED <<up, stored, file, scripts, kids, ended, ran>>
      BY <1>8, <2>2 DEF SaveSettled
    <3>3. \A j \in 1..Len(rs) : rs[j].st = "sent" /\ rs[j].op \notin {"insert", "wipe"} /\ rs[j].job # "register"
      BY <3>1 DEF IsShow
    <3>4. /\ page'[t] = {} /\ \A o \in Tabs \ {t} : page'[o] = page[o] /\ saving'[o] = saving[o]
          /\ \A o \in Tabs : saving'[o] \subseteq saving[o]
      BY <3>2 DEF TypeOK
    <3>5. \A o \in Tabs : saving[o] = {} => saving'[o] = {}
      BY <3>4
    <3>6. Forms'
      BY <1>0, <1>0c, <3>1, <3>3, <3>5, FormsMoved
    <3>7. \A o \in Tabs : saving'[o] = {} => \A x \in page'[o] : saving[o] = {} /\ x \in page[o]
      BY <3>4
    <3> QED  BY <1>0c, <1>b, <3>1, <3>2, <3>3, <3>6, <3>7
  <2> QED  BY <2>1, <2>2
<1>j. \A x \in Xacts : x \notin entered => x \notin InMail /\ Nowhere(x) /\ \A t \in Tabs : x \notin page[t]
  <2> SUFFICES ASSUME NEW x \in Xacts, x \notin entered
               PROVE  x \notin InMail /\ Nowhere(x) /\ \A t \in Tabs : x \notin page[t]
    OBVIOUS
  <2>1. /\ x \notin Held /\ \A t \in Tabs : x \notin page[t]
        /\ \A s \in Sessions : ~(file[s][x] > 0)
    BY NewIsFresh
  <2>2. stored[x] \in Nat /\ \A s \in Sessions : file[s][x] \in Nat
    BY DEF TypeOK, Rows
  <2>3. x \notin InMail /\ ~(stored[x] > 0)
    BY <2>1 DEF Held, In
  <2> QED  BY <2>1, <2>2, <2>3 DEF Nowhere
<1>9. ASSUME NEW t \in Tabs, NEW x \in Xacts, Add(t, x) PROVE Runs'
  <2>1. /\ x \notin entered /\ page' = [page EXCEPT ![t] = @ \cup {x}]
        /\ UNCHANGED <<mail, saving, stored, file, scripts, kids, ended, ran, up>>
    BY <1>9 DEF Add
  <2>2. \A o \in Tabs : \A y \in page'[o] : y \in page[o] \/ y = x
    BY <2>1 DEF TypeOK
  <2>3. InMail' = InMail /\ (Clearing => Clearing')
    BY <2>1 DEF InMail, Clearing, WipeComes
  <2>4. x \notin InMail' /\ Nowhere(x)
    BY <1>j, <2>1, <2>3
  <2>5. PICK N : N = {}
    OBVIOUS
  <2>6. \A o \in Tabs : saving'[o] = {} => \A y \in page'[o] :
           \/ saving[o] = {} /\ y \in page[o] /\ y \notin N
           \/ y \notin InMail' /\ Nowhere(y)
    BY <2>1, <2>2, <2>4, <2>5
  <2>7. Waiting' /\ PagesWait' /\ Once'
    BY <1>0, <2>1, <2>3, <2>5, <2>6, RunKept
  <2>8. WipesAlone' /\ \A u \in Uploads : UpRun(u)'
    BY <1>0, <2>1 DEF WipesAlone, WipeComes, UpRun, Active, Alive, Processing
  <2>9. Distinct' /\ Forms' /\ AllGranted'
    BY <1>0, <2>1 DEF Distinct, Forms, AllGranted, Granted
  <2> QED  BY <2>7, <2>8, <2>9 DEF Runs
<1>10. ASSUME NEW t \in Tabs, NEW x \in Xacts, Register(t, x) PROVE Runs'
  <2>1. saves[t] + 1 \in Nat /\ Post(t, <<Req("insert", x, "register", saves[t] + 1)>>)
    BY <1>10, OfflineAssumption DEF Register, TypeOK
  <2>2. x \notin entered /\ UNCHANGED <<page, saving, stored, file, scripts, kids, ended, ran, up>> /\ ~Busy(t)
    BY <1>0, <1>10 DEF Register
  <2>3. PICK rs \in Seq(ReqType) : Moved(t, 0, rs) /\ Sole(rs, "insert", x, "register", saves[t] + 1)
    BY <2>1, SolePosted
  <2>4. /\ saving[t] = {} /\ \A i \in DOMAIN mail[t] : FALSE
    BY <2>2, BusyIs
  <2>5. x \notin InMail /\ Nowhere(x) /\ \A o \in Tabs : x \notin page[o]
    BY <1>j, <2>2
  <2>6. Len(rs) = 1 /\ \A j \in 1..Len(rs) : j = 1 /\ rs[j].op = "insert" /\ rs[j].x = x /\ rs[j].st = "sent"
    BY <2>3 DEF Sole
  <2>7. /\ Distinct' /\ AllGranted' /\ InMail' = InMail \cup Those(rs)
        /\ WipeComes' <=> WipeComes
    BY <1>0, <1>0c, <2>2, <2>3, <2>5, <2>6, RunMoved
  <2>8. Those(rs) \subseteq {x}
    BY <2>6 DEF Those
  <2>9. PICK N : N = {x}
    OBVIOUS
  <2>10. Clearing => Clearing'
    BY <2>2, <2>7 DEF Clearing
  <2>11. Waiting' /\ PagesWait' /\ Once'
    <3>1. InMail' \subseteq InMail \cup N /\ \A y \in N : Nowhere(y)
      BY <2>5, <2>7, <2>8, <2>9
    <3>2. \A o \in Tabs : saving'[o] = {} => \A y \in page'[o] : saving[o] = {} /\ y \in page[o] /\ y \notin N
      BY <2>2, <2>5, <2>9
    <3> QED  BY <1>0, <2>2, <2>10, <3>1, <3>2, RunKept
  <2>12. WipesAlone' /\ \A u \in Uploads : UpRun(u)'
    BY <1>0, <2>2, <2>7 DEF WipesAlone, UpRun, Active, Alive, Processing
  <2>13. Forms'
    BY <1>0, <1>0c, <2>2, <2>3, <2>4, <2>6, FormsAnew
  <2> QED  BY <2>7, <2>11, <2>12, <2>13 DEF Runs
<1>11. ASSUME NEW t \in Tabs, Save(t) PROVE Runs'
  <2>1. /\ saves[t] + 1 \in Nat /\ page[t] \in SUBSET Xacts
        /\ Post(t, Inserts(page[t], "save", saves[t] + 1))
    BY <1>11, OfflineAssumption DEF Save, TypeOK
  <2>2. UNCHANGED <<up, page, stored, file, scripts, kids, ended, ran>>
    BY <1>11 DEF Save
  <2>3. saving[t] = {} /\ ~Registering(t)
    BY <1>0, <1>11 DEF Save
  <2>4. saving'[t] # {} /\ \A o \in Tabs \ {t} : saving'[o] = saving[o]
    <3>1. saving' = [saving EXCEPT ![t] = @ \cup {[k |-> saves[t] + 1, reload |-> FALSE, spoiled |-> FALSE]}]
      BY <1>11 DEF Save, StartSave
    <3> QED  BY <3>1 DEF TypeOK
  <2>5. PICK rs \in Seq(ReqType) : Moved(t, 0, rs) /\ InsertsOf(rs, page[t], "save", saves[t] + 1)
    BY <2>1, InsertsPosted
  <2>6. \A i \in DOMAIN mail[t] : mail[t][i].job # "register"
    BY <2>3 DEF Registering
  <2>7. PICK k : InsertsOf(rs, page[t], "save", k)
    BY <2>5
  <2>8. PICK d \in {0, 1} : d = 0
    OBVIOUS
  <2>9. Moved(t, d, rs)
    BY <2>5, <2>8
  <2>10. d # 1
    BY <2>8
  <2> QED  BY <1>f, <2>2, <2>3, <2>4, <2>6, <2>7, <2>9, <2>10
<1>12. ASSUME NEW t \in Tabs, Close(t) PROVE Runs'
  BY <1>0, <1>12 DEF Close
<1>13. ASSUME NEW t \in Tabs, Stay(t) PROVE Runs'
  BY <1>13, <1>e DEF Stay
<1>14. ASSUME NEW t \in Tabs, Look(t) PROVE Runs'
  <2>1. PICK rs \in Seq(ReqType) : Moved(t, 0, rs) /\ Len(rs) = 1 /\ IsShow(rs[1])
    BY <1>14, ShowPosted DEF Look
  <2>2. \A j \in 1..Len(rs) : IsShow(rs[j])
    BY <2>1
  <2>3. UNCHANGED <<up, page, saving, stored, file, scripts, kids, ended, ran>>
    BY <1>14 DEF Look
  <2> QED  BY <1>0c, <1>c, <2>1, <2>2, <2>3
<1>15. ASSUME NEW t \in Tabs, ClearPending(t) PROVE Runs'
  <2>1. PICK rs \in Seq(ReqType) : Moved(t, 0, rs) /\ Sole(rs, "wipe", None, "clear", None)
    BY <1>15, SolePosted DEF ClearPending
  <2>2. UNCHANGED <<up, page, saving, stored, file, scripts, kids, ended, ran>>
    BY <1>15 DEF ClearPending
  <2>3. \A u \in Uploads : ~Active(u)
    BY <1>0, <1>15, NoneActive DEF ClearPending
  <2>4. \A u \in Uploads : ~Active(u)'
    BY <2>2, <2>3 DEF Active
  <2> QED  BY <1>g, <2>1, <2>2, <2>4
<1>16. ASSUME NEW t \in Tabs, Export(t) PROVE Runs'
  BY <1>16, <1>e DEF Export
<1>17. ASSUME NEW t \in Tabs, Import(t) PROVE Runs'
  <2>1. imports = 0 /\ imports' = 0
    BY DEF Ordered
  <2> QED  BY <1>17, <2>1 DEF Import
<1>18. ASSUME NEW t \in Tabs, NEW s \in Sessions, Select(t, s) PROVE Runs'
  BY <1>0, <1>18 DEF Select
<1>19. ASSUME NEW t \in Tabs, NEW s \in Sessions, Process(t, s) PROVE Runs'
  BY <1>19, RunProcess
<1>20. ASSUME NEW t \in Tabs, NEW s \in Sessions, NEW u \in Uploads, AskUpload(t, u, s) PROVE Runs'
  <2>1. /\ up'[u].pc = "asked" /\ up'[u].tab = t /\ \A v \in Uploads \ {u} : up'[v] = up[v]
        /\ UNCHANGED <<mail, page, saving, stored, file, scripts, kids, ended, ran>>
    BY <1>20, TypeUps DEF AskUpload
  <2>2. ~WipeComes /\ (\A v \in Uploads : ~Active(v)) /\ ~Processing
    BY <1>0, <1>20, NoneActive DEF AskUpload
  <2>3. WipesAlone' /\ ~Processing'
    BY <2>1, <2>2 DEF WipesAlone, WipeComes, Processing
  <2>4. \A v \in Uploads : UpRun(v)'
    BY <1>0b, <2>1, <2>2, <2>3 DEF UpRun, Active, Alive
  <2>5. ~Clearing
    BY <2>2 DEF Clearing, Active
  <2> QED  BY <1>d, <2>1, <2>3, <2>4, <2>5
<1>21. ASSUME NEW u \in Uploads, GotExceptions(u) PROVE Runs'
  <2>1. PICK t \in Tabs : t = up[u].tab
    BY <1>21 DEF GotExceptions, Alive, TypeOK
  <2>2. /\ UNCHANGED <<page, saving, stored, file, scripts, kids, ended, ran>> /\ up[u].pc = "asked"
        /\ Post(t, <<Req("list", None, "upload", u)>>) /\ up' = [up EXCEPT ![u] = [@ EXCEPT !.pc = "blob"]]
    BY <1>21, <2>1 DEF GotExceptions
  <2>3. PICK rs \in Seq(ReqType) : Moved(t, 0, rs) /\ Sole(rs, "list", None, "upload", u)
    BY <2>2, SolePosted
  <2>4. up'[u] = [up[u] EXCEPT !.pc = "blob"] /\ \A v \in Uploads \ {u} : up'[v] = up[v]
    BY <2>2, TypeUps
  <2>5. up'[u].pc = "blob" /\ up'[u].tab = up[u].tab
    BY <1>0a, <2>4 DEF UpType
  <2>6. Active(u) /\ Active(u)'
    BY <2>2, <2>5 DEF Active
  <2>7. (\A v \in Uploads : UpRun(v)') /\ \A v \in Uploads : Active(v)' <=> Active(v)
    BY <1>h, <2>2, <2>4, <2>5, <2>6
  <2>8. \A j \in 1..Len(rs) : rs[j].st = "sent" /\ rs[j].op \notin {"insert", "wipe"} /\ rs[j].job # "register"
    BY <2>3 DEF Sole
  <2>9. Clearing => Clearing' \/ WipeComes
    BY <2>2, <2>4 DEF Clearing
  <2>10. /\ Waiting' /\ PagesWait' /\ Once' /\ Distinct' /\ AllGranted'
         /\ WipeComes' <=> WipeComes
    BY <1>0c, <1>a, <2>2, <2>3, <2>8, <2>9
  <2>11. WipesAlone'
    BY <1>0, <2>7, <2>10 DEF WipesAlone
  <2>12. Forms'
    BY <1>0, <1>0c, <2>2, <2>3, <2>8, FormsMoved
  <2> QED  BY <2>7, <2>10, <2>11, <2>12 DEF Runs
<1>22. ASSUME NEW u \in Uploads, LoadCheck(u) PROVE Runs'
  <2> DEFINE pc == IF scripts[up[u].to] > 0 \/ ended[up[u].to] THEN "refused" ELSE "append"
  <2>1. /\ up' = [up EXCEPT ![u] = [@ EXCEPT !.pc = pc]] /\ up[u].pc = "load"
        /\ UNCHANGED <<mail, page, saving, stored, file, scripts, kids, ended, ran>>
    BY <1>22 DEF LoadCheck
  <2>2. pc \in {"refused", "append"} /\ (pc = "append" => scripts[up[u].to] = 0)
    <3>1. up[u].to \in Sessions
      BY <2>1 DEF Known, WellUp, Begun
    <3>2. scripts[up[u].to] \in Nat
      BY <3>1 DEF TypeOK
    <3> QED  BY <3>2
  <2> HIDE DEF pc
  <2>3. up'[u] = [up[u] EXCEPT !.pc = pc] /\ \A v \in Uploads \ {u} : up'[v] = up[v]
    BY <2>1, TypeUps
  <2>4. up'[u].pc = pc /\ up'[u].tab = up[u].tab /\ up'[u].to = up[u].to /\ up'[u].blob = up[u].blob
    BY <1>0a, <2>3 DEF UpType
  <2>5. Active(u) /\ Active(u)'
    BY <2>1, <2>2, <2>4 DEF Active
  <2>6. \A x \in Xacts : up'[u].blob[x] <= stored'[x]
    BY <1>0, <2>1, <2>4, <2>5 DEF UpRun
  <2>7. up'[u].pc = "append" => scripts'[up'[u].to] = 0
    BY <2>1, <2>2, <2>4
  <2>8. (\A v \in Uploads : UpRun(v)') /\ \A v \in Uploads : Active(v)' <=> Active(v)
    BY <1>h, <2>1, <2>3, <2>4, <2>5, <2>6, <2>7
  <2>9. WipesAlone'
    BY <1>0, <2>1, <2>8 DEF WipesAlone, WipeComes
  <2>10. Clearing => Clearing'
    BY <2>1, <2>3 DEF Clearing, WipeComes
  <2> QED  BY <1>d, <2>1, <2>8, <2>9, <2>10
<1>23. ASSUME NEW u \in Uploads, LoadAppend(u) PROVE Runs'
  BY <1>23, RunAppend
<1>24. ASSUME NEW u \in Uploads, Loaded(u) PROVE Runs'
  <2>1. /\ up' = [up EXCEPT ![u] = Finished] /\ up[u].pc = "loaded"
        /\ UNCHANGED <<page, saving, stored, file, scripts, kids, ended, ran>>
    BY <1>24 DEF Loaded
  <2>2. Alive(u) /\ \A v \in Uploads : Active(v) => u = v
    BY <1>0, <2>1 DEF UpRun, Active
  <2>3. PICK t \in Tabs : t = up[u].tab
    BY <1>0a, <2>2 DEF Alive
  <2>4. PICK rs \in Seq(ReqType) : Moved(t, 0, rs) /\ Sole(rs, "wipe", None, "clear", None)
    BY <1>24, <2>2, <2>3, SolePosted DEF Loaded
  <2>5. up'[u].pc = "done" /\ \A v \in Uploads \ {u} : up'[v] = up[v]
    BY <1>0a, <2>1, TypeUps
  <2>6. \A v \in Uploads : ~Active(v)'
    BY <2>2, <2>5 DEF Active
  <2> QED  BY <1>g, <2>1, <2>4, <2>6
<1>25. ASSUME NEW u \in Uploads, NotLoaded(u) PROVE Runs'
  <2>1. /\ up' = [up EXCEPT ![u] = Finished] /\ up[u].pc = "refused"
        /\ UNCHANGED <<mail, page, saving, stored, file, scripts, kids, ended, ran>>
    BY <1>0, <1>25 DEF NotLoaded
  <2>2. up'[u].pc = "done" /\ \A v \in Uploads \ {u} : up'[v] = up[v]
    BY <1>0a, <2>1, TypeUps
  <2>3. \A v \in Uploads : Active(v) => u = v
    BY <1>0, <2>1 DEF UpRun, Active
  <2>4. \A v \in Uploads : ~Active(v)'
    BY <2>2, <2>3 DEF Active
  <2>5. WipesAlone' /\ \A v \in Uploads : UpRun(v)'
    BY <2>4 DEF WipesAlone, UpRun
  <2>6. Clearing => Clearing'
    BY <2>1, <2>2 DEF Clearing, WipeComes
  <2> QED  BY <1>d, <2>1, <2>5, <2>6
<1>26. ASSUME NEW s \in Sessions, ChildRuns(s) PROVE Runs'
  BY <1>26, RunChild
<1> QED
  BY <1>1, <1>2, <1>3, <1>4, <1>5, <1>6, <1>7, <1>8, <1>9, <1>10, <1>11, <1>12, <1>13, <1>14,
     <1>15, <1>16, <1>17, <1>18, <1>19, <1>20, <1>21, <1>22, <1>23, <1>24, <1>25, <1>26
     DEF Next, Machine, Network, Staff

LEMMA ImportsGrow ==
    ASSUME Next
    PROVE  imports' = imports \/ imports' = imports + 1
<1> USE DEF diskVars
<1>1. ASSUME NEW t \in Tabs, Machine(t) PROVE imports' = imports
  BY <1>1, Zenon DEF Machine, Work, Inserted, Dated, Wiped, Undated, Listed, Refused, SaveSettled
<1>2. ASSUME NEW t \in Tabs, Staff(t) PROVE imports' = imports \/ imports' = imports + 1
  BY <1>2 DEF Staff, Add, Register, Save, Close, Stay, Look, ClearPending, Export, Import, Select, Process, AskUpload
<1>3. ASSUME NEW u \in Uploads, Network(u) PROVE imports' = imports
  BY <1>3 DEF Network, GotExceptions, LoadCheck, LoadAppend, Loaded, NotLoaded
<1>4. ASSUME NEW s \in Sessions, ChildRuns(s) PROVE imports' = imports
  BY <1>4 DEF ChildRuns
<1> QED  BY <1>1, <1>2, <1>3, <1>4, Zenon DEF Next

LEMMA RunStep ==
    ASSUME TypeOK, Known, RunTrue, Next
    PROVE  RunTrue'
<1>1. ASSUME Ordered' PROVE Ordered
  <2>1. Orderly' <=> Orderly
    BY DEF Next, Orderly, Hurries, MayClose, MayRefuse, MayLose
  <2>2. imports \in Nat /\ (imports' = imports \/ imports' = imports + 1)
    BY ImportsGrow DEF TypeOK
  <2> QED  BY <1>1, <2>1, <2>2 DEF Ordered
<1> QED  BY <1>1, RunIs, RunsStep
-----------------------------------------------------------------------------
(* All of it together.                                                     *)

LEMMA OfflineInit == Init => OfflineIInv
<1> SUFFICES ASSUME Init PROVE OfflineIInv
  OBVIOUS
<1> USE DEF Init
<1>1. KeptIInv
  BY KeptInit
<1>2. /\ \A t \in Tabs : mail[t] = <<>> /\ saving[t] = {} /\ page[t] = {}
      /\ \A u \in Uploads : up[u].pc = "none"
      /\ \A s \in Sessions : kids[s] = <<>> /\ scripts[s] = 0 /\ ~ended[s]
      /\ \A s \in Sessions : \A x \in Xacts : file[s][x] = 0
      /\ \A x \in Xacts : stored[x] = 0 /\ ran[x] = 0
      /\ ~date
  BY DEF NoUpload, NoRows
<1>3. \A t \in Tabs : \A i \in DOMAIN mail[t] : FALSE
  BY <1>1, <1>2, TypeMails, MailType, EmptySeq DEF KeptIInv
<1>4. DateTrue
  <2>1. SavesDate /\ ReqsDate /\ AllApart
    BY <1>2, <1>3 DEF SavesDate, ReqsDate, AllApart
  <2>2. \A u \in Uploads : UpDate(u)
    BY <1>2 DEF UpDate, Begun
  <2>3. DateFlag
    BY <1>2 DEF DateFlag, In
  <2> QED  BY <2>1, <2>2, <2>3, DateIs DEF Dates
<1>5. RunTrue
  <2>1. InMail = {} /\ ~WipeComes
    BY <1>3 DEF InMail, WipeComes
  <2>2. Waiting /\ PagesWait /\ WipesAlone /\ Distinct /\ Forms /\ AllGranted
    BY <1>2, <1>3, <2>1 DEF Waiting, PagesWait, WipesAlone, Distinct, Forms, AllGranted
  <2>3. \A u \in Uploads : UpRun(u)
    BY <1>2 DEF UpRun, Active
  <2>4. Once
    <3>1. Len(<<>>) = 0
      BY EmptySeq
    <3> QED  BY <1>2, <3>1 DEF Once, Stock, Scripts, Files, RanOnce
  <2> QED  BY <2>2, <2>3, <2>4, RunIs DEF Runs
<1> QED  BY <1>1, <1>4, <1>5 DEF KeptIInv, OfflineIInv

LEMMA OfflineStep == OfflineIInv /\ [Next]_vars => OfflineIInv'
<1> SUFFICES ASSUME OfflineIInv, [Next]_vars PROVE OfflineIInv'
  OBVIOUS
<1>1. KeptIInv /\ DateTrue /\ RunTrue /\ TypeOK /\ Known /\ OneBusy
  BY DEF OfflineIInv, KeptIInv
<1>2. KeptIInv'
  BY <1>1, KeptStep
<1>3. CASE Next
  BY <1>1, <1>2, <1>3, DateStep, RunStep DEF OfflineIInv, KeptIInv
<1>4. CASE UNCHANGED vars
  <2> USE <1>4 DEF vars, tabVars, storeVars, diskVars, serverVars, staffVars
  <2>1. InMail' = InMail /\ (\A t \in Tabs : Busy(t)' <=> Busy(t)) /\ (Clearing' <=> Clearing)
    BY DEF InMail, Busy, Uploading, Clearing, WipeComes
  <2>2. Dates => Dates'
    BY DEF Dates, SavesDate, ReqsDate, ReqDate, AllApart, Apart, UpDate, Alive, DateFlag, DateComes, DateGoes
  <2>3. DateTrue'
    BY <1>1, <2>2, DateIs DEF Dutiful, Hurries, MayClose, MayRefuse
  <2>4. Runs => Runs'
    BY <2>1 DEF Runs, Waiting, Nowhere, PagesWait, WipesAlone, WipeComes, UpRun, Active, Alive, Processing, Once,
                Stock, Scripts, Files, Filed, RanOnce, Distinct, Forms, AllGranted, Granted
  <2>5. RunTrue'
    BY <1>1, <2>4, RunIs DEF Ordered, Orderly, Hurries, MayClose, MayRefuse, MayLose
  <2> QED  BY <1>2, <2>3, <2>5 DEF KeptIInv, OfflineIInv
<1> QED  BY <1>3, <1>4

\* The whole invariant: who may be where, who is busy, what is safe, what the date
\* says and how often a transaction has been run (OfflineIInv).
THEOREM OfflineInductive == Spec => []OfflineIInv
  BY OfflineInit, OfflineStep, PTL DEF Spec

\* Whatever staff do with one tab at a time, no tab closed and nothing refused: when
\* nothing is under way, the login page's date is there just when transactions wait
\* (addOfflineXact, destroyPendingOfflineXacts, havePendingOfflineXacts).
THEOREM DateRight == Spec => []DateTells
<1>1. OfflineIInv => DateTells
  <2> SUFFICES ASSUME OfflineIInv, Dutiful, Quiet PROVE date <=> In(stored) # {}
    BY DEF DateTells, Dutiful
  <2>1. \A t \in Tabs : \A i \in DOMAIN mail[t] : FALSE
    BY BusyIs DEF OfflineIInv, Quiet
  <2>2. ~DateComes /\ ~DateGoes
    BY <2>1 DEF DateComes, DateGoes
  <2>3. DateFlag /\ date \in BOOLEAN
    BY DateIs DEF OfflineIInv, Dates, TypeOK
  <2> QED  BY <2>2, <2>3 DEF DateFlag
<1> QED  BY <1>1, OfflineInductive, PTL

\* Careful staff lose no transaction, orderly staff have none run twice, and without
\* clicks in between none goes to another session, for any number of tabs,
\* transactions, sessions and uploads (save, uploadPending, clear_pending, ol_load and
\* ol_execute).
THEOREM OfflineSafe == Spec => []OfflineInv
<1>1. OfflineIInv => TypeOK /\ RunOnce
  <2> SUFFICES ASSUME OfflineIInv, Ordered PROVE \A x \in Xacts : ran[x] <= 1
    BY DEF RunOnce, Ordered, OfflineIInv
  <2>1. Runs
    BY RunIs DEF OfflineIInv
  <2> QED  BY <2>1 DEF Runs, Once, RanOnce
<1> QED  BY <1>1, OfflineInductive, NoneLost, SentRight, PTL DEF OfflineInv

=============================================================================
