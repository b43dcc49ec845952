------------------------- MODULE CheckoutDeskProofs -------------------------
(***************************************************************************)
(* What CheckoutDesk promises holds for any patrons, copies, barcodes and  *)
(* desks, and any number of scans and pages.  DeskIInv is the invariant;   *)
(* its parts are about the order of attempts, the rows of the list, the    *)
(* loads, the counts, the pending barcodes and the events that were shown, *)
(* and every step is looked at once for each of them.                      *)
(***************************************************************************)
EXTENDS CheckoutDesk, FiniteSetTheorems, SequenceTheorems, NaturalsInduction,
        WellFoundedInduction, TLAPS

--------------------------------------------------------------------------
(* Why they hold *)

\* Attempts are made one after the other, for the visit and the list there are then; a
\* list has a row at most for each of its attempts, the last one on top; the counts
\* leave room for the attempts to come.
InOrder ==
    /\ list <= page.visit
    /\ \A i \in Waiting : \A j \in Attempts : i <= j => j \in Waiting
    /\ \A i \in Attempts :
          /\ att[i].list <= list /\ att[i].visit <= page.visit
          /\ att[i].st = "typed" => att[i].copy = Nobody
          /\ att[i].st \in InFlight \cup {"done"} =>
                 /\ att[i].patron # Nobody /\ att[i].typed # Nobody
                 /\ att[i].st # "typed" => att[i].copy \in Copies
    /\ \A k \in DOMAIN rows :
          /\ rows[k].of \notin Waiting /\ att[rows[k].of].list = list
          /\ Len(rows) < rows[k].of + k
          /\ \A j \in DOMAIN rows : j < k => rows[k].of < rows[j].of
    /\ stats # NoStats =>
          stats <= Cardinality(Copies) + Cardinality({i \in Attempts : att[i].st = "done"})

\* When scans are waited for, the attempt in flight is the one of the first row, and
\* the row has the index by which it is looked for.
OneByOne ==
    "scan" \notin Hurries =>
        /\ \A i, j \in Running : i = j
        /\ \A k \in DOMAIN rows : rows[k].index + k = Len(rows)
        /\ \A i \in Running : att[i].list = list =>
              rows # <<>> /\ rows[1].of = i /\ att[i].index = rows[1].index

\* When loads are waited for, there is one at a time, for the patron of the page; rows
\* appear when it is done, so that no checkout of theirs fails for want of counts.
LoadsTrue ==
    Loaded =>
        /\ \A l, m \in loads : l = m
        /\ loads = {} => /\ current = page.at /\ primary = Nobody
                         /\ current # Nobody => stats # NoStats
        /\ \A l \in loads : /\ l.of = page.at /\ primary = l.of
                            /\ l.step # "user" => current = l.of
                            /\ l.step = "extras" => stats # NoStats
        /\ rows # <<>> => stats # NoStats

\* Why the counts are true: what the server has said to an attempt stays so, and each
\* item is counted when its answer is heard.
Uncounted == {i \in Attempts : att[i].st = "served" /\ att[i].answer = "ok"
                                /\ att[i].action = "checkout"}
Heard(a) ==
    /\ a.st = "served" /\ a.answer = "ok" => lent[a.copy] = a.patron
    /\ a.st \in {"served", "exists", "returning"} /\ a.answer = "other" => lent[a.copy] # a.patron
    /\ a.st = "returning" => a.answer = "other"
CountsTrue ==
    Steady =>
        /\ \A l, m \in loads : l = m
        /\ loads # {} => Running = {}
        /\ \A l \in loads :
              /\ IF l.step = "user" THEN stats = NoStats ELSE current = l.of
              /\ l.step = "served" => l.out = OutOf(l.of)
        /\ \A i \in Running :
              /\ att[i].patron = current /\ att[i].visit = page.visit
              /\ Heard(att[i])
        /\ stats # NoStats /\ current # Nobody => stats + Cardinality(Uncounted) = OutOf(current)

\* What the rows show as checked out stays with the patron of the page.
LentTrue ==
    Hurries = {} /\ Loaded =>
        \A k \in DOMAIN rows : rows[k].filled => lent[att[rows[k].of].copy] = page.at

\* The pending barcodes are those of the attempts of this visit that are in flight.
PendingTrue ==
    InFull =>
        /\ \A i \in Running : att[i].typed \in Copies /\ att[i].copy \in {att[i].typed, Nobody}
        /\ \A i \in Running : att[i].visit = page.visit => att[i].typed \in pending

\* What will be overridden was shown, or will be in the dialog about the alert.
Unasked(a) == Events(a.patron, a.copy, a.action)
ShownTrue ==
    /\ auto \subseteq AutoAfterFirst
    /\ auto # {} => \E p \in Owing : <<p, Fines>> \in confirmed
    /\ \A i \in Attempts :
          LET a == att[i] IN
          /\ a.st = "typed" => ~a.override
          /\ Fines \in a.evts => a.patron \in Owing
          /\ a.st \in {"status", "override", "alert"} \/ (a.st = "served" /\ a.answer = "events") =>
                Unasked(a) \subseteq a.evts
          /\ a.st = "status" => Unavailable \in a.evts
          /\ a.st = "override" => Unavailable \notin a.evts
          /\ Cardinality(Owing) <= 1 =>
                /\ \A e \in a.over : Passed(a, e)
                /\ a.st = "alert" => \A e \in Unasked(a) \ {Alert} : Passed(a, e)
                /\ a.override /\ a.st \in InFlight \ {"alert"} => \A e \in Unasked(a) : Passed(a, e)

DeskIInv ==
    /\ TypeOK /\ InOrder
    /\ RowsTrue /\ OneByOne
    /\ RowsFilled /\ RightPatron /\ LoadsTrue
    /\ CountsTrue /\ LentTrue
    /\ PendingUnderWay /\ OneAttempt /\ PendingTrue
    /\ ShownTrue

-----------------------------------------------------------------------------
(* Sequences.                                                              *)

\* A sequence with an element in front.
LEMMA PrependIs ==
    ASSUME NEW S, NEW s \in Seq(S), NEW e \in S
    PROVE  /\ <<e>> \o s \in Seq(S) /\ Len(<<e>> \o s) = Len(s) + 1
           /\ (<<e>> \o s)[1] = e /\ \A k \in 1..Len(s) : (<<e>> \o s)[k + 1] = s[k]
<1>1. <<e>> \in Seq(S) /\ Len(<<e>>) = 1 /\ <<e>>[1] = e
  OBVIOUS
<1> DEFINE f == <<e>>
<1> HIDE DEF f
<1>2. /\ f \o s \in Seq(S) /\ Len(f \o s) = Len(f) + Len(s)
      /\ \A i \in 1..Len(f) + Len(s) : (f \o s)[i] = IF i <= Len(f) THEN f[i] ELSE s[i - Len(f)]
  BY <1>1, ConcatProperties DEF f
<1>3. Len(f) = 1 /\ f[1] = e /\ Len(s) \in Nat
  BY <1>1, LenProperties DEF f
<1>4. (f \o s)[1] = e /\ \A k \in 1..Len(s) : (f \o s)[k + 1] = s[k]
  BY <1>2, <1>3
<1> QED  BY <1>2, <1>3, <1>4 DEF f

\* A sequence without one of its elements.
LEMMA RemoveAtIs ==
    ASSUME NEW S, NEW s \in Seq(S), NEW p \in 1..Len(s)
    PROVE  /\ RemoveAt(s, p) \in Seq(S) /\ Len(RemoveAt(s, p)) = Len(s) - 1
           /\ \A k \in 1..(Len(s) - 1) :
                 RemoveAt(s, p)[k] = IF k < p THEN s[k] ELSE s[k + 1]
<1> DEFINE a == SubSeq(s, 1, p - 1)
           b == SubSeq(s, p + 1, Len(s))
<1>1. Len(s) \in Nat /\ \A i \in 1..Len(s) : s[i] \in S
  BY LenProperties
<1>2. a \in Seq(S) /\ Len(a) = p - 1 /\ \A i \in 1..(p - 1) : a[i] = s[i]
  <2>1. p - 1 \in Int /\ \A i \in 1..(p - 1) : s[i] \in S
    BY <1>1
  <2>2. /\ SubSeq(s, 1, p - 1) \in Seq(S)
        /\ Len(SubSeq(s, 1, p - 1)) = IF 1 <= p - 1 THEN p - 1 - 1 + 1 ELSE 0
        /\ \A i \in 1..(p - 1 - 1 + 1) : SubSeq(s, 1, p - 1)[i] = s[1 + i - 1]
    BY <2>1, SubSeqProperties
  <2> QED  BY <1>1, <2>2
<1>3. b \in Seq(S) /\ Len(b) = Len(s) - p /\ \A i \in 1..(Len(s) - p) : b[i] = s[p + i]
  <2>1. p + 1 \in Int /\ Len(s) \in Int /\ \A i \in (p + 1)..Len(s) : s[i] \in S
    BY <1>1
  <2>2. /\ SubSeq(s, p + 1, Len(s)) \in Seq(S)
        /\ Len(SubSeq(s, p + 1, Len(s))) = IF p + 1 <= Len(s) THEN Len(s) - (p + 1) + 1 ELSE 0
        /\ \A i \in 1..(Len(s) - (p + 1) + 1) : SubSeq(s, p + 1, Len(s))[i] = s[(p + 1) + i - 1]
    BY <2>1, SubSeqProperties
  <2> QED  BY <1>1, <2>2
<1> HIDE DEF a, b
<1>4. /\ a \o b \in Seq(S) /\ Len(a \o b) = Len(a) + Len(b)
      /\ \A i \in 1..Len(a) + Len(b) : (a \o b)[i] = IF i <= Len(a) THEN a[i] ELSE b[i - Len(a)]
  BY <1>2, <1>3, ConcatProperties
<1>5. ASSUME NEW k \in 1..(Len(s) - 1)
      PROVE  (a \o b)[k] = IF k < p THEN s[k] ELSE s[k + 1]
  <2>1. p \in Nat \ {0} /\ k \in Nat \ {0} /\ k \in 1..Len(a) + Len(b)
    BY <1>1, <1>2, <1>3
  <2>2. (a \o b)[k] = IF k <= p - 1 THEN a[k] ELSE b[k - (p - 1)]
    BY <1>2, <1>4, <2>1
  <2>3. CASE k < p
    BY <1>2, <2>1, <2>2, <2>3
  <2>4. CASE k >= p
    <3>1. k - (p - 1) \in 1..(Len(s) - p) /\ p + (k - (p - 1)) = k + 1
      BY <1>1, <2>1, <2>4
    <3>2. b[k - (p - 1)] = s[k + 1]
      BY <1>3, <3>1
    <3> QED  BY <2>1, <2>2, <2>4, <3>2
  <2> QED  BY <2>1, <2>3, <2>4
<1>6. RemoveAt(s, p) = a \o b
  BY DEF RemoveAt, a, b
<1> QED  BY <1>1, <1>2, <1>3, <1>4, <1>5, <1>6

\* A stack of dialogs grows by one that is not in it.
LEMMA Push ==
    ASSUME NEW S, NEW s \in Seq(S), IsInjective(s), NEW e \in S, e \notin ToSet(s)
    PROVE  /\ Append(s, e) \in Seq(S) /\ IsInjective(Append(s, e))
           /\ ToSet(Append(s, e)) = ToSet(s) \cup {e}
<1> DEFINE t == Append(s, e)
<1>1. /\ DOMAIN s = 1..Len(s) /\ Len(s) \in Nat /\ DOMAIN t = 1..(Len(s) + 1) /\ t \in Seq(S)
      /\ \A i \in 1..Len(s) : t[i] = s[i]
      /\ t[Len(s) + 1] = e
  BY AppendProperties, LenProperties
<1> HIDE DEF t
<1>2. \A x : x \in ToSet(t) <=> x \in ToSet(s) \/ x = e
  BY <1>1 DEF ToSet
<1>3. IsInjective(t)
  BY <1>1 DEF ToSet, IsInjective
<1> QED  BY <1>1, <1>2, <1>3 DEF t

\* And loses its last one.
LEMMA Pop ==
    ASSUME NEW S, NEW s \in Seq(S), IsInjective(s), s # <<>>
    PROVE  /\ Front(s) \in Seq(S) /\ IsInjective(Front(s))
           /\ Last(s) \in ToSet(s) /\ ToSet(Front(s)) = ToSet(s) \ {Last(s)}
<1> DEFINE t == Front(s)
           n == Len(s) - 1
<1>1. Len(s) \in Nat \ {0} /\ DOMAIN s = 1..Len(s) /\ \A i \in 1..Len(s) : s[i] \in S
  BY LenProperties, EmptySeq
<1>2. n \in Int /\ n \in Nat /\ \A i \in 1..n : s[i] \in S
  BY <1>1
<1> HIDE DEF n
<1>3. /\ t \in Seq(S) /\ Len(t) = (IF 1 <= n THEN n - 1 + 1 ELSE 0)
      /\ \A i \in 1..(n - 1 + 1) : t[i] = s[1 + i - 1]
  BY <1>2, SubSeqProperties DEF Front, n
<1> HIDE DEF t
<1>4. Len(t) = n /\ DOMAIN t = 1..n /\ \A i \in 1..n : t[i] = s[i]
  <2>1. n - 1 + 1 = n /\ Len(t) = n
    <3>1. Len(t) = IF 1 <= n THEN n - 1 + 1 ELSE 0
      BY <1>3
    <3> QED  BY <1>2, <3>1
  <2>2. ASSUME NEW i \in 1..n PROVE t[i] = s[i]
    <3>1. 1 + i - 1 = i /\ i \in 1..(n - 1 + 1)
      BY <1>2, <2>1
    <3>2. t[i] = s[1 + i - 1]
      BY <1>3, <3>1
    <3> QED  BY <3>1, <3>2
  <2>3. DOMAIN t = 1..Len(t)
    BY <1>3, LenProperties
  <2> QED  BY <2>1, <2>2, <2>3
<1>5. IsInjective(t)
  BY <1>1, <1>4 DEF IsInjective, n
<1>6. Last(s) \in ToSet(s)
  BY <1>1 DEF Last, ToSet
<1>7. \A x : x \in ToSet(t) <=> x \in ToSet(s) /\ x # Last(s)
  BY <1>1, <1>4 DEF ToSet, IsInjective, Last, n
<1> QED  BY <1>3, <1>5, <1>6, <1>7 DEF t

-----------------------------------------------------------------------------
(* Attempts.                                                               *)

\* Numbers.
LEMMA NumbersType ==
    /\ MaxScans \in Nat /\ MaxOpens \in Nat /\ Cardinality(Copies) \in Nat
    /\ NoStats \in Nat /\ NoStats = MaxScans + Cardinality(Copies) + 1
    /\ Attempts = 1..MaxScans /\ Attempts \subseteq Nat /\ IsFiniteSet(Attempts)
    /\ Cardinality(Attempts) = MaxScans
    /\ \A T \in SUBSET Attempts : IsFiniteSet(T) /\ Cardinality(T) \in Nat /\ Cardinality(T) <= MaxScans
<1>1. MaxScans \in Nat /\ MaxOpens \in Nat /\ Cardinality(Copies) \in Nat
  BY DeskAssumption, FS_CardinalityType
<1>2. IsFiniteSet(1..MaxScans) /\ Cardinality(1..MaxScans) = MaxScans
  BY SMTT(30), <1>1, FS_Interval
<1>3. \A T \in SUBSET (1..MaxScans) :
         IsFiniteSet(T) /\ Cardinality(T) \in Nat /\ Cardinality(T) <= MaxScans
  BY <1>2, FS_Subset, FS_CardinalityType
<1> QED  BY <1>1, <1>2, <1>3 DEF NoStats, Attempts

\* What a patron has is at most what there is.
LEMMA OutOfType ==
    ASSUME NEW p
    PROVE  OutOf(p) \in 0..Cardinality(Copies)
<1>1. {c \in Copies : lent[c] = p} \in SUBSET Copies
  OBVIOUS
<1>2. /\ Cardinality({c \in Copies : lent[c] = p}) <= Cardinality(Copies)
      /\ Cardinality({c \in Copies : lent[c] = p}) \in Nat
  BY <1>1, DeskAssumption, FS_Subset, FS_CardinalityType
<1> QED  BY <1>2, NumbersType DEF OutOf

\* One attempt goes on, for the same patron, list and visit, and the page stays as it is.
Goes(i) ==
    /\ att[i].st \in InFlight /\ att' \in [Attempts -> Attempt]
    /\ \A j \in Attempts : j # i => att'[j] = att[j]
    /\ att'[i].patron = att[i].patron /\ att'[i].typed = att[i].typed
    /\ att'[i].visit = att[i].visit /\ att'[i].list = att[i].list
    /\ att'[i].index = att[i].index
    /\ att'[i].st \notin {"unused", "typed"}
    /\ att[i].st # "typed" => att'[i].copy = att[i].copy
    /\ att[i].st = "typed" /\ att'[i].st # "rejected" =>
          /\ att'[i].copy \in Copies
          /\ att[i].typed \in Copies => att'[i].copy = att[i].typed
    /\ UNCHANGED <<page, current, loads, primary, list>>
\* Its row stays as it is, is taken off the list, or is filled.
Stays(i) == att'[i].st \in InFlight /\ UNCHANGED <<rows, pending, stats>>
Drops(i) == Reject(i) /\ UNCHANGED stats

\* Another state for an attempt.
LEMMA GoesTo ==
    ASSUME TypeOK, NEW i \in Attempts, att[i].st \in InFlight,
           NEW a \in Attempt, att' = [att EXCEPT ![i] = a],
           a.patron = att[i].patron, a.typed = att[i].typed, a.visit = att[i].visit,
           a.list = att[i].list, a.index = att[i].index, a.st \notin {"unused", "typed"},
           att[i].st # "typed" => a.copy = att[i].copy,
           att[i].st = "typed" /\ a.st # "rejected" =>
              /\ a.copy \in Copies /\ (att[i].typed \in Copies => a.copy = att[i].typed),
           UNCHANGED <<page, current, loads, primary, list>>
    PROVE  Goes(i) /\ att'[i] = a
BY DEF TypeOK, Goes

\* A rejected attempt.
LEMMA RejectGoes ==
    ASSUME TypeOK, NEW i \in Attempts, att[i].st \in InFlight, Reject(i),
           UNCHANGED <<page, current, loads, primary, list>>
    PROVE  Goes(i) /\ att'[i] = [att[i] EXCEPT !.st = "rejected"]
<1> DEFINE a == [att[i] EXCEPT !.st = "rejected"]
<1>1. att' = [att EXCEPT ![i] = a] /\ att[i] \in Attempt
  BY DEF Reject, TypeOK
<1>2. /\ a \in Attempt /\ a.st = "rejected" /\ a.copy = att[i].copy
      /\ a.patron = att[i].patron /\ a.typed = att[i].typed /\ a.visit = att[i].visit
      /\ a.list = att[i].list /\ a.index = att[i].index
  BY <1>1 DEF Attempt
<1> HIDE DEF a
<1>3. Goes(i) /\ att'[i] = a
  BY <1>1, <1>2, GoesTo
<1> QED  BY <1>3 DEF a

\* Every step of an attempt but an answer "ok" keeps its row or takes it off.
LEMMA StepGoes ==
    ASSUME TypeOK, InOrder, NEW i \in Attempts, AttemptStep(i)
    PROVE  Goes(i) /\ (Stays(i) \/ Drops(i) \/ Finish(i))
<1>1. att[i] \in Attempt /\ att \in [Attempts -> Attempt]
  BY DEF TypeOK
<1> DEFINE x == att[i]
           C(a) == /\ a \in Attempt
                   /\ a.patron = x.patron /\ a.typed = x.typed /\ a.visit = x.visit
                   /\ a.list = x.list /\ a.index = x.index
                   /\ (x.st # "typed" => a.copy = x.copy)
                   /\ (x.st = "typed" => a.copy \in Copies /\ (x.typed \in Copies => a.copy = x.typed))
<1>2. ASSUME NEW a, C(a), a.st \in InFlight \ {"typed"}, x.st \in InFlight,
             att' = [att EXCEPT ![i] = a],
             UNCHANGED <<page, current, loads, primary, list>>, UNCHANGED <<rows, pending, stats>>
      PROVE  Goes(i) /\ Stays(i)
  <2>1. a.st \notin {"unused", "typed"}
    BY <1>2 DEF InFlight, Asking
  <2>2. Goes(i) /\ att'[i] = a
    BY <1>2, <2>1, GoesTo
  <2> QED  BY <1>2, <2>2 DEF Stays
<1>3. ASSUME x.st \in InFlight, Reject(i),
             UNCHANGED <<page, current, loads, primary, list>>, UNCHANGED stats
      PROVE  Goes(i) /\ Drops(i)
  BY <1>3, RejectGoes DEF Drops
<1>4. i \in ToSet(dialogs) => x.st \in Asking /\ x.st \in InFlight
  BY DEF TypeOK, InFlight
<1>5. OnTop(i) => i \in ToSet(dialogs)
  BY Pop DEF OnTop, TypeOK
<1>6. {"typed", "sent", "served", "returning"} \cup Asking = InFlight
  BY DEF InFlight
<1>7. CASE Complete(i)
  <2> DEFINE found == IF x.typed \in Shorts THEN Matches[x.typed] ELSE {x.typed}
  <2>1. x.st = "typed" /\ x.typed \in Codes /\ x.st \in InFlight
    BY <1>1, <1>6, <1>7 DEF Complete, InOrder, Attempt
  <2>2. UNCHANGED <<page, current, loads, primary, list, stats>>
    BY <1>7 DEF Complete, patronVars
  <2>3. CASE \E c \in found : Resend(i, [att[i] EXCEPT !.copy = c]) /\ UNCHANGED <<rows, pending>>
    <3>1. PICK c \in found : Resend(i, [att[i] EXCEPT !.copy = c])
      BY <2>3
    <3>2. UNCHANGED <<rows, pending>>
      BY <2>3
    <3>3. c \in Copies /\ (x.typed \in Copies => c = x.typed)
      BY <2>1, DeskAssumption DEF Codes
    <3> DEFINE a == [[att[i] EXCEPT !.copy = c] EXCEPT !.st = "sent"]
    <3>4. att' = [att EXCEPT ![i] = a]
      BY <3>1 DEF Resend
    <3>5. C(a) /\ a.st \in InFlight \ {"typed"}
      BY ZenonT(30), <1>1, <2>1, <3>3 DEF Attempt, InFlight, Asking
    <3> HIDE DEF a, C
    <3> QED  BY <1>2, <2>1, <2>2, <3>2, <3>4, <3>5
  <2>4. CASE Reject(i)
    BY <1>3, <2>1, <2>2, <2>4
  <2> QED  BY <1>7, <2>3, <2>4 DEF Complete
<1>8. CASE Serve(i)
  <2> DEFINE evts == Events(x.patron, x.copy, x.action)
             a == [x EXCEPT !.st = "served", !.answer = Answer(i),
                            !.evts = IF Answer(i) = "events" THEN evts ELSE {},
                            !.over = IF Answer(i) = "ok" THEN evts ELSE x.over]
  <2>1. x.st = "sent" /\ x.st \in InFlight /\ x.st # "typed"
    BY <1>6, <1>8 DEF Serve
  <2>2. evts \subseteq Overridable /\ Answer(i) \in {"none", "ok", "events", "own", "other", "auto", "refused"}
    BY DEF Events, Answer
  <2>3. att' = [att EXCEPT ![i] = a]
    BY <1>1, <1>8 DEF Serve
  <2>4. C(a) /\ a.st \in InFlight \ {"typed"}
    <3> DEFINE E == IF Answer(i) = "events" THEN evts ELSE {}
               O == IF Answer(i) = "ok" THEN evts ELSE x.over
               w == Answer(i)
    <3>1. E \in SUBSET Overridable /\ O \in SUBSET Overridable
      BY <1>1, <2>2 DEF Attempt
    <3>2. a = [x EXCEPT !.st = "served", !.answer = w, !.evts = E, !.over = O]
      OBVIOUS
    <3>3. w \in {"none", "ok", "events", "own", "other", "auto", "refused"}
      BY <2>2
    <3> HIDE DEF E, O, w, a, evts
    <3> QED  BY <1>1, <2>1, <3>1, <3>2, <3>3 DEF Attempt, InFlight, Asking
  <2>5. UNCHANGED <<page, current, loads, primary, list, stats, rows, pending>>
    BY <1>8 DEF Serve, patronVars
  <2> HIDE DEF a, C
  <2> QED  BY <1>2, <2>1, <2>3, <2>4, <2>5
<1>9. CASE Finish(i)
  <2> DEFINE a == [x EXCEPT !.st = "done"]
  <2>1. x.st = "served" /\ x.st \in InFlight /\ att' = [att EXCEPT ![i] = a]
    BY <1>6, <1>9 DEF Finish
  <2>2. C(a) /\ a.st \notin {"unused", "typed"} /\ x.st # "typed"
    BY <1>1, <2>1 DEF Attempt
  <2>3. UNCHANGED <<page, current, loads, primary, list>>
    BY <1>9 DEF Finish
  <2> HIDE DEF a
  <2>4. Goes(i)
    BY <2>1, <2>2, <2>3, GoesTo
  <2> QED  BY <1>9, <2>4
<1>10. CASE Ask(i)
  <2>1. x.st = "served" /\ x.st \in InFlight /\ x.st # "typed"
    BY <1>6, <1>10 DEF Ask
  <2>2. UNCHANGED <<page, current, loads, primary, list, stats, rows, pending>>
    BY <1>10 DEF Ask, patronVars
  <2>3. CASE Resend(i, [att[i] EXCEPT !.override = TRUE])
    <3> DEFINE a == [[att[i] EXCEPT !.override = TRUE] EXCEPT !.st = "sent"]
    <3>1. att' = [att EXCEPT ![i] = a]
      BY <2>3 DEF Resend
    <3>2. C(a) /\ a.st \in InFlight \ {"typed"}
      BY ZenonT(30), <1>1, <2>1 DEF Attempt, InFlight, Asking
    <3> HIDE DEF a, C
    <3> QED  BY <1>2, <2>1, <2>2, <3>1, <3>2
  <2>4. CASE \E s \in Asking : att' = [att EXCEPT ![i].st = s]
    <3>1. PICK s \in Asking : att' = [att EXCEPT ![i].st = s]
      BY <2>4
    <3> DEFINE a == [att[i] EXCEPT !.st = s]
    <3>2. att' = [att EXCEPT ![i] = a]
      BY <3>1
    <3>3. C(a) /\ a.st \in InFlight \ {"typed"}
      BY <1>1, <2>1 DEF Attempt, InFlight, Asking
    <3> HIDE DEF a, C
    <3> QED  BY <1>2, <2>1, <2>2, <3>2, <3>3
  <2>5. \/ Resend(i, [att[i] EXCEPT !.override = TRUE])
        \/ \E s \in Asking : att' = [att EXCEPT ![i].st = s]
    BY <1>10 DEF Ask, Asking
  <2> QED  BY <2>3, <2>4, <2>5
<1>11. CASE AskOpen(i)
  <2>1. x.st = "served" /\ x.st \in InFlight /\ x.st # "typed"
    BY <1>6, <1>11 DEF AskOpen
  <2>2. UNCHANGED <<page, current, loads, primary, list, stats, rows, pending>>
    BY <1>11 DEF AskOpen, patronVars
  <2>3. CASE Resend(i, [att[i] EXCEPT !.action = "renew"])
    <3> DEFINE a == [[att[i] EXCEPT !.action = "renew"] EXCEPT !.st = "sent"]
    <3>1. att' = [att EXCEPT ![i] = a]
      BY <2>3 DEF Resend
    <3>2. C(a) /\ a.st \in InFlight \ {"typed"}
      BY ZenonT(30), <1>1, <2>1 DEF Attempt, InFlight, Asking
    <3> HIDE DEF a, C
    <3> QED  BY <1>2, <2>1, <2>2, <3>1, <3>2
  <2>4. CASE att' = [att EXCEPT ![i].st = "exists"]
    <3> DEFINE a == [att[i] EXCEPT !.st = "exists"]
    <3>2. att' = [att EXCEPT ![i] = a]
      BY <2>4
    <3>3. C(a) /\ a.st \in InFlight \ {"typed"}
      BY <1>1, <2>1 DEF Attempt, InFlight, Asking
    <3> HIDE DEF a, C
    <3> QED  BY <1>2, <2>1, <2>2, <3>2, <3>3
  <2> QED  BY <1>11, <2>3, <2>4 DEF AskOpen
<1>12. CASE Refused(i)
  BY <1>3, <1>6, <1>12 DEF Refused, patronVars
<1>13. CASE ConfirmEvents(i)
  <2> DEFINE y == [att[i] EXCEPT !.override = TRUE, !.seen = @ \cup Shown(i)]
  <2>1. x.st \in {"status", "override", "alert"} /\ x.st \in InFlight /\ x.st # "typed"
    BY <1>6, <1>13 DEF ConfirmEvents, Asking
  <2>2. UNCHANGED <<page, current, loads, primary, list, stats, rows, pending>>
    BY <1>13 DEF ConfirmEvents, patronVars
  <2>3. PICK s \in {"alert", "sent"} : att' = [att EXCEPT ![i] = [y EXCEPT !.st = s]]
    <3>1. \/ att' = [att EXCEPT ![i] = [y EXCEPT !.st = "alert"]]
          \/ att' = [att EXCEPT ![i] = [y EXCEPT !.st = "sent"]]
      BY <1>13 DEF ConfirmEvents, Resend
    <3> QED  BY <3>1
  <2> DEFINE a == [y EXCEPT !.st = s]
  <2>4. C(a) /\ a.st \in InFlight \ {"typed"}
    <3>1. Shown(i) \subseteq Overridable
      BY <1>1 DEF Shown, Attempt, Overridable
    <3> DEFINE T == x.seen \cup Shown(i)
    <3>2. T \in SUBSET Overridable
      BY <1>1, <3>1 DEF Attempt
    <3>3. a = [x EXCEPT !.override = TRUE, !.seen = T, !.st = s]
      BY <1>1 DEF Attempt
    <3> HIDE DEF T, a, y
    <3> QED  BY <1>1, <2>1, <3>2, <3>3 DEF Attempt, InFlight, Asking
  <2> HIDE DEF a, C, y
  <2>5. att' = [att EXCEPT ![i] = a]
    BY <2>3 DEF a
  <2> QED  BY <1>2, <2>1, <2>2, <2>4, <2>5
<1>14. CASE ConfirmOpen(i)
  <2>1. x.st = "exists" /\ x.st \in InFlight /\ x.st # "typed"
    BY <1>6, <1>14 DEF ConfirmOpen, Asking
  <2>2. UNCHANGED <<page, current, loads, primary, list, stats>>
    BY <1>14 DEF ConfirmOpen, patronVars
  <2>3. CASE Resend(i, [att[i] EXCEPT !.action = "renew"]) /\ UNCHANGED <<rows, pending>>
    <3> DEFINE a == [[att[i] EXCEPT !.action = "renew"] EXCEPT !.st = "sent"]
    <3>1. att' = [att EXCEPT ![i] = a]
      BY <2>3 DEF Resend
    <3>2. C(a) /\ a.st \in InFlight \ {"typed"}
      BY ZenonT(30), <1>1, <2>1 DEF Attempt, InFlight, Asking
    <3> HIDE DEF a, C
    <3> QED  BY <1>2, <2>1, <2>2, <2>3, <3>1, <3>2
  <2>4. CASE att' = [att EXCEPT ![i].st = "returning"] /\ UNCHANGED <<rows, pending>>
    <3> DEFINE a == [att[i] EXCEPT !.st = "returning"]
    <3>2. att' = [att EXCEPT ![i] = a]
      BY <2>4
    <3>3. C(a) /\ a.st \in InFlight \ {"typed"}
      BY <1>1, <2>1 DEF Attempt, InFlight, Asking
    <3> HIDE DEF a, C
    <3> QED  BY <1>2, <2>1, <2>2, <2>4, <3>2, <3>3
  <2>5. CASE Reject(i)
    BY <1>3, <2>1, <2>2, <2>5
  <2> QED  BY <1>14, <2>3, <2>4, <2>5 DEF ConfirmOpen
<1>15. CASE Cancel(i)
  BY <1>3, <1>4, <1>5, <1>15 DEF Cancel, patronVars
<1>16. CASE Return(i)
  <2>1. x.st = "returning" /\ x.st \in InFlight /\ x.st # "typed"
    BY <1>6, <1>16 DEF Return
  <2>2. UNCHANGED <<page, current, loads, primary, list, stats>>
    BY <1>16 DEF Return, patronVars
  <2>3. CASE Resend(i, att[i]) /\ UNCHANGED <<rows, pending>>
    <3> DEFINE a == [att[i] EXCEPT !.st = "sent"]
    <3>1. att' = [att EXCEPT ![i] = a]
      BY <2>3 DEF Resend
    <3>2. C(a) /\ a.st \in InFlight \ {"typed"}
      BY <1>1, <2>1 DEF Attempt, InFlight, Asking
    <3> HIDE DEF a, C
    <3> QED  BY <1>2, <2>1, <2>2, <2>3, <3>1, <3>2
  <2>4. CASE Reject(i)
    BY <1>3, <2>1, <2>2, <2>4
  <2> QED  BY <1>16, <2>3, <2>4 DEF Return
<1> QED  BY <1>7, <1>8, <1>9, <1>10, <1>11, <1>12, <1>13, <1>14, <1>15, <1>16
         DEF AttemptStep, Hear, Decide

\* Some positions in a sequence have a last one.
LEMMA HasLast ==
    ASSUME NEW n \in Nat, NEW T \in SUBSET (1..n), T # {}
    PROVE  \E x \in T : \A y \in T : y <= x
<1> DEFINE R == OpToRel(<, Nat)
           D == {n - k : k \in T}
<1>1. IsWellFoundedOn(R, Nat)
  BY NatLessThanWellFounded
<1>2. R = {ss \in Nat \X Nat : ss[1] < ss[2]}
  BY DEF OpToRel
<1>3. D \subseteq Nat /\ D # {}
  <2>1. \A k \in T : k \in 1..n /\ n - k \in Nat
    OBVIOUS
  <2> QED  BY <2>1
<1>4. PICK d \in D : \A y \in D : ~(<<y, d>> \in R)
  <2> HIDE DEF D, R
  <2> QED  BY <1>1, <1>3, WFMin
<1>5. PICK x \in T : d = n - x
  OBVIOUS
<1>6. ASSUME NEW y \in T PROVE y <= x
  <2>1. n - y \in D /\ n - y \in Nat /\ d \in Nat /\ y \in Nat /\ x \in Nat
    BY <1>3
  <2>2. ~(<<n - y, d>> \in R)
    BY <1>4, <2>1
  <2> HIDE DEF D, R
  <2>3. ~(n - y < d)
    BY <1>2, <2>1, <2>2
  <2> QED  BY <1>5, <2>1, <2>3
<1> QED  BY <1>6

-----------------------------------------------------------------------------
(* Rows.                                                                   *)

\* The sequence of rows without that at p.
LessRow(p) ==
    /\ rows' \in Seq(Row) /\ Len(rows') = Len(rows) - 1
    /\ \A k \in 1..(Len(rows) - 1) : rows'[k] = IF k < p THEN rows[k] ELSE rows[k + 1]

\* What splice takes is one row, the only one of its index when there is one.
LEMMA WithoutIs ==
    ASSUME TypeOK, NEW index, rows' = Without(index)
    PROVE  \/ rows = <<>> /\ UNCHANGED rows
           \/ \E p \in 1..Len(rows) :
                 /\ LessRow(p)
                 /\ \A k \in 1..Len(rows) :
                       (\A j \in 1..Len(rows) : rows[j].index = index <=> j = k) => p = k
<1>1. rows \in Seq(Row) /\ DOMAIN rows = 1..Len(rows) /\ Len(rows) \in Nat
  BY LenProperties DEF TypeOK
<1>2. CASE rows = <<>>
  BY <1>2 DEF Without
<1>3. CASE rows # <<>>
  <2> DEFINE at == {k \in DOMAIN rows : rows[k].index = index}
             p == IF at = {} THEN Len(rows) ELSE CHOOSE k \in at : \A j \in at : j <= k
  <2>1. Len(rows) > 0
    BY <1>1, <1>3, EmptySeq
  <2>2. p \in 1..Len(rows) /\ (at # {} => p \in at)
    <3>1. CASE at = {}
      BY <1>1, <2>1, <3>1
    <3>2. CASE at # {}
      <4>1. at \in SUBSET (1..Len(rows))
        BY <1>1
      <4> HIDE DEF at
      <4>2. \E k \in at : \A j \in at : j <= k
        BY <1>1, <3>2, <4>1, HasLast
      <4> QED  BY <3>2, <4>1, <4>2
    <3> QED  BY <3>1, <3>2
  <2>3. rows' = RemoveAt(rows, p)
    BY <1>3 DEF Without
  <2>4. \A k \in 1..Len(rows) :
           (\A j \in 1..Len(rows) : rows[j].index = index <=> j = k) => p = k
    <3> SUFFICES ASSUME NEW k \in 1..Len(rows),
                        \A j \in 1..Len(rows) : rows[j].index = index <=> j = k
                 PROVE  p = k
      OBVIOUS
    <3>1. at = {k}
      BY SMTT(30), <1>1
    <3> QED  BY <2>2, <3>1
  <2> HIDE DEF at, p
  <2>5. LessRow(p)
    BY <1>1, <2>2, <2>3, RemoveAtIs DEF LessRow
  <2> QED  BY <2>2, <2>4, <2>5
<1> QED  BY <1>2, <1>3

\* The rows as they are, some of them filled.
SameRows ==
    /\ rows' \in Seq(Row) /\ Len(rows') = Len(rows)
    /\ \A k \in 1..Len(rows) : rows'[k].of = rows[k].of /\ rows'[k].index = rows[k].index

\* Filling the rows of an attempt.
LEMMA FilledIs ==
    ASSUME TypeOK, NEW i \in Attempts, rows' = Filled(i)
    PROVE  /\ SameRows
           /\ \A k \in 1..Len(rows) :
                 rows'[k].filled = IF rows[k].of = i THEN TRUE ELSE rows[k].filled
<1>1. rows \in Seq(Row) /\ DOMAIN rows = 1..Len(rows) /\ Len(rows) \in Nat
  BY LenProperties DEF TypeOK
<1>2. \A k \in 1..Len(rows) : rows[k] \in Row
  BY <1>1
<1>3. rows' = [k \in 1..Len(rows) |-> IF rows[k].of = i
                 THEN [rows[k] EXCEPT !.filled = TRUE] ELSE rows[k]]
  BY <1>1 DEF Filled
<1>4. \A k \in 1..Len(rows) :
         /\ rows'[k] \in Row
         /\ rows'[k].of = rows[k].of /\ rows'[k].index = rows[k].index
         /\ rows'[k].filled = IF rows[k].of = i THEN TRUE ELSE rows[k].filled
  BY ZenonT(30), <1>2, <1>3 DEF Row
<1>5. rows' \in [1..Len(rows) -> Row]
  BY <1>2, <1>3 DEF Row
<1>6. rows' \in Seq(Row) /\ Len(rows') = Len(rows)
  <2>1. rows' \in Seq(Row)
    BY <1>1, <1>5, IsASeq
  <2>2. DOMAIN rows' = 1..Len(rows)
    BY <1>3
  <2> QED  BY <1>1, <2>1, <2>2, LenProperties
<1> QED  BY <1>4, <1>6 DEF SameRows

\* What an attempt's step does to the rows.
LEMMA RowsStep ==
    ASSUME TypeOK, NEW i \in Attempts, Stays(i) \/ Drops(i) \/ Finish(i)
    PROVE  SameRows \/ \E p \in 1..Len(rows) : Drops(i) /\ LessRow(p)
<1>1. CASE UNCHANGED rows
  BY <1>1 DEF SameRows, TypeOK
<1>2. CASE Drops(i) /\ rows' = Without(att[i].index)
  BY <1>1, <1>2, WithoutIs
<1>3. CASE rows' = Filled(i)
  BY <1>3, FilledIs
<1> QED  BY <1>1, <1>2, <1>3 DEF Stays, Drops, Reject, Finish

\* What becomes of an attempt that goes on.
LEMMA Sends ==
    ASSUME TypeOK, NEW i \in Attempts, AttemptStep(i)
    PROVE  LET x == att[i] IN
           \/ att'[i] = [x EXCEPT !.st = "rejected"] /\ Reject(i)
           \/ Complete(i) /\ \E c \in Copies \cup {x.typed} :
                 att'[i] = [x EXCEPT !.st = "sent", !.copy = c]
           \/ Serve(i) /\ att'[i] = [x EXCEPT !.st = "served", !.answer = Answer(i),
                 !.evts = IF Answer(i) = "events" THEN Unasked(x) ELSE {},
                 !.over = IF Answer(i) = "ok" THEN Unasked(x) ELSE x.over]
           \/ Finish(i) /\ att'[i] = [x EXCEPT !.st = "done"]
           \/ Ask(i) /\ att'[i] = [x EXCEPT !.st = "sent", !.override = TRUE]
           \/ Ask(i) /\ att'[i] = [x EXCEPT !.st = CASE Unavailable \in x.evts -> "status"
                                                     [] x.evts = {Alert} -> "alert"
                                                     [] OTHER -> "override"]
           \/ AskOpen(i) /\ att'[i] = [x EXCEPT !.st = "sent", !.action = "renew"]
           \/ AskOpen(i) /\ att'[i] = [x EXCEPT !.st = "exists"]
           \/ ConfirmEvents(i) /\ \E s \in {"alert", "sent"} :
                 att'[i] = [x EXCEPT !.st = s, !.override = TRUE, !.seen = x.seen \cup Shown(i)]
           \/ ConfirmOpen(i) /\ att'[i] = [x EXCEPT !.st = "sent", !.action = "renew"]
           \/ ConfirmOpen(i) /\ att'[i] = [x EXCEPT !.st = "returning"]
           \/ Return(i) /\ att'[i] = [x EXCEPT !.st = "sent"]
<1> DEFINE x == att[i]
<1>1. x \in Attempt /\ att \in [Attempts -> Attempt]
  BY DEF TypeOK
<1>2. ASSUME NEW a, att' = [att EXCEPT ![i] = a] PROVE att'[i] = a
  BY <1>1, <1>2
<1>3. Reject(i) => att'[i] = [x EXCEPT !.st = "rejected"]
  BY <1>1 DEF Reject
<1>4. ASSUME NEW c PROVE [[x EXCEPT !.copy = c] EXCEPT !.st = "sent"] = [x EXCEPT !.st = "sent", !.copy = c]
  BY <1>1 DEF Attempt
<1>5. [[x EXCEPT !.override = TRUE] EXCEPT !.st = "sent"] = [x EXCEPT !.st = "sent", !.override = TRUE]
  BY <1>1 DEF Attempt
<1>6. [[x EXCEPT !.action = "renew"] EXCEPT !.st = "sent"] = [x EXCEPT !.st = "sent", !.action = "renew"]
  BY <1>1 DEF Attempt
<1>7. ASSUME NEW s PROVE [[x EXCEPT !.override = TRUE, !.seen = @ \cup Shown(i)] EXCEPT !.st = s]
                     = [x EXCEPT !.st = s, !.override = TRUE, !.seen = x.seen \cup Shown(i)]
  <2> DEFINE T == x.seen \cup Shown(i)
  <2>1. [x EXCEPT !.override = TRUE, !.seen = @ \cup Shown(i)] = [x EXCEPT !.override = TRUE, !.seen = T]
    BY <1>1 DEF Attempt
  <2> HIDE DEF T
  <2>2. [[x EXCEPT !.override = TRUE, !.seen = T] EXCEPT !.st = s]
           = [x EXCEPT !.st = s, !.override = TRUE, !.seen = T]
    BY <1>1 DEF Attempt
  <2> QED  BY <2>1, <2>2 DEF T
<1>8. CASE Complete(i)
  <2>1. CASE Reject(i)
    BY <1>3, <2>1
  <2>2. CASE \E c \in Copies \cup {x.typed} : Resend(i, [x EXCEPT !.copy = c])
    <3>1. PICK c \in Copies \cup {x.typed} : Resend(i, [x EXCEPT !.copy = c])
      BY <2>2
    <3>2. att'[i] = [x EXCEPT !.st = "sent", !.copy = c]
      BY <1>2, <1>4, <3>1 DEF Resend
    <3> QED  BY <1>8, <3>2
  <2>3. x.typed \in Codes \/ x.typed = Nobody
    BY <1>1 DEF Attempt
  <2>4. (IF x.typed \in Shorts THEN Matches[x.typed] ELSE {x.typed}) \subseteq Copies \cup {x.typed}
    BY DeskAssumption
  <2> QED  BY <1>8, <2>1, <2>2, <2>4 DEF Complete
<1>9. CASE Serve(i)
  BY <1>1, <1>9 DEF Serve, Unasked
<1>10. CASE Finish(i)
  BY SMTT(30), <1>1, <1>10 DEF Finish
<1>11. CASE Ask(i)
  <2>1. CASE Resend(i, [x EXCEPT !.override = TRUE])
    BY <1>2, <1>5, <1>11, <2>1 DEF Resend
  <2>2. CASE att' = [att EXCEPT ![i].st = CASE Unavailable \in x.evts -> "status"
                                             [] x.evts = {Alert} -> "alert"
                                             [] OTHER -> "override"]
    <3> DEFINE s == CASE Unavailable \in x.evts -> "status" [] x.evts = {Alert} -> "alert"
                      [] OTHER -> "override"
    <3>1. att' = [att EXCEPT ![i].st = s]
      BY <2>2
    <3> HIDE DEF s
    <3>2. att'[i] = [x EXCEPT !.st = s]
      BY SMTT(30), <1>1, <3>1
    <3> QED  BY <1>11, <3>2 DEF s
  <2> QED  BY <1>11, <2>1, <2>2 DEF Ask
<1>12. CASE AskOpen(i)
  <2>1. CASE Resend(i, [x EXCEPT !.action = "renew"])
    BY <1>2, <1>6, <1>12, <2>1 DEF Resend
  <2>2. CASE att' = [att EXCEPT ![i].st = "exists"]
    BY <1>1, <1>12, <2>2
  <2> QED  BY <1>12, <2>1, <2>2 DEF AskOpen
<1>13. CASE Refused(i)
  BY <1>3, <1>13 DEF Refused
<1>14. CASE ConfirmEvents(i)
  <2> DEFINE a == [x EXCEPT !.override = TRUE, !.seen = @ \cup Shown(i)]
  <2>1. CASE att' = [att EXCEPT ![i] = [a EXCEPT !.st = "alert"]]
    <3>1. att'[i] = [x EXCEPT !.st = "alert", !.override = TRUE, !.seen = x.seen \cup Shown(i)]
      BY <1>2, <1>7, <2>1
    <3> QED  BY <1>14, <3>1
  <2>2. CASE Resend(i, a)
    <3>1. att'[i] = [x EXCEPT !.st = "sent", !.override = TRUE, !.seen = x.seen \cup Shown(i)]
      BY ZenonT(30), <1>2, <1>7, <2>2 DEF Resend
    <3> QED  BY SMTT(30), <1>14, <3>1
  <2> QED  BY <1>14, <2>1, <2>2 DEF ConfirmEvents
<1>15. CASE ConfirmOpen(i)
  <2>1. CASE Resend(i, [x EXCEPT !.action = "renew"])
    BY <1>2, <1>6, <1>15, <2>1 DEF Resend
  <2>2. CASE att' = [att EXCEPT ![i].st = "returning"]
    BY <1>1, <1>15, <2>2
  <2>3. CASE Reject(i)
    BY <1>3, <2>3
  <2> QED  BY <1>15, <2>1, <2>2, <2>3 DEF ConfirmOpen
<1>16. CASE Cancel(i)
  BY ZenonT(30), <1>3, <1>16 DEF Cancel
<1>17. CASE Return(i)
  <2>1. CASE Resend(i, x)
    BY <1>2, <1>17, <2>1 DEF Resend
  <2>2. CASE Reject(i)
    BY <1>3, <2>2
  <2> QED  BY <1>17, <2>1, <2>2 DEF Return
<1> QED  BY <1>8, <1>9, <1>10, <1>11, <1>12, <1>13, <1>14, <1>15, <1>16, <1>17
         DEF AttemptStep, Hear, Decide

\* An attempt that asks the server again, or for the first time.
LEMMA Resent ==
    ASSUME TypeOK, NEW i \in Attempts
    PROVE  /\ Reject(i) => att'[i].st = "rejected"
           /\ \A c : Resend(i, [att[i] EXCEPT !.copy = c]) => att'[i].st = "sent"
           /\ Resend(i, [att[i] EXCEPT !.override = TRUE]) => att'[i].st = "sent"
           /\ Resend(i, [att[i] EXCEPT !.action = "renew"]) => att'[i].st = "sent"
           /\ Resend(i, att[i]) => att'[i].st = "sent"
           /\ Resend(i, [att[i] EXCEPT !.override = TRUE, !.seen = @ \cup Shown(i)])
                 => att'[i].st = "sent"
<1> DEFINE x == att[i]
           y == [x EXCEPT !.override = TRUE, !.seen = @ \cup Shown(i)]
<1>1. x \in Attempt /\ att \in [Attempts -> Attempt]
  BY DEF TypeOK
<1>2. ASSUME NEW a, att' = [att EXCEPT ![i] = a] PROVE att'[i] = a
  BY <1>1, <1>2
<1>3. Reject(i) => att'[i].st = "rejected"
  BY <1>1 DEF Reject, Attempt
<1>4. \A c : [[x EXCEPT !.copy = c] EXCEPT !.st = "sent"].st = "sent"
  BY <1>1 DEF Attempt
<1>5. [[x EXCEPT !.override = TRUE] EXCEPT !.st = "sent"].st = "sent"
  BY <1>1 DEF Attempt
<1>6. [[x EXCEPT !.action = "renew"] EXCEPT !.st = "sent"].st = "sent"
  BY <1>1 DEF Attempt
<1>7. [x EXCEPT !.st = "sent"].st = "sent"
  BY <1>1 DEF Attempt
<1>8. [y EXCEPT !.st = "sent"].st = "sent"
  BY <1>1 DEF Attempt
<1> QED  BY ZenonT(30), <1>2, <1>3, <1>4, <1>5, <1>6, <1>7, <1>8 DEF Resend

-----------------------------------------------------------------------------
(* Types.                                                                  *)

DialogsOK ==
    /\ dialogs \in Seq(Attempts) /\ IsInjective(dialogs)
    /\ ToSet(dialogs) = {i \in Attempts : att[i].st \in Asking}

\* A dialog opens for an attempt that had none, goes on, or is answered on top.
LEMMA DialogsStep ==
    ASSUME DialogsOK, NEW i \in Attempts, Goes(i),
           \/ UNCHANGED dialogs /\ (att[i].st \in Asking <=> att'[i].st \in Asking)
           \/ dialogs' = Append(dialogs, i) /\ att[i].st \notin Asking /\ att'[i].st \in Asking
           \/ dialogs' = Front(dialogs) /\ OnTop(i) /\ att'[i].st \notin Asking
    PROVE  DialogsOK'
<1>1. \A j \in Attempts : j # i => att'[j] = att[j]
  BY DEF Goes
<1>2. CASE UNCHANGED dialogs /\ (att[i].st \in Asking <=> att'[i].st \in Asking)
  <2>1. {j \in Attempts : att'[j].st \in Asking} = {j \in Attempts : att[j].st \in Asking}
    BY <1>1, <1>2
  <2> QED  BY <1>2, <2>1 DEF DialogsOK
<1>3. CASE dialogs' = Append(dialogs, i) /\ att[i].st \notin Asking /\ att'[i].st \in Asking
  <2>1. {j \in Attempts : att'[j].st \in Asking} = {j \in Attempts : att[j].st \in Asking} \cup {i}
    BY <1>1, <1>3
  <2>2. i \notin ToSet(dialogs)
    BY <1>3 DEF DialogsOK
  <2>3. /\ Append(dialogs, i) \in Seq(Attempts) /\ IsInjective(Append(dialogs, i))
        /\ ToSet(Append(dialogs, i)) = ToSet(dialogs) \cup {i}
    BY <2>2, Push DEF DialogsOK
  <2> QED  BY <1>3, <2>1, <2>3 DEF DialogsOK
<1>4. CASE dialogs' = Front(dialogs) /\ OnTop(i) /\ att'[i].st \notin Asking
  <2>1. {j \in Attempts : att'[j].st \in Asking} = {j \in Attempts : att[j].st \in Asking} \ {i}
    BY <1>1, <1>4
  <2>2. /\ Front(dialogs) \in Seq(Attempts) /\ IsInjective(Front(dialogs))
        /\ ToSet(Front(dialogs)) = ToSet(dialogs) \ {i}
    BY <1>4, Pop DEF DialogsOK, OnTop
  <2> QED  BY <1>4, <2>1, <2>2 DEF DialogsOK
<1> QED  BY <1>2, <1>3, <1>4

\* What a step of an attempt does to its dialog, and to what is not of its row.
LEMMA StepTypes ==
    ASSUME TypeOK, InOrder, NEW i \in Attempts, AttemptStep(i)
    PROVE  /\ DialogsOK'
           /\ auto' \subseteq Overridable /\ confirmed' \subseteq Patrons \X Overridable
           /\ lent' \in [Copies -> Patrons \cup {Nobody}] /\ missing' \subseteq Copies
<1>1. /\ att[i] \in Attempt /\ att \in [Attempts -> Attempt] /\ DialogsOK
      /\ auto \subseteq Overridable /\ confirmed \subseteq Patrons \X Overridable
      /\ lent \in [Copies -> Patrons \cup {Nobody}] /\ missing \subseteq Copies
  BY DEF TypeOK, DialogsOK
<1>2. Goes(i) /\ att[i].st \in InFlight
  BY StepGoes DEF Goes
<1>3. Asking = {"status", "override", "alert", "exists"}
  BY DEF Asking
<1>4. att[i].patron \in Patrons /\ (att[i].st # "typed" => att[i].copy \in Copies)
  BY <1>1, <1>2 DEF InOrder, Attempt
<1>5. CASE Complete(i)
  <2>1. att[i].st = "typed" /\ UNCHANGED <<auto, confirmed, lent, missing, dialogs>>
    BY <1>5 DEF Complete, serverVars
  <2>2. att'[i].st \in {"sent", "rejected"}
    BY <1>5, Resent DEF Complete
  <2> QED  BY <1>1, <1>2, <1>3, <2>1, <2>2, DialogsStep
<1>6. CASE Serve(i)
  <2>1. att[i].st = "sent" /\ UNCHANGED <<auto, confirmed, dialogs>>
    BY <1>6 DEF Serve
  <2>2. att'[i].st = "served"
    BY <1>1, <1>6 DEF Serve
  <2>3. lent' \in [Copies -> Patrons \cup {Nobody}] /\ missing' \subseteq Copies
    BY <1>1, <1>4, <1>6, <2>1 DEF Serve
  <2> QED  BY <1>1, <1>2, <1>3, <2>1, <2>2, <2>3, DialogsStep
<1>7. CASE Finish(i)
  <2>1. att[i].st = "served" /\ UNCHANGED <<auto, confirmed, lent, missing, dialogs>>
    BY <1>7 DEF Finish, serverVars
  <2>2. att'[i].st = "done"
    BY <1>1, <1>7 DEF Finish
  <2> QED  BY <1>1, <1>2, <1>3, <2>1, <2>2, DialogsStep
<1>8. CASE Ask(i)
  <2>1. att[i].st = "served" /\ UNCHANGED <<auto, confirmed, lent, missing>>
    BY SMTT(30), <1>8 DEF Ask, serverVars
  <2>2. \/ att'[i].st = "sent" /\ UNCHANGED dialogs
        \/ att'[i].st \in Asking /\ dialogs' = Append(dialogs, i)
    <3> DEFINE s == CASE Unavailable \in att[i].evts -> "status"
                      [] att[i].evts = {Alert} -> "alert" [] OTHER -> "override"
    <3>1. att' = [att EXCEPT ![i].st = s] => att'[i].st = s
      <4> HIDE DEF s
      <4> QED  BY <1>1 DEF Attempt
    <3>2. s \in Asking
      BY <1>3
    <3> QED  BY <1>8, <3>1, <3>2, Resent DEF Ask
  <2> QED  BY <1>1, <1>2, <1>3, <2>1, <2>2, DialogsStep
<1>9. CASE AskOpen(i)
  <2>1. att[i].st = "served" /\ UNCHANGED <<auto, confirmed, lent, missing>>
    BY <1>9 DEF AskOpen, serverVars
  <2>2. \/ att'[i].st = "sent" /\ UNCHANGED dialogs
        \/ att'[i].st \in Asking /\ dialogs' = Append(dialogs, i)
    <3>1. att' = [att EXCEPT ![i].st = "exists"] => att'[i].st = "exists"
      BY <1>1 DEF Attempt
    <3> QED  BY <1>3, <1>9, <3>1, Resent DEF AskOpen
  <2> QED  BY <1>1, <1>2, <1>3, <2>1, <2>2, DialogsStep
<1>10. CASE Refused(i)
  <2>1. att[i].st = "served" /\ UNCHANGED <<auto, confirmed, lent, missing, dialogs>>
    BY <1>10 DEF Refused, serverVars
  <2>2. att'[i].st = "rejected"
    BY <1>1, <1>10 DEF Refused, Reject
  <2> QED  BY <1>1, <1>2, <1>3, <2>1, <2>2, DialogsStep
<1>11. CASE ConfirmEvents(i)
  <2>1. OnTop(i) /\ att[i].st \in Asking /\ UNCHANGED <<lent, missing>>
    BY SMTT(30), <1>3, <1>11 DEF ConfirmEvents, serverVars
  <2>2. \/ att'[i].st = "sent" /\ dialogs' = Front(dialogs)
        \/ att'[i].st = "alert" /\ UNCHANGED dialogs
    <3> DEFINE a == [att[i] EXCEPT !.override = TRUE, !.seen = @ \cup Shown(i)]
    <3>1. att' = [att EXCEPT ![i] = [a EXCEPT !.st = "alert"]] => att'[i].st = "alert"
      BY <1>1 DEF Attempt
    <3> QED  BY <1>11, <3>1, Resent DEF ConfirmEvents
  <2>3. DialogsOK'
    BY <1>1, <1>2, <1>3, <2>1, <2>2, DialogsStep
  <2>4. Shown(i) \cap AutoAfterFirst \subseteq Overridable
    BY DEF AutoAfterFirst, Overridable
  <2>5. auto' \subseteq Overridable /\ confirmed' \subseteq Patrons \X Overridable
    <3>1. \/ UNCHANGED <<auto, confirmed>>
          \/ /\ auto' = auto \cup (Shown(i) \cap AutoAfterFirst)
             /\ confirmed' = confirmed \cup ({att[i].patron} \X (Shown(i) \cap AutoAfterFirst))
      BY <1>1, <1>11 DEF ConfirmEvents, Attempt
    <3> DEFINE F == Shown(i) \cap AutoAfterFirst
    <3>2. F \subseteq Overridable
      BY <2>4
    <3> HIDE DEF F
    <3>3. {att[i].patron} \X F \subseteq Patrons \X Overridable
      BY <1>4, <3>2
    <3> QED  BY <1>1, <3>1, <3>2, <3>3 DEF F
  <2> QED  BY <1>1, <2>1, <2>3, <2>5
<1>12. CASE ConfirmOpen(i)
  <2>1. OnTop(i) /\ UNCHANGED <<auto, confirmed, lent, missing>> /\ dialogs' = Front(dialogs)
    BY <1>12 DEF ConfirmOpen, serverVars
  <2>2. att'[i].st \in {"sent", "returning", "rejected"}
    <3>1. att' = [att EXCEPT ![i].st = "returning"] => att'[i].st = "returning"
      BY <1>1 DEF Attempt
    <3> QED  BY <1>12, <3>1, Resent DEF ConfirmOpen
  <2> QED  BY <1>1, <1>2, <1>3, <2>1, <2>2, DialogsStep
<1>13. CASE Cancel(i)
  <2>1. OnTop(i) /\ UNCHANGED <<auto, confirmed, lent, missing>> /\ dialogs' = Front(dialogs)
    BY <1>13 DEF Cancel, serverVars
  <2>2. att'[i].st = "rejected"
    BY <1>1, <1>13 DEF Cancel, Reject
  <2> QED  BY <1>1, <1>2, <1>3, <2>1, <2>2, DialogsStep
<1>14. CASE Return(i)
  <2>1. att[i].st = "returning" /\ UNCHANGED <<auto, confirmed, missing, dialogs>>
    BY SMTT(30), <1>14 DEF Return
  <2>2. att'[i].st \in {"sent", "rejected"}
    BY <1>14, Resent DEF Return
  <2>3. lent' \in [Copies -> Patrons \cup {Nobody}]
    BY <1>1, <1>14 DEF Return
  <2> QED  BY <1>1, <1>2, <1>3, <2>1, <2>2, <2>3, DialogsStep
<1> QED  BY <1>5, <1>6, <1>7, <1>8, <1>9, <1>10, <1>11, <1>12, <1>13, <1>14
         DEF AttemptStep, Hear, Decide

\* The facts of the scene.
LEMMA SceneType ==
    ASSUME TypeOK
    PROVE  /\ scene.codes \subseteq Codes /\ Owing \subseteq Patrons
           /\ Nobody \notin Patrons /\ Nobody \notin Codes /\ Copies \subseteq Codes
BY DeskAssumption DEF TypeOK, Scene, Owing, Codes

\* A new attempt is later than those with rows.
LEMMA NewAttempt ==
    ASSUME TypeOK, InOrder, NEW i \in Waiting, \A j \in Waiting : i <= j
    PROVE  /\ i \in Attempts /\ i \in Nat /\ i >= 1 /\ att[i].st = "unused"
           /\ Len(rows) < i /\ Len(rows) \in 0..MaxScans
           /\ \A k \in 1..Len(rows) : rows[k].of < i /\ rows[k].of # i
           /\ \A j \in Attempts : i <= j => j \in Waiting
<1>1. i \in Attempts /\ i \in Nat /\ i >= 1 /\ i <= MaxScans /\ att[i].st = "unused"
  BY NumbersType DEF Waiting
<1>2. rows \in Seq(Row) /\ DOMAIN rows = 1..Len(rows) /\ Len(rows) \in Nat
  BY LenProperties DEF TypeOK
<1>3. \A k \in 1..Len(rows) : rows[k].of \in Attempts /\ rows[k].of \notin Waiting
                              /\ Len(rows) < rows[k].of + k
  <2>1. \A k \in 1..Len(rows) : rows[k] \in Row
    BY <1>2
  <2>2. \A k \in 1..Len(rows) : rows[k].of \notin Waiting /\ Len(rows) < rows[k].of + k
    BY <1>2 DEF InOrder
  <2> QED  BY <2>1, <2>2 DEF Row
<1>4. \A j \in Attempts : i <= j => j \in Waiting
  BY DEF InOrder
<1>5. \A k \in 1..Len(rows) : rows[k].of < i
  BY <1>1, <1>3, <1>4, NumbersType
<1>6. \A k \in 1..Len(rows) : rows[k].of \in Nat
  BY <1>3, NumbersType
<1>7. Len(rows) < i
  <2>1. CASE Len(rows) = 0
    BY <1>1, <2>1
  <2>2. CASE Len(rows) > 0
    <3>1. 1 \in 1..Len(rows)
      BY <1>2, <2>2
    <3>2. Len(rows) < rows[1].of + 1 /\ rows[1].of < i /\ rows[1].of \in Nat
      BY <1>3, <1>5, <1>6, <3>1
    <3> QED  BY <1>1, <1>2, <3>2
  <2> QED  BY <1>2, <2>1, <2>2
<1>8. Len(rows) \in 0..MaxScans
  BY <1>1, <1>2, <1>7, NumbersType
<1>9. \A k \in 1..Len(rows) : rows[k].of # i
  BY <1>1, <1>5, <1>6
<1> QED  BY <1>1, <1>4, <1>5, <1>7, <1>8, <1>9

\* A scan puts a row on top, for an attempt that is the next one.
Scanned(i, b) ==
    /\ i \in Waiting /\ \A j \in Waiting : i <= j
    /\ att' = [att EXCEPT ![i] = [Unused EXCEPT !.st = "typed", !.typed = b, !.patron = current,
                                    !.visit = page.visit, !.list = list, !.index = Len(rows)]]
    /\ rows' = <<[of |-> i, index |-> Len(rows), filled |-> FALSE]>> \o rows
    /\ pending' = pending \cup {b} /\ b \notin pending /\ b \in Codes
    /\ page.at # Nobody /\ current # Nobody /\ dialogs = <<>>
    /\ Running = {} \/ "scan" \in Hurries
    /\ loads = {} \/ "load" \in Hurries
    /\ UNCHANGED <<page, patronVars, list, auto, dialogs, serverVars, confirmed>>

LEMMA ScanIs ==
    ASSUME TypeOK, InOrder, NEW i, NEW b, Scanned(i, b)
    PROVE  /\ i \in Attempts /\ att[i].st = "unused"
           /\ att'[i] \in Attempt /\ att' \in [Attempts -> Attempt]
           /\ att'[i].st = "typed" /\ att'[i].typed = b /\ att'[i].copy = Nobody
           /\ att'[i].patron = current /\ att'[i].visit = page.visit /\ att'[i].list = list
           /\ att'[i].index = Len(rows) /\ att'[i].override = FALSE /\ att'[i].evts = {}
           /\ att'[i].over = {} /\ att'[i].seen = {} /\ att'[i].action = "checkout"
           /\ att'[i].answer = "none"
           /\ \A j \in Attempts : j # i => att'[j] = att[j]
           /\ rows' \in Seq(Row) /\ Len(rows') = Len(rows) + 1
           /\ \A k \in 1..Len(rows) : rows'[k + 1] = rows[k]
<1>1. i \in Attempts /\ att[i].st = "unused" /\ Len(rows) \in 0..MaxScans
  BY NewAttempt DEF Scanned
<1>2. /\ att \in [Attempts -> Attempt] /\ rows \in Seq(Row) /\ current \in Patrons \cup {Nobody}
      /\ page.visit \in 0..MaxOpens /\ list \in 0..MaxOpens
  BY DEF TypeOK
<1> DEFINE r == [of |-> i, index |-> Len(rows), filled |-> FALSE]
           n == Len(rows)
           v == page.visit
           a == [Unused EXCEPT !.st = "typed", !.typed = b, !.patron = current,
                                    !.visit = v, !.list = list, !.index = n]
<1>3. r \in Row
  BY <1>1 DEF Row
<1>4. att' = [att EXCEPT ![i] = a]
  BY DEF Scanned
<1>5. n \in 0..MaxScans /\ v \in 0..MaxOpens /\ b \in Codes
  BY <1>1, <1>2 DEF Scanned
<1>6. /\ Unused \in Attempt /\ Unused.override = FALSE /\ Unused.copy = Nobody
      /\ Unused.evts = {} /\ Unused.over = {} /\ Unused.seen = {}
      /\ Unused.action = "checkout" /\ Unused.answer = "none"
  BY NumbersType DEF Unused, Attempt
<1>7. a \in Attempt
  <2> HIDE DEF n, v
  <2> QED  BY ZenonT(30), <1>2, <1>5, <1>6 DEF Attempt, InFlight
<1>8. rows' = <<r>> \o rows
  BY DEF Scanned
<1>9. att'[i] = a /\ att' \in [Attempts -> Attempt] /\ \A j \in Attempts : j # i => att'[j] = att[j]
  <2> HIDE DEF a
  <2> QED  BY <1>1, <1>2, <1>4, <1>7
<1>10. /\ rows' \in Seq(Row) /\ Len(rows') = Len(rows) + 1 /\ rows'[1] = r
       /\ \A k \in 1..Len(rows) : rows'[k + 1] = rows[k]
  <2> HIDE DEF r
  <2> QED  BY <1>2, <1>3, <1>8, PrependIs
<1>11. /\ a.st = "typed" /\ a.typed = b /\ a.copy = Nobody
       /\ a.patron = current /\ a.visit = v /\ a.list = list
       /\ a.index = n /\ a.override = FALSE /\ a.evts = {}
       /\ a.over = {} /\ a.seen = {} /\ a.action = "checkout" /\ a.answer = "none"
  <2> HIDE DEF n, v
  <2> QED  BY <1>6 DEF Attempt
<1> HIDE DEF a
<1> QED  BY <1>1, <1>7, <1>9, <1>10, <1>11

LEMMA ScanRow ==
    ASSUME TypeOK, InOrder, NEW i, NEW b, Scanned(i, b)
    PROVE  rows'[1].of = i /\ rows'[1].index = Len(rows) /\ ~rows'[1].filled
<1> DEFINE r == [of |-> i, index |-> Len(rows), filled |-> FALSE]
<1>1. i \in Attempts /\ Len(rows) \in 0..MaxScans /\ rows \in Seq(Row)
  BY NewAttempt DEF Scanned, TypeOK
<1>2. r \in Row /\ r.of = i /\ r.index = Len(rows) /\ ~r.filled
  BY <1>1 DEF Row
<1>3. rows' = <<r>> \o rows
  BY DEF Scanned
<1> HIDE DEF r
<1>4. rows'[1] = r
  BY <1>1, <1>2, <1>3, PrependIs
<1> QED  BY <1>2, <1>4

LEMMA ScanScanned ==
    ASSUME TypeOK, ScanSome
    PROVE  \E i \in Waiting : \E b \in scene.codes : Scanned(i, b)
<1>1. PICK b \in scene.codes : Scan(b)
  BY DEF ScanSome
<1>2. b \in Codes
  BY <1>1, SceneType
<1>3. PICK i \in Waiting :
         /\ \A j \in Waiting : i <= j
         /\ att' = [att EXCEPT ![i] =
                      [Unused EXCEPT !.st = "typed", !.typed = b, !.patron = current,
                         !.visit = page.visit, !.list = list, !.index = Len(rows)]]
         /\ rows' = <<[of |-> i, index |-> Len(rows), filled |-> FALSE]>> \o rows
  BY <1>1 DEF Scan
<1>4. Scanned(i, b)
  BY <1>1, <1>2, <1>3 DEF Scan, Scanned
<1> QED  BY <1>4

LoadType == [of : Patrons, visit : 1..MaxOpens,
             step : {"user", "stats", "served", "extras"}, out : 0..Cardinality(Copies)]

\* What turning to another page does, whoever's it is.
Turned ==
    /\ MayLeave
    /\ page'.visit = page.visit + 1 /\ pending' = {}
    /\ NewList \/ UNCHANGED <<rows, list>>
    /\ UNCHANGED <<auto, att, dialogs, lent, missing, confirmed>>

LEMMA PageTurned ==
    ASSUME OpenSome \/ Search
    PROVE  Turned
<1>1. ASSUME NEW p \in Patrons, Open(p) PROVE Turned
  BY <1>1 DEF Open, NewController, Turned, serverVars
<1>2. Search => Turned
  BY DEF Search, NewController, Turned, serverVars
<1> QED  BY <1>1, <1>2 DEF OpenSome

\* What a load's step does: nothing to the page or the attempts.
Loading == UNCHANGED <<page, rows, list, pending, auto, att, dialogs, lent, missing, confirmed>>

LEMMA LoadLoading ==
    ASSUME NEW l, LoadStep(l)
    PROVE  Loading
BY DEF LoadStep, UserArrives, UserRefused, StatsServed, StatsArrive, ExtrasArrive, Loading, serverVars

\* The number of attempts that are done.
Done == Cardinality({j \in Attempts : att[j].st = "done"})

LEMMA DoneStep ==
    ASSUME NEW i \in Attempts, Goes(i)
    PROVE  /\ Done \in 0..MaxScans /\ Done' \in 0..MaxScans
           /\ Done' = IF att'[i].st = "done" THEN Done + 1 ELSE Done
<1> DEFINE S == {j \in Attempts : att[j].st = "done"}
           T == {j \in Attempts : att'[j].st = "done"}
<1>1. S \in SUBSET Attempts /\ T \in SUBSET Attempts
  OBVIOUS
<1>2. i \notin S
  BY DEF Goes, InFlight, Asking
<1>3. IF att'[i].st = "done" THEN T = S \cup {i} ELSE T = S
  BY <1>2 DEF Goes
<1>4. Done = Cardinality(S) /\ Done' = Cardinality(T)
  BY DEF Done
<1> HIDE DEF S, T
<1>5. /\ IsFiniteSet(S) /\ Cardinality(S) \in Nat /\ Cardinality(S) <= MaxScans
      /\ IsFiniteSet(T) /\ Cardinality(T) \in Nat /\ Cardinality(T) <= MaxScans
  BY <1>1, NumbersType
<1>6. Cardinality(S \cup {i}) = Cardinality(S) + 1
  BY <1>2, <1>5, FS_AddElement
<1>7. Cardinality(T) = IF att'[i].st = "done" THEN Cardinality(S) + 1 ELSE Cardinality(S)
  BY <1>3, <1>6
<1>8. MaxScans \in Nat
  BY NumbersType
<1> QED  BY <1>4, <1>5, <1>7, <1>8

\* What an attempt's step does to the counts.
LEMMA StatsStep ==
    ASSUME TypeOK, InOrder, NEW i \in Attempts, Goes(i), Stays(i) \/ Drops(i) \/ Finish(i)
    PROVE  /\ stats' \in 0..NoStats
           /\ stats' # NoStats => stats' <= Cardinality(Copies) + Done'
           /\ stats # NoStats => stats' # NoStats
<1>1. stats \in 0..NoStats /\ (stats # NoStats => stats <= Cardinality(Copies) + Done)
  BY DEF TypeOK, InOrder, Done
<1>2. UNCHANGED stats \/ (stats # NoStats /\ stats' = stats + 1 /\ att'[i].st = "done")
  <2>1. CASE Finish(i)
    <3>1. att'[i].st = "done"
      BY <2>1 DEF Finish, TypeOK, Attempt
    <3> QED  BY <2>1, <3>1 DEF Finish
  <2> QED  BY <2>1 DEF Stays, Drops
<1> QED  BY <1>1, <1>2, DoneStep, NumbersType

LEMMA PendingStep ==
    ASSUME TypeOK, NEW i \in Attempts, Stays(i) \/ Drops(i) \/ Finish(i)
    PROVE  pending' \subseteq pending
BY DEF Stays, Drops, Reject, Finish, Unlisted

LEMMA TypeStep ==
    ASSUME TypeOK, InOrder, Next
    PROVE  TypeOK'
<1>1. UNCHANGED scene
  BY DEF Next
<1>2. /\ scene \in Scenes
      /\ page \in [at : Patrons \cup {Nobody}, visit : 0..MaxOpens]
      /\ current \in Patrons \cup {Nobody} /\ primary \in Patrons \cup {Nobody}
      /\ stats \in 0..NoStats
      /\ loads \subseteq LoadType
      /\ rows \in Seq(Row) /\ list \in 0..MaxOpens
      /\ pending \subseteq Codes /\ auto \subseteq Overridable
      /\ att \in [Attempts -> Attempt]
      /\ DialogsOK
      /\ lent \in [Copies -> Patrons \cup {Nobody}] /\ missing \subseteq Copies
      /\ confirmed \subseteq Patrons \X Overridable
  BY DEF TypeOK, DialogsOK, LoadType
<1>3. /\ page' \in [at : Patrons \cup {Nobody}, visit : 0..MaxOpens]
      /\ current' \in Patrons \cup {Nobody} /\ primary' \in Patrons \cup {Nobody}
      /\ stats' \in 0..NoStats
      /\ loads' \subseteq LoadType
      /\ rows' \in Seq(Row) /\ list' \in 0..MaxOpens
      /\ pending' \subseteq Codes /\ auto' \subseteq Overridable
      /\ att' \in [Attempts -> Attempt]
      /\ DialogsOK'
      /\ lent' \in [Copies -> Patrons \cup {Nobody}] /\ missing' \subseteq Copies
      /\ confirmed' \subseteq Patrons \X Overridable
      => TypeOK'
  BY <1>1, <1>2 DEF TypeOK, DialogsOK, LoadType
<1>4. ASSUME NEW i \in Attempts, AttemptStep(i) PROVE TypeOK'
  <2>1. Goes(i) /\ (Stays(i) \/ Drops(i) \/ Finish(i))
    BY <1>4, StepGoes
  <2>2. rows' \in Seq(Row)
    BY <1>2, <2>1, RowsStep DEF SameRows, LessRow
  <2>3. pending' \subseteq Codes /\ stats' \in 0..NoStats
    BY <1>2, <2>1, PendingStep, StatsStep
  <2>4. /\ UNCHANGED <<page, current, primary, loads, list>>
        /\ att' \in [Attempts -> Attempt]
    BY <2>1 DEF Goes
  <2> QED  BY <1>2, <1>3, <1>4, <2>2, <2>3, <2>4, StepTypes
<1>5. CASE OpenSome \/ Search
  <2>1. Turned
    BY <1>5, PageTurned
  <2>2. page.visit < MaxOpens /\ page.visit \in 0..MaxOpens
    BY <1>2, <2>1 DEF Turned, MayLeave
  <2>3. page'.visit \in 1..MaxOpens /\ page.visit + 1 \in 1..MaxOpens
    BY <2>1, <2>2, NumbersType DEF Turned
  <2>4. \A p \in Patrons, s \in {"user", "stats"} : Load(p, s) \in LoadType
    BY <2>3, NumbersType DEF Load, LoadType
  <2>5. NoStats \in 0..NoStats
    BY NumbersType
  <2>6. ASSUME NEW p \in Patrons, Open(p)
        PROVE  /\ page' \in [at : Patrons \cup {Nobody}, visit : 0..MaxOpens]
               /\ current' \in Patrons \cup {Nobody} /\ primary' \in Patrons \cup {Nobody}
               /\ stats' \in 0..NoStats
               /\ loads' \subseteq LoadType
    <3>1. page' = [at |-> p, visit |-> page.visit + 1]
      BY <2>6 DEF Open, NewController
    <3>2. /\ current' = current /\ primary' \in {primary, p, Nobody}
          /\ stats' \in {stats, NoStats}
          /\ loads' \subseteq loads \cup {Load(p, "stats"), Load(p, "user")}
      BY <2>6 DEF Open, patronVars
    <3> QED  BY <1>2, <2>3, <2>4, <2>5, <3>1, <3>2
  <2>7. ASSUME Search
        PROVE  /\ page' \in [at : Patrons \cup {Nobody}, visit : 0..MaxOpens]
               /\ current' \in Patrons \cup {Nobody} /\ primary' \in Patrons \cup {Nobody}
               /\ stats' \in 0..NoStats
               /\ loads' \subseteq LoadType
    BY <1>2, <2>3, <2>5, <2>7 DEF Search, NewController
  <2>8. rows' \in Seq(Row) /\ list' \in 0..MaxOpens /\ pending' \subseteq Codes
    <3>1. list <= page.visit
      BY DEF InOrder
    <3>2. CASE NewList
      <4>1. list' = list + 1 /\ rows' = <<>>
        BY <3>2 DEF NewList
      <4>2. <<>> \in Seq(Row)
        OBVIOUS
      <4> QED  BY <1>2, <2>1, <2>2, <3>1, <4>1, <4>2, NumbersType DEF Turned
    <3>3. CASE UNCHANGED <<rows, list>>
      BY <1>2, <2>1, <3>3 DEF Turned
    <3> QED  BY <2>1, <3>2, <3>3 DEF Turned
  <2>9. UNCHANGED <<auto, att, dialogs, lent, missing, confirmed>>
    BY <2>1 DEF Turned
  <2>10. DialogsOK'
    BY <1>2, <2>9 DEF DialogsOK
  <2> QED  BY <1>2, <1>3, <1>5, <2>6, <2>7, <2>8, <2>9, <2>10 DEF OpenSome
<1>6. CASE ScanSome
  <2>1. PICK i \in Waiting, b \in scene.codes : Scanned(i, b)
    BY <1>6, ScanScanned
  <2>2. /\ i \in Attempts /\ att[i].st = "unused" /\ rows' \in Seq(Row)
        /\ att' \in [Attempts -> Attempt] /\ att'[i].st = "typed"
        /\ \A j \in Attempts : j # i => att'[j] = att[j]
    BY <2>1, ScanIs
  <2>3. pending' \subseteq Codes
    BY <1>2, <2>1 DEF Scanned
  <2>4. UNCHANGED <<page, current, stats, loads, primary, list, auto, dialogs, lent, missing,
                    confirmed>>
    BY <2>1 DEF Scanned, patronVars, serverVars
  <2>5. {j \in Attempts : att'[j].st \in Asking} = {j \in Attempts : att[j].st \in Asking}
    BY <2>2 DEF Asking
  <2>6. DialogsOK'
    BY <1>2, <2>4, <2>5 DEF DialogsOK
  <2> QED  BY <1>2, <1>3, <2>2, <2>3, <2>4, <2>6
<1>7. ASSUME NEW l \in loads, LoadStep(l) PROVE TypeOK'
  <2>1. Loading
    BY <1>7, LoadLoading
  <2>2. l \in LoadType
    BY <1>2
  <2>3. /\ current' \in Patrons \cup {Nobody} /\ primary' \in Patrons \cup {Nobody}
        /\ stats' \in 0..NoStats
        /\ loads' \subseteq LoadType
    <3>1. CASE UserArrives(l)
      <4>1. [l EXCEPT !.step = "stats"] \in LoadType
        BY <2>2 DEF LoadType
      <4> QED  BY <1>2, <2>2, <3>1, <4>1 DEF UserArrives, LoadType
    <3>2. CASE UserRefused(l)
      BY <1>2, <3>2 DEF UserRefused
    <3>3. CASE StatsServed(l)
      <4> DEFINE o == OutOf(l.of)
      <4>1. o \in 0..Cardinality(Copies)
        BY OutOfType
      <4>2. loads' = (loads \ {l}) \cup {[l EXCEPT !.step = "served", !.out = o]}
            /\ UNCHANGED <<current, primary, stats>>
        BY <3>3 DEF StatsServed
      <4> HIDE DEF o
      <4>3. [l EXCEPT !.step = "served", !.out = o] \in LoadType
        BY <2>2, <4>1 DEF LoadType
      <4> QED  BY <1>2, <4>2, <4>3
    <3>4. CASE StatsArrive(l)
      <4>1. l.out \in 0..NoStats
        BY <2>2, NumbersType DEF LoadType
      <4>2. [l EXCEPT !.step = "extras"] \in LoadType
        BY <2>2 DEF LoadType
      <4> QED  BY <1>2, <3>4, <4>1, <4>2 DEF StatsArrive
    <3>5. CASE ExtrasArrive(l)
      BY <1>2, <3>5 DEF ExtrasArrive
    <3> QED  BY <1>7, <3>1, <3>2, <3>3, <3>4, <3>5 DEF LoadStep
  <2>4. DialogsOK'
    BY <1>2, <2>1 DEF DialogsOK, Loading
  <2> QED  BY <1>2, <1>3, <2>1, <2>3, <2>4 DEF Loading
<1> QED  BY <1>4, <1>5, <1>6, <1>7 DEF Next

-----------------------------------------------------------------------------
(* The order of attempts.                                                  *)

\* The parts of InOrder.
AttemptsOrder ==
    /\ \A i \in Waiting : \A j \in Attempts : i <= j => j \in Waiting
    /\ \A i \in Attempts :
          /\ att[i].list <= list /\ att[i].visit <= page.visit
          /\ att[i].st = "typed" => att[i].copy = Nobody
          /\ att[i].st \in InFlight \cup {"done"} =>
                 /\ att[i].patron # Nobody /\ att[i].typed # Nobody
                 /\ att[i].st # "typed" => att[i].copy \in Copies
RowOrder(k) ==
    /\ rows[k].of \notin Waiting /\ att[rows[k].of].list = list
    /\ Len(rows) < rows[k].of + k
    /\ \A j \in 1..Len(rows) : j < k => rows[k].of < rows[j].of
RowsOrder == \A k \in 1..Len(rows) : RowOrder(k)
StatsOrder == stats # NoStats => stats <= Cardinality(Copies) + Done

LEMMA OrderParts ==
    ASSUME rows \in Seq(Row)
    PROVE  InOrder <=> list <= page.visit /\ AttemptsOrder /\ RowsOrder /\ StatsOrder
<1>1. DOMAIN rows = 1..Len(rows)
  BY LenProperties
<1> QED  BY <1>1 DEF InOrder, AttemptsOrder, RowsOrder, RowOrder, StatsOrder, Done

\* Rows have attempts.
LEMMA RowOf ==
    ASSUME TypeOK, NEW k \in 1..Len(rows)
    PROVE  /\ rows[k] \in Row /\ rows[k].of \in Attempts /\ rows[k].of \in Nat
           /\ Len(rows) \in Nat /\ DOMAIN rows = 1..Len(rows)
<1>1. rows \in Seq(Row) /\ DOMAIN rows = 1..Len(rows) /\ Len(rows) \in Nat
  BY LenProperties DEF TypeOK
<1>2. rows[k] \in Row
  BY <1>1
<1>3. rows[k].of \in Attempts
  BY <1>2 DEF Row
<1>4. rows[k].of \in Nat
  BY <1>3, NumbersType
<1> QED  BY <1>1, <1>2, <1>3, <1>4

\* An attempt's step keeps the order of rows.
LEMMA RowsOrderStep ==
    ASSUME TypeOK, RowsOrder, NEW i \in Attempts, Goes(i), UNCHANGED list,
           SameRows \/ (\E p \in 1..Len(rows) : LessRow(p))
    PROVE  RowsOrder'
<1>1. \A j \in Attempts : att'[j].list = att[j].list /\ (j \in Waiting' <=> j \in Waiting)
  BY DEF Goes, Waiting, InFlight, Asking
<1>2. Len(rows) \in Nat /\ DOMAIN rows = 1..Len(rows)
  BY LenProperties DEF TypeOK
<1>3. \A k \in 1..Len(rows) : rows[k].of \in Attempts /\ rows[k].of \in Nat
  BY RowOf
<1>4. CASE SameRows
  <2>1. Len(rows') = Len(rows) /\ \A k \in 1..Len(rows) : rows'[k].of = rows[k].of
    BY <1>4 DEF SameRows
  <2>2. ASSUME NEW k \in 1..Len(rows) PROVE RowOrder(k)'
    BY <1>1, <1>3, <2>1 DEF RowsOrder, RowOrder
  <2> QED  BY <2>1, <2>2 DEF RowsOrder
<1>5. ASSUME NEW p \in 1..Len(rows), LessRow(p) PROVE RowsOrder'
  <2>1. Len(rows') = Len(rows) - 1
    BY <1>5 DEF LessRow
  <2>2. ASSUME NEW k \in 1..(Len(rows) - 1) PROVE RowOrder(k)'
    <3>1. rows'[k] = IF k < p THEN rows[k] ELSE rows[k + 1]
      BY <1>5 DEF LessRow
    <3>2. k \in 1..Len(rows) /\ k + 1 \in 1..Len(rows) /\ k \in Nat
      BY <1>2
    <3>3. ASSUME NEW j \in 1..(Len(rows) - 1)
          PROVE  rows'[j] = IF j < p THEN rows[j] ELSE rows[j + 1]
      BY <1>5 DEF LessRow
    <3>4. RowOrder(k) /\ RowOrder(k + 1)
      BY <3>2 DEF RowsOrder
    <3>5. rows'[k].of \notin Waiting' /\ att'[rows'[k].of].list = list'
      BY <1>1, <1>3, <3>1, <3>2, <3>4 DEF RowOrder
    <3>6. Len(rows') < rows'[k].of + k
      BY SMTT(30), <1>2, <1>3, <2>1, <3>1, <3>2, <3>4 DEF RowOrder
    <3>7. ASSUME NEW j \in 1..(Len(rows) - 1), j < k PROVE rows'[k].of < rows'[j].of
      <4>1. j \in 1..Len(rows) /\ j + 1 \in 1..Len(rows) /\ j + 1 < k + 1 /\ j < k + 1
        BY <1>2, <3>2, <3>7
      <4>2. /\ rows[k].of < rows[j].of /\ rows[k + 1].of < rows[j].of
            /\ rows[k + 1].of < rows[j + 1].of
        BY <3>4, <3>7, <4>1 DEF RowOrder
      <4>3. k < p => j < p
        BY <1>2, <3>2, <3>7
      <4> QED  BY <3>1, <3>3, <4>2, <4>3
    <3> QED  BY <2>1, <3>5, <3>6, <3>7 DEF RowOrder
  <2> QED  BY <2>1, <2>2 DEF RowsOrder
<1> QED  BY <1>4, <1>5

LEMMA OrderStep ==
    ASSUME TypeOK, InOrder, Next, TypeOK'
    PROVE  InOrder'
<1>1. /\ rows \in Seq(Row) /\ rows' \in Seq(Row) /\ page.visit \in Nat /\ list \in Nat
      /\ att \in [Attempts -> Attempt] /\ current \in Patrons \cup {Nobody}
  BY NumbersType DEF TypeOK
<1>2. list <= page.visit /\ AttemptsOrder /\ RowsOrder /\ StatsOrder
  BY <1>1, OrderParts
<1>3. list' <= page'.visit /\ AttemptsOrder' /\ RowsOrder' /\ StatsOrder' => InOrder'
  <2>1. DOMAIN rows' = 1..Len(rows')
    BY <1>1, LenProperties
  <2> QED  BY <2>1 DEF InOrder, AttemptsOrder, RowsOrder, RowOrder, StatsOrder, Done
<1>4. \A j \in Attempts : att[j].list \in Nat /\ att[j].visit \in Nat
  BY SMTT(30), <1>1, NumbersType DEF Attempt
<1>5. ASSUME NEW i \in Attempts, AttemptStep(i) PROVE InOrder'
  <2>1. Goes(i) /\ (Stays(i) \/ Drops(i) \/ Finish(i))
    BY <1>5, StepGoes
  <2>2. UNCHANGED <<page, list>>
    BY <2>1 DEF Goes
  <2>3. RowsOrder'
    BY <1>2, <2>1, <2>2, RowsStep, RowsOrderStep
  <2>4. StatsOrder'
    BY <2>1, StatsStep DEF StatsOrder
  <2>5. AttemptsOrder'
    <3>1. Waiting' = Waiting
      BY <2>1 DEF Goes, Waiting, InFlight, Asking
    <3>2. /\ att'[i].list = att[i].list /\ att'[i].visit = att[i].visit
          /\ att'[i].st # "typed" /\ att'[i].patron = att[i].patron /\ att'[i].typed = att[i].typed
          /\ att[i].st \in InFlight
          /\ att'[i].st \in InFlight \cup {"done"} => att'[i].copy \in Copies
      <4>1. att'[i].st \in InFlight \cup {"done"} => att'[i].st # "rejected"
        BY DEF InFlight, Asking
      <4> QED  BY <1>2, <2>1, <4>1 DEF Goes, AttemptsOrder
    <3>3. \A j \in Attempts : j # i => att'[j] = att[j]
      BY <2>1 DEF Goes
    <3> QED  BY <1>2, <2>2, <3>1, <3>2, <3>3 DEF AttemptsOrder
  <2> QED  BY <1>2, <1>3, <2>2, <2>3, <2>4, <2>5
<1>6. CASE OpenSome \/ Search
  <2>1. Turned
    BY <1>6, PageTurned
  <2>2. UNCHANGED att /\ page'.visit = page.visit + 1 /\ Waiting' = Waiting /\ Done' = Done
    BY <2>1 DEF Turned, Waiting, Done
  <2>3. list' = list \/ (list' = list + 1 /\ rows' = <<>>)
    BY <2>1 DEF Turned, NewList
  <2>4. list' <= page'.visit
    BY <1>1, <1>2, <2>2, <2>3
  <2>5. AttemptsOrder'
    BY <1>1, <1>2, <1>4, <2>2, <2>3 DEF AttemptsOrder
  <2>6. RowsOrder'
    <3>1. CASE UNCHANGED <<rows, list>>
      BY <1>2, <2>2, <3>1 DEF RowsOrder, RowOrder
    <3>2. CASE rows' = <<>>
      BY <3>2 DEF RowsOrder
    <3> QED  BY <2>1, <3>1, <3>2 DEF Turned, NewList
  <2>7. StatsOrder'
    <3>1. stats' = stats \/ stats' = NoStats
      BY <1>6 DEF OpenSome, Open, Search, patronVars
    <3> QED  BY <1>2, <2>2, <3>1 DEF StatsOrder
  <2> QED  BY <1>3, <2>4, <2>5, <2>6, <2>7
<1>7. CASE ScanSome
  <2>1. PICK i \in Waiting, b \in scene.codes : Scanned(i, b)
    BY <1>7, ScanScanned
  <2>2. /\ i \in Attempts /\ att[i].st = "unused" /\ att'[i].st = "typed" /\ att'[i].copy = Nobody
        /\ att'[i].patron = current /\ att'[i].typed = b
        /\ att'[i].visit = page.visit /\ att'[i].list = list
        /\ \A j \in Attempts : j # i => att'[j] = att[j]
        /\ rows' \in Seq(Row) /\ Len(rows') = Len(rows) + 1
        /\ \A k \in 1..Len(rows) : rows'[k + 1] = rows[k]
    BY <2>1, ScanIs
  <2>3. /\ i \in Nat /\ i >= 1 /\ Len(rows) < i /\ Len(rows) \in Nat
        /\ \A k \in 1..Len(rows) : rows[k].of < i /\ rows[k].of # i
        /\ \A j \in Waiting : i <= j
    <3>1. \A j \in Waiting : i <= j
      BY <2>1 DEF Scanned
    <3> QED  BY <2>1, <3>1, NewAttempt, NumbersType
  <2>4. UNCHANGED <<page, list, stats>> /\ current # Nobody /\ b \in Codes
    BY <2>1 DEF Scanned, patronVars
  <2>5. Waiting' = Waiting \ {i}
    BY <2>2 DEF Waiting
  <2>6. AttemptsOrder'
    <3>1. \A j \in Waiting' : \A k \in Attempts : j <= k => k \in Waiting'
      <4> SUFFICES ASSUME NEW j \in Waiting', NEW k \in Attempts, j <= k PROVE k \in Waiting'
        OBVIOUS
      <4>1. j \in Waiting /\ j # i /\ i <= j /\ j \in Nat /\ k \in Nat
        BY <2>3, <2>5, NumbersType DEF Waiting
      <4>2. k \in Waiting /\ k # i
        BY <1>2, <2>3, <4>1 DEF AttemptsOrder
      <4> QED  BY <2>5, <4>2
    <3>2. b # Nobody
      BY <2>4, SceneType
    <3> QED  BY <1>1, <1>2, <2>2, <2>4, <3>1, <3>2 DEF AttemptsOrder
  <2>7. RowsOrder'
    <3>1. \A k \in 1..Len(rows) : rows[k].of \in Attempts /\ rows[k].of \in Nat
      BY RowOf
    <3> rows'[1].of = i
      BY <2>1, ScanRow
    <3>2. RowOrder(1)'
      BY <2>2, <2>3, <2>4, <2>5 DEF RowOrder
    <3>3. ASSUME NEW k \in 1..Len(rows) PROVE RowOrder(k + 1)'
      <4>1. RowOrder(k) /\ rows'[k + 1] = rows[k] /\ rows[k].of \in Attempts /\ rows[k].of # i
        BY <1>2, <2>2, <2>3, <3>1 DEF RowsOrder
      <4>2. rows'[k + 1].of \notin Waiting' /\ att'[rows'[k + 1].of].list = list'
        BY <2>2, <2>4, <2>5, <4>1 DEF RowOrder
      <4>3. Len(rows') < rows'[k + 1].of + (k + 1)
        BY <2>2, <2>3, <3>1, <4>1 DEF RowOrder
      <4>4. ASSUME NEW j \in 1..(Len(rows) + 1), j < k + 1 PROVE rows'[k + 1].of < rows'[j].of
        <5>1. CASE j = 1
          BY <2>2, <2>3, <4>1, <5>1
        <5>2. CASE j > 1
          <6>1. j - 1 \in 1..Len(rows) /\ j - 1 < k /\ (j - 1) + 1 = j
            BY <2>3, <4>4, <5>2
          <6>2. rows'[j] = rows[j - 1] /\ rows[k].of < rows[j - 1].of
            BY <2>2, <4>1, <6>1 DEF RowOrder
          <6> QED  BY <4>1, <6>2
        <5> QED  BY <5>1, <5>2
      <4> QED  BY <2>2, <4>2, <4>3, <4>4 DEF RowOrder
    <3>4. ASSUME NEW m \in 1..(Len(rows) + 1) PROVE RowOrder(m)'
      <4>1. m = 1 \/ (m - 1 \in 1..Len(rows) /\ (m - 1) + 1 = m)
        BY <2>3
      <4> QED  BY <3>2, <3>3, <4>1
    <3> QED  BY <2>2, <3>4 DEF RowsOrder
  <2>8. StatsOrder'
    <3>1. Done' = Done
      <4>1. {j \in Attempts : att'[j].st = "done"} = {j \in Attempts : att[j].st = "done"}
        BY <2>2
      <4> QED  BY <4>1 DEF Done
    <3> QED  BY <1>2, <2>4, <3>1 DEF StatsOrder
  <2> QED  BY <1>2, <1>3, <2>4, <2>6, <2>7, <2>8
<1>8. ASSUME NEW l \in loads, LoadStep(l) PROVE InOrder'
  <2>1. Loading
    BY <1>8, LoadLoading
  <2>2. UNCHANGED <<page, rows, list, att>> /\ Waiting' = Waiting /\ Done' = Done
    BY <2>1 DEF Loading, Waiting, Done
  <2>3. AttemptsOrder' /\ RowsOrder' /\ list' <= page'.visit
    BY <1>2, <2>2 DEF AttemptsOrder, RowsOrder, RowOrder
  <2>4. StatsOrder'
    <3>1. stats' = stats \/ stats' = l.out
      BY <1>8 DEF LoadStep, UserArrives, UserRefused, StatsServed, StatsArrive, ExtrasArrive
    <3>2. l.out \in 0..Cardinality(Copies)
      BY DEF TypeOK
    <3>3. Done \in Nat
      <4>1. {j \in Attempts : att[j].st = "done"} \in SUBSET Attempts
        OBVIOUS
      <4> QED  BY <4>1, NumbersType DEF Done
    <3> QED  BY <1>2, <2>2, <3>1, <3>2, <3>3, NumbersType DEF StatsOrder
  <2> QED  BY <1>3, <2>3, <2>4
<1> QED  BY <1>5, <1>6, <1>7, <1>8 DEF Next

-----------------------------------------------------------------------------
(* The list, when scans are waited for.                                    *)

LEMMA RunningStep ==
    ASSUME NEW i \in Attempts, Goes(i)
    PROVE  /\ i \in Running /\ Waiting' = Waiting
           /\ Running' = IF att'[i].st \in InFlight THEN Running ELSE Running \ {i}
BY DEF Goes, Running, Waiting, InFlight, Asking

LEMMA RowsDistinct ==
    ASSUME TypeOK, InOrder, NEW j \in 1..Len(rows), NEW k \in 1..Len(rows), rows[j].of = rows[k].of
    PROVE  j = k
<1>1. DOMAIN rows = 1..Len(rows) /\ Len(rows) \in Nat /\ rows[j].of \in Nat /\ rows[k].of \in Nat
  BY RowOf
<1>2. j < k => rows[k].of < rows[j].of
  BY <1>1 DEF InOrder
<1>3. k < j => rows[j].of < rows[k].of
  BY <1>1 DEF InOrder
<1> QED  BY <1>1, <1>2, <1>3

Listed(i) == att[i].list = list /\ att[i].st \in InFlight \cup {"done"}
HasRow(i) == \E k \in 1..Len(rows) : rows[k].of = i

\* RowsTrue and OneByOne, with the rows numbered.
LEMMA RowsParts ==
    ASSUME TypeOK, InOrder
    PROVE  /\ RowsTrue <=> ("scan" \notin Hurries => \A i \in Attempts : HasRow(i) <=> Listed(i))
           /\ OneByOne <=> ("scan" \notin Hurries =>
                /\ \A i, j \in Running : i = j
                /\ \A k \in 1..Len(rows) : rows[k].index + k = Len(rows)
                /\ \A i \in Running : att[i].list = list =>
                      rows # <<>> /\ rows[1].of = i /\ att[i].index = rows[1].index)
<1>1. DOMAIN rows = 1..Len(rows)
  BY LenProperties DEF TypeOK
<1>2. \A k \in 1..Len(rows) : rows[k].of \in Attempts
  BY RowOf
<1>3. \A j, k \in DOMAIN rows : rows[j].of = rows[k].of => j = k
  BY <1>1, RowsDistinct
<1>4. {rows[k].of : k \in DOMAIN rows} =
        {i \in Attempts : att[i].list = list /\ att[i].st \in InFlight \cup {"done"}}
      <=> \A i \in Attempts : HasRow(i) <=> Listed(i)
  BY <1>1, <1>2 DEF HasRow, Listed
<1> QED  BY <1>1, <1>3, <1>4 DEF RowsTrue, OneByOne

\* The row that is taken off is that of the attempt.
LEMMA DropsOwn ==
    ASSUME TypeOK, InOrder, OneByOne, "scan" \notin Hurries,
           NEW i \in Attempts, Goes(i), Drops(i)
    PROVE  \/ att[i].list # list /\ UNCHANGED rows
           \/ att[i].list = list /\ rows[1].of = i /\ 1 \in 1..Len(rows) /\ LessRow(1)
<1>1. i \in Running /\ Len(rows) \in Nat /\ (rows = <<>> <=> Len(rows) = 0)
  BY RunningStep, LenProperties, EmptySeq DEF TypeOK
<1>2. CASE att[i].list # list
  BY <1>2 DEF Drops, Reject
<1>3. CASE att[i].list = list
  <2>1. /\ rows # <<>> /\ rows[1].of = i /\ att[i].index = rows[1].index
        /\ \A k \in 1..Len(rows) : rows[k].index + k = Len(rows)
    BY <1>1, <1>3, RowsParts
  <2>2. rows' = Without(att[i].index)
    BY <1>3 DEF Drops, Reject
  <2>3. PICK p \in 1..Len(rows) :
           /\ LessRow(p)
           /\ \A k \in 1..Len(rows) :
                 (\A j \in 1..Len(rows) : rows[j].index = att[i].index <=> j = k) => p = k
    BY <2>1, <2>2, WithoutIs
  <2>4. 1 \in 1..Len(rows)
    BY <1>1, <2>1
  <2>5. \A j \in 1..Len(rows) : rows[j].index = att[i].index <=> j = 1
    <3> SUFFICES ASSUME NEW j \in 1..Len(rows) PROVE rows[j].index = rows[1].index <=> j = 1
      BY <2>1
    <3>1. rows[j].index \in Nat /\ rows[1].index \in Nat
      <4>1. rows[j] \in Row /\ rows[1] \in Row
        BY <2>4, RowOf
      <4> QED  BY <4>1, NumbersType DEF Row
    <3>2. rows[j].index + j = Len(rows) /\ rows[1].index + 1 = Len(rows)
      BY <2>1, <2>4
    <3> DEFINE u == rows[j].index
               v == rows[1].index
               n == Len(rows)
    <3>3. u \in Nat /\ v \in Nat /\ n \in Nat /\ u + j = n /\ v + 1 = n /\ j \in 1..n
      BY <1>1, <3>1, <3>2
    <3>4. u = v <=> j = 1
      <4> HIDE DEF u, v, n
      <4> QED  BY <3>3
    <3> QED  BY <3>4
  <2>6. p = 1
    BY <2>3, <2>4, <2>5
  <2> QED  BY <1>3, <2>1, <2>3, <2>4, <2>6
<1> QED  BY <1>2, <1>3

LEMMA RowsTrueStep ==
    ASSUME TypeOK, InOrder, Next, TypeOK', InOrder', RowsTrue, OneByOne
    PROVE  RowsTrue' /\ OneByOne'
<1> DEFINE RT == \A i \in Attempts : HasRow(i) <=> Listed(i)
           O1 == \A i, j \in Running : i = j
           O2 == \A k \in 1..Len(rows) : rows[k].index + k = Len(rows)
           O3 == \A i \in Running : att[i].list = list =>
                      rows # <<>> /\ rows[1].of = i /\ att[i].index = rows[1].index
<1>1. Hurries' = Hurries
  BY DEF Next, Hurries
<1>2. "scan" \notin Hurries => RT /\ O1 /\ O2 /\ O3
  BY RowsParts
<1>3. ("scan" \notin Hurries => RT' /\ O1' /\ O2' /\ O3') => RowsTrue' /\ OneByOne'
  <2>1. DOMAIN rows' = 1..Len(rows') /\ Len(rows') \in Nat
    BY LenProperties DEF TypeOK
  <2>2. \A k \in 1..Len(rows') : rows'[k].of \in Attempts /\ rows'[k].of \in Nat
    <3> SUFFICES ASSUME NEW k \in 1..Len(rows') PROVE rows'[k].of \in Attempts
      BY NumbersType
    <3>1. rows'[k] \in Row
      BY <2>1 DEF TypeOK
    <3> QED  BY <3>1 DEF Row
  <2>3. \A j, k \in DOMAIN rows' : rows'[j].of = rows'[k].of => j = k
    <3> SUFFICES ASSUME NEW j \in 1..Len(rows'), NEW k \in 1..Len(rows'), rows'[j].of = rows'[k].of
                 PROVE  j = k
      BY <2>1
    <3>1. (j < k => rows'[k].of < rows'[j].of) /\ (k < j => rows'[j].of < rows'[k].of)
      BY <2>1 DEF InOrder
    <3> QED  BY <2>1, <2>2, <3>1
  <2>4. RT' => {rows'[k].of : k \in DOMAIN rows'} =
        {i \in Attempts : att'[i].list = list' /\ att'[i].st \in InFlight \cup {"done"}}
    BY <2>1, <2>2 DEF HasRow, Listed
  <2> QED  BY <1>1, <2>1, <2>3, <2>4 DEF RowsTrue, OneByOne
<1>4. SUFFICES ASSUME "scan" \notin Hurries PROVE RT' /\ O1' /\ O2' /\ O3'
  BY <1>3
<1>5. RT /\ O1 /\ O2 /\ O3
  BY <1>2, <1>4
<1>6. /\ \A k \in 1..Len(rows) : rows[k].of \in Attempts /\ rows[k].index \in Nat
      /\ Len(rows) \in Nat /\ rows \in Seq(Row) /\ (rows = <<>> <=> Len(rows) = 0)
  <2>1. ASSUME NEW k \in 1..Len(rows) PROVE rows[k].index \in Nat
    BY <2>1, RowOf, NumbersType DEF Row
  <2> QED  BY <2>1, RowOf, LenProperties, EmptySeq DEF TypeOK
<1>7. /\ list \in Nat /\ \A j \in Attempts : att[j].list \in Nat /\ att[j].list <= list
  <2>1. \A j \in Attempts : att[j].list <= list
    BY DEF InOrder
  <2>2. list \in Nat /\ \A j \in Attempts : att[j].list \in Nat
    BY NumbersType DEF TypeOK, Attempt
  <2> QED  BY <2>1, <2>2
<1>8. ASSUME NEW i \in Attempts, AttemptStep(i) PROVE RT' /\ O1' /\ O2' /\ O3'
  <2>1. Goes(i) /\ (Stays(i) \/ Drops(i) \/ Finish(i))
    BY <1>8, StepGoes
  <2>2. i \in Running /\ Running' \subseteq Running /\ (att'[i].st \notin InFlight => Running' = {})
    BY <1>5, <2>1, RunningStep
  <2>3. O1'
    BY <1>5, <2>2
  <2>4. /\ \A j \in Attempts : j # i => att'[j] = att[j]
        /\ att'[i].list = att[i].list /\ att'[i].index = att[i].index /\ list' = list
        /\ att[i].st \in InFlight
    BY <2>1 DEF Goes
  <2>5. CASE SameRows /\ att'[i].st \in InFlight \cup {"done"}
    <3>1. \A j \in Attempts : (HasRow(j) <=> HasRow(j)') /\ (Listed(j) <=> Listed(j)')
      BY <2>4, <2>5 DEF SameRows, HasRow, Listed
    <3>2. Len(rows') = Len(rows) /\ (rows = <<>> <=> rows' = <<>>)
      BY <1>6, <2>5, EmptySeq DEF SameRows
    <3>3. O2'
      BY <1>5, <2>5 DEF SameRows
    <3>4. O3'
      <4> SUFFICES ASSUME NEW j \in Running', att'[j].list = list'
                   PROVE  rows' # <<>> /\ rows'[1].of = j /\ att'[j].index = rows'[1].index
        OBVIOUS
      <4>1. j \in Running /\ j = i /\ att[i].list = list
        BY <1>5, <2>2, <2>4
      <4>2. rows # <<>> /\ rows[1].of = j /\ att[j].index = rows[1].index
        BY <1>5, <4>1
      <4>3. 1 \in 1..Len(rows)
        BY <1>6, <4>2
      <4>4. rows'[1].of = rows[1].of /\ rows'[1].index = rows[1].index
        BY <2>5, <4>3 DEF SameRows
      <4> QED  BY <2>4, <3>2, <4>1, <4>2, <4>4
    <3> QED  BY <1>5, <2>3, <3>1, <3>3, <3>4
  <2>6. CASE Drops(i)
    <3>1. att'[i].st = "rejected" /\ att'[i].st \notin InFlight \cup {"done"}
      <4>1. att'[i].st = "rejected"
        BY <2>6, Resent DEF Drops
      <4> QED  BY <4>1 DEF InFlight, Asking
    <3>2. Running' = {} /\ ~Listed(i)' /\ \A j \in Attempts : j # i => (Listed(j) <=> Listed(j)')
      BY <2>2, <2>4, <3>1 DEF Listed
    <3>3. CASE att[i].list # list /\ UNCHANGED rows
      <4>1. ~Listed(i)
        BY <3>3 DEF Listed
      <4>2. \A j \in Attempts : HasRow(j) <=> HasRow(j)'
        BY <3>3 DEF HasRow
      <4> QED  BY <1>5, <3>2, <3>3, <4>1, <4>2
    <3>4. CASE rows[1].of = i /\ 1 \in 1..Len(rows) /\ LessRow(1)
      <4>1. Len(rows') = Len(rows) - 1 /\ \A k \in 1..(Len(rows) - 1) : rows'[k] = rows[k + 1]
        BY <3>4 DEF LessRow
      <4>2. O2'
        <5> SUFFICES ASSUME NEW k \in 1..(Len(rows) - 1) PROVE rows'[k].index + k = Len(rows) - 1
          BY <4>1
        <5>1. k + 1 \in 1..Len(rows) /\ k \in Nat
          BY <1>6
        <5>2. rows[k + 1].index + (k + 1) = Len(rows) /\ rows[k + 1].index \in Nat
          BY <1>5, <1>6, <5>1
        <5>3. rows'[k].index = rows[k + 1].index
          BY <4>1
        <5> DEFINE u == rows[k + 1].index
                   n == Len(rows)
        <5>4. u \in Nat /\ n \in Nat /\ k \in Nat /\ u + (k + 1) = n
          BY <1>6, <5>1, <5>2
        <5>5. u + k = n - 1
          <6> HIDE DEF u, n
          <6> QED  BY <5>4
        <5> QED  BY <5>3, <5>5
      <4>3. ~HasRow(i)'
        <5> SUFFICES ASSUME NEW k \in 1..(Len(rows) - 1), rows[k + 1].of = i PROVE FALSE
          BY <4>1 DEF HasRow
        <5>1. k + 1 \in 1..Len(rows) /\ k + 1 # 1
          BY <1>6
        <5> QED  BY <3>4, <5>1, RowsDistinct
      <4>4. ASSUME NEW j \in Attempts, j # i PROVE HasRow(j) <=> HasRow(j)'
        <5>1. ASSUME NEW k \in 1..Len(rows), rows[k].of = j PROVE HasRow(j)'
          <6>1. k # 1
            BY <3>4, <4>4, <5>1
          <6>2. k - 1 \in 1..(Len(rows) - 1) /\ (k - 1) + 1 = k
            BY <1>6, <6>1
          <6>3. rows'[k - 1].of = j
            BY <4>1, <5>1, <6>2
          <6> QED  BY <4>1, <6>2, <6>3 DEF HasRow
        <5>2. ASSUME NEW k \in 1..(Len(rows) - 1), rows'[k].of = j PROVE HasRow(j)
          <6>1. k + 1 \in 1..Len(rows) /\ rows[k + 1].of = j
            BY <1>6, <4>1, <5>2
          <6> QED  BY <6>1 DEF HasRow
        <5> QED  BY <4>1, <5>1, <5>2 DEF HasRow
      <4> QED  BY <1>5, <2>3, <3>2, <4>2, <4>3, <4>4
    <3> QED  BY <1>4, <2>1, <2>6, <3>3, <3>4, DropsOwn
  <2>7. Stays(i) => SameRows /\ att'[i].st \in InFlight
    BY <1>6 DEF Stays, SameRows
  <2>8. ASSUME Finish(i) PROVE SameRows /\ att'[i].st = "done"
    <3>1. att'[i].st = "done"
      BY <2>8 DEF Finish, TypeOK, Attempt
    <3>2. rows' = rows \/ rows' = Filled(i)
      BY <2>8 DEF Finish
    <3>3. rows' = rows => SameRows
      BY <1>6 DEF SameRows
    <3> QED  BY <3>1, <3>2, <3>3, FilledIs
  <2> QED  BY <2>1, <2>5, <2>6, <2>7, <2>8
<1>9. CASE OpenSome \/ Search
  <2>1. Turned
    BY <1>9, PageTurned
  <2>2. UNCHANGED att /\ Running' = Running
    BY <2>1 DEF Turned, Running
  <2>3. CASE UNCHANGED <<rows, list>>
    BY <1>5, <2>2, <2>3 DEF HasRow, Listed
  <2>4. CASE NewList
    <3>1. list' = list + 1 /\ rows' = <<>> /\ Len(rows') = 0
      BY <2>4 DEF NewList
    <3>2. \A j \in Attempts : att'[j].list # list'
      BY <1>7, <2>2, <3>1
    <3>3. Running' \subseteq Attempts
      BY DEF Running
    <3> QED  BY <1>5, <2>2, <3>1, <3>2, <3>3 DEF HasRow, Listed
  <2> QED  BY <2>1, <2>3, <2>4 DEF Turned
<1>10. CASE ScanSome
  <2>1. PICK i \in Waiting, b \in scene.codes : Scanned(i, b)
    BY <1>10, ScanScanned
  <2>2. /\ i \in Attempts /\ att[i].st = "unused" /\ att'[i].st = "typed"
        /\ att'[i].list = list /\ att'[i].index = Len(rows)
        /\ \A j \in Attempts : j # i => att'[j] = att[j]
        /\ rows' \in Seq(Row) /\ Len(rows') = Len(rows) + 1
        /\ \A k \in 1..Len(rows) : rows'[k + 1] = rows[k]
    BY <2>1, ScanIs
  <2>3. rows'[1].of = i /\ rows'[1].index = Len(rows)
    BY <2>1, ScanRow
  <2>4. list' = list /\ Running = {}
    BY <1>4, <2>1 DEF Scanned
  <2>5. Running' = {i} /\ "typed" \in InFlight
    BY <2>2, <2>4 DEF Running, InFlight
  <2>6. rows' # <<>>
    BY <1>6, <2>2, EmptySeq
  <2>7. O1' /\ O3'
    BY <2>2, <2>3, <2>5, <2>6
  <2>8. \A m \in 1..(Len(rows) + 1) : m = 1 \/ (m - 1 \in 1..Len(rows) /\ rows'[m] = rows[m - 1])
    <3> SUFFICES ASSUME NEW m \in 1..(Len(rows) + 1), m # 1
                 PROVE  m - 1 \in 1..Len(rows) /\ rows'[m] = rows[m - 1]
      OBVIOUS
    <3>1. m - 1 \in 1..Len(rows) /\ (m - 1) + 1 = m
      BY <1>6
    <3>2. rows'[(m - 1) + 1] = rows[m - 1]
      BY <2>2, <3>1
    <3> QED  BY <3>1, <3>2
  <2>9. O2'
    <3> SUFFICES ASSUME NEW m \in 1..(Len(rows) + 1) PROVE rows'[m].index + m = Len(rows) + 1
      BY <2>2
    <3>1. CASE m = 1
      BY <1>6, <2>3, <3>1
    <3>2. CASE m - 1 \in 1..Len(rows) /\ rows'[m] = rows[m - 1]
      <4>1. rows[m - 1].index + (m - 1) = Len(rows) /\ rows[m - 1].index \in Nat
        BY <1>5, <1>6, <3>2
      <4> QED  BY <1>6, <3>2, <4>1
    <3> QED  BY <2>8, <3>1, <3>2
  <2>10. HasRow(i)' /\ Listed(i)'
    <3>1. 1 \in 1..Len(rows')
      BY <1>6, <2>2
    <3> QED  BY <2>2, <2>3, <2>4, <2>5, <3>1 DEF HasRow, Listed
  <2>11. ASSUME NEW j \in Attempts, j # i
         PROVE  (HasRow(j) <=> HasRow(j)') /\ (Listed(j) <=> Listed(j)')
    <3>1. HasRow(j) => HasRow(j)'
      <4> SUFFICES ASSUME NEW k \in 1..Len(rows), rows[k].of = j PROVE HasRow(j)'
        BY DEF HasRow
      <4>1. k + 1 \in 1..(Len(rows) + 1) /\ rows'[k + 1].of = j
        BY <1>6, <2>2
      <4> QED  BY <2>2, <4>1 DEF HasRow
    <3>2. HasRow(j)' => HasRow(j)
      <4> SUFFICES ASSUME NEW m \in 1..(Len(rows) + 1), rows'[m].of = j PROVE HasRow(j)
        BY <2>2 DEF HasRow
      <4>1. m # 1
        BY <2>3, <2>11
      <4> QED  BY <2>8, <4>1 DEF HasRow
    <3> QED  BY <2>2, <2>4, <2>11, <3>1, <3>2 DEF Listed
  <2> QED  BY <1>5, <2>7, <2>9, <2>10, <2>11
<1>11. ASSUME NEW l \in loads, LoadStep(l) PROVE RT' /\ O1' /\ O2' /\ O3'
  <2>1. UNCHANGED <<rows, list, att>>
    BY <1>11, LoadLoading DEF Loading
  <2> QED  BY <1>5, <2>1 DEF HasRow, Listed, Running
<1> QED  BY <1>8, <1>9, <1>10, <1>11 DEF Next

-----------------------------------------------------------------------------
(* The patron of the page, when loads are waited for.                      *)

\* An attempt's step leaves no row for which there was none.
LEMMA OldRow ==
    ASSUME TypeOK, SameRows \/ (\E p \in 1..Len(rows) : LessRow(p)), NEW k \in 1..Len(rows')
    PROVE  \E m \in 1..Len(rows) :
              rows'[k].of = rows[m].of /\ (~SameRows => rows'[k] = rows[m])
<1>1. Len(rows) \in Nat
  BY LenProperties DEF TypeOK
<1>2. CASE SameRows
  BY <1>2 DEF SameRows
<1>3. ASSUME ~SameRows, NEW p \in 1..Len(rows), LessRow(p)
      PROVE  \E m \in 1..Len(rows) : rows'[k] = rows[m]
  <2>1. k \in 1..(Len(rows) - 1) /\ rows'[k] = IF k < p THEN rows[k] ELSE rows[k + 1]
    BY <1>3 DEF LessRow
  <2>2. k \in 1..Len(rows) /\ k + 1 \in 1..Len(rows)
    BY <1>1, <2>1
  <2> QED  BY <2>1, <2>2
<1> QED  BY <1>2, <1>3

\* The parts, with the rows numbered.
LoadsOK ==
    /\ \A l, m \in loads : l = m
    /\ loads = {} => /\ current = page.at /\ primary = Nobody
                     /\ current # Nobody => stats # NoStats
    /\ \A l \in loads : /\ l.of = page.at /\ primary = l.of
                        /\ l.step # "user" => current = l.of
                        /\ l.step = "extras" => stats # NoStats
    /\ rows # <<>> => stats # NoStats
RowsOK == \A k \in 1..Len(rows) : /\ rows[k].filled <=> att[rows[k].of].st = "done"
                                  /\ att[rows[k].of].patron = page.at

LEMMA LoadedParts ==
    ASSUME rows \in Seq(Row)
    PROVE  RowsFilled /\ RightPatron /\ LoadsTrue <=> (Loaded => LoadsOK /\ RowsOK)
<1>1. DOMAIN rows = 1..Len(rows)
  BY LenProperties
<1> QED  BY <1>1 DEF RowsFilled, RightPatron, LoadsTrue, LoadsOK, RowsOK

LEMMA LoadedAttempt ==
    ASSUME TypeOK, InOrder, LoadsOK, RowsOK, NEW i \in Attempts, AttemptStep(i)
    PROVE  LoadsOK' /\ RowsOK'
<1>1. Goes(i) /\ (Stays(i) \/ Drops(i) \/ Finish(i))
  BY StepGoes
<1>2. SameRows \/ (\E p \in 1..Len(rows) : Drops(i) /\ LessRow(p))
  BY <1>1, RowsStep
<1>3. Len(rows') \in Nat /\ Len(rows) \in Nat /\ (rows = <<>> <=> Len(rows) = 0)
  BY LenProperties, EmptySeq DEF TypeOK
<1>4. rows' # <<>> => rows # <<>>
  <2>1. CASE SameRows
    BY <1>3, <2>1, EmptySeq DEF SameRows
  <2>2. CASE \E p \in 1..Len(rows) : LessRow(p)
    BY <1>3, <2>2
  <2> QED  BY <1>2, <2>1, <2>2
<1>5. stats # NoStats => stats' # NoStats
  BY <1>1, StatsStep
<1>6. UNCHANGED <<page, current, loads, primary>>
  BY <1>1 DEF Goes
<1>7. LoadsOK'
  BY <1>4, <1>5, <1>6 DEF LoadsOK
<1>8. /\ att[i].st # "done" /\ att'[i].patron = att[i].patron
      /\ \A j \in Attempts : j # i => att'[j] = att[j]
  BY <1>1 DEF Goes, InFlight, Asking
<1>9. ASSUME NEW k \in 1..Len(rows')
      PROVE  /\ rows'[k].filled <=> att'[rows'[k].of].st = "done"
             /\ att'[rows'[k].of].patron = page'.at
  <2>1. PICK m \in 1..Len(rows) : rows'[k].of = rows[m].of /\ (~SameRows => rows'[k] = rows[m])
    BY <1>2, OldRow
  <2>2. rows[m].of \in Attempts
    BY RowOf
  <2>3. /\ rows[m].filled <=> att[rows[m].of].st = "done"
        /\ att[rows[m].of].patron = page.at
    BY DEF RowsOK
  <2>4. att'[rows'[k].of].patron = page'.at
    BY <1>6, <1>8, <2>1, <2>2, <2>3
  <2>5. CASE Stays(i) \/ Drops(i)
    <3>1. att'[i].st # "done"
      <4>1. Drops(i) => att'[i].st = "rejected"
        BY Resent DEF Drops
      <4> QED  BY <2>5, <4>1 DEF Stays, InFlight, Asking
    <3>2. (~SameRows => rows'[k].filled = rows[m].filled) /\ rows[m].of = rows'[k].of
      BY <2>1
    <3>3. SameRows => rows'[k].filled = rows[k].filled /\ k \in 1..Len(rows) /\ rows'[k].of = rows[k].of
      <4>1. CASE UNCHANGED rows
        BY <4>1
      <4>2. CASE \E p \in 1..Len(rows) : LessRow(p)
        BY <1>3, <4>2 DEF SameRows, LessRow
      <4>3. rows' = rows \/ rows' = Without(att[i].index)
        BY <2>5 DEF Stays, Drops, Reject
      <4> QED  BY <4>1, <4>2, <4>3, WithoutIs
    <3>4. \E n \in 1..Len(rows) : rows'[k].filled = rows[n].filled /\ rows'[k].of = rows[n].of
      BY <3>2, <3>3
    <3>5. PICK n \in 1..Len(rows) : rows'[k].filled = rows[n].filled /\ rows'[k].of = rows[n].of
      BY <3>4
    <3>6. rows[n].of \in Attempts /\ (rows[n].filled <=> att[rows[n].of].st = "done")
      BY RowOf DEF RowsOK
    <3>7. att'[rows[n].of].st = "done" <=> att[rows[n].of].st = "done"
      BY <1>8, <3>1, <3>6
    <3> QED  BY <2>4, <3>5, <3>6, <3>7
  <2>6. CASE Finish(i)
    <3>1. att'[i].st = "done"
      BY <2>6 DEF Finish, TypeOK, Attempt
    <3>2. rows # <<>> /\ stats # NoStats
      BY <1>3, <1>4 DEF LoadsOK
    <3>3. rows' = Filled(i)
      BY <2>6, <3>2 DEF Finish
    <3>4. /\ Len(rows') = Len(rows) /\ rows'[k].of = rows[k].of
          /\ rows'[k].filled = IF rows[k].of = i THEN TRUE ELSE rows[k].filled
      BY ZenonT(30), <3>3, FilledIs DEF SameRows
    <3>5. rows[k].of \in Attempts /\ (rows[k].filled <=> att[rows[k].of].st = "done")
      BY <3>4, RowOf DEF RowsOK
    <3> QED  BY <1>8, <2>4, <3>1, <3>4, <3>5
  <2> QED  BY <1>1, <2>5, <2>6
<1> QED  BY <1>7, <1>9 DEF RowsOK

LEMMA LoadedStep ==
    ASSUME TypeOK, InOrder, Next, TypeOK', RowsFilled /\ RightPatron /\ LoadsTrue
    PROVE  RowsFilled' /\ RightPatron' /\ LoadsTrue'
<1>1. Loaded' = Loaded
  BY DEF Next, Loaded, Hurries, OptsOut
<1>2. rows \in Seq(Row) /\ rows' \in Seq(Row)
  BY DEF TypeOK
<1>3. Loaded => LoadsOK /\ RowsOK
  BY <1>2, LoadedParts
<1>4. (Loaded => LoadsOK' /\ RowsOK') => RowsFilled' /\ RightPatron' /\ LoadsTrue'
  <2>1. DOMAIN rows' = 1..Len(rows')
    BY <1>2, LenProperties
  <2> QED  BY <1>1, <2>1 DEF RowsFilled, RightPatron, LoadsTrue, LoadsOK, RowsOK
<1>5. SUFFICES ASSUME Loaded PROVE LoadsOK' /\ RowsOK'
  BY <1>4
<1>6. LoadsOK /\ RowsOK /\ "load" \notin Hurries /\ ~OptsOut
  BY <1>3, <1>5 DEF Loaded
<1>7. ASSUME NEW i \in Attempts, AttemptStep(i) PROVE LoadsOK' /\ RowsOK'
  BY <1>6, <1>7, LoadedAttempt
<1>8. ASSUME loads = {}
      PROVE  current = page.at /\ primary = Nobody /\ (current # Nobody => stats # NoStats)
  BY <1>6, <1>8 DEF LoadsOK
<1>9. ASSUME NEW p \in Patrons, Open(p) PROVE LoadsOK' /\ RowsOK'
  <2>1. loads = {} /\ p # Nobody /\ page'.at = p
    BY <1>6, <1>9, SceneType DEF Open, MayLeave, NewController
  <2>2. UNCHANGED att
    BY <1>9 DEF Open
  <2>3. CASE primary # p /\ current = p /\ stats # NoStats /\ primary' = Nobody
             /\ UNCHANGED <<current, stats, loads, rows, list>>
    BY <1>6, <1>8, <2>1, <2>2, <2>3 DEF LoadsOK, RowsOK
  <2>4. CASE /\ primary # p /\ current # p
             /\ NewList
             /\ stats' = NoStats
             /\ primary' = p
             /\ loads' = loads \cup {Load(p, "user")}
    <3>1. loads' = {Load(p, "user")} /\ Load(p, "user").of = p /\ Load(p, "user").step = "user"
      BY <2>1, <2>4 DEF Load
    <3>2. rows' = <<>> /\ Len(rows') = 0
      BY <2>4 DEF NewList
    <3> QED  BY <2>1, <2>4, <3>1, <3>2 DEF LoadsOK, RowsOK
  <2> QED  BY <1>8, <1>9, <2>1, <2>3, <2>4 DEF Open
<1>10. CASE Search
  <2>1. loads' = {} /\ primary' = Nobody /\ current' = Nobody
    BY <1>6, <1>8, <1>10 DEF Search, MayLeave
  <2>2. page'.at = Nobody /\ rows' = <<>> /\ Len(rows') = 0
    BY <1>10 DEF Search, NewController, NewList
  <2> QED  BY <2>1, <2>2 DEF LoadsOK, RowsOK
<1>11. CASE ScanSome
  <2>1. PICK i \in Waiting, b \in scene.codes : Scanned(i, b)
    BY <1>11, ScanScanned
  <2>2. /\ i \in Attempts /\ att'[i].st = "typed" /\ att'[i].patron = current
        /\ \A j \in Attempts : j # i => att'[j] = att[j]
        /\ Len(rows') = Len(rows) + 1
        /\ \A k \in 1..Len(rows) : rows'[k + 1] = rows[k]
    BY <2>1, ScanIs
  <2>3. rows'[1].of = i /\ ~rows'[1].filled /\ Len(rows) \in Nat
    BY <2>1, ScanRow, LenProperties DEF TypeOK
  <2>4. loads = {} /\ current # Nobody /\ UNCHANGED <<page, current, stats, loads, primary>>
    BY <1>6, <2>1 DEF Scanned, patronVars
  <2>5. current = page.at /\ primary = Nobody /\ stats # NoStats
    BY <1>8, <2>4
  <2>6. LoadsOK'
    BY <2>4, <2>5 DEF LoadsOK
  <2>7. ASSUME NEW m \in 1..(Len(rows) + 1)
        PROVE  /\ rows'[m].filled <=> att'[rows'[m].of].st = "done"
               /\ att'[rows'[m].of].patron = page'.at
    <3>1. CASE m = 1
      BY <2>2, <2>3, <2>4, <2>5, <3>1
    <3>2. CASE m # 1
      <4>1. m - 1 \in 1..Len(rows) /\ (m - 1) + 1 = m
        BY <2>3, <3>2
      <4>2. rows'[m] = rows[m - 1]
        <5>1. rows'[(m - 1) + 1] = rows[m - 1]
          BY <2>2, <4>1
        <5> QED  BY <4>1, <5>1
      <4>3. rows[m - 1].of \in Attempts /\ rows[m - 1].of # i
        BY <2>1, <4>1, NewAttempt, RowOf DEF Scanned
      <4>4. /\ rows[m - 1].filled <=> att[rows[m - 1].of].st = "done"
            /\ att[rows[m - 1].of].patron = page.at
        BY <1>6, <4>1 DEF RowsOK
      <4> QED  BY <2>2, <2>4, <4>2, <4>3, <4>4
    <3> QED  BY <3>1, <3>2
  <2> QED  BY <2>2, <2>6, <2>7 DEF RowsOK
<1>12. ASSUME NEW l \in loads, LoadStep(l) PROVE LoadsOK' /\ RowsOK'
  <2>1. UNCHANGED <<page, rows, att>>
    BY <1>12, LoadLoading DEF Loading
  <2>2. RowsOK'
    BY <1>6, <2>1 DEF RowsOK
  <2>3. /\ loads = {l} /\ l.of = page.at /\ primary = l.of /\ (l.step # "user" => current = l.of)
        /\ (rows # <<>> => stats # NoStats)
    <3>1. \A m \in loads : m = l
      BY <1>6 DEF LoadsOK
    <3>2. loads = {l}
      BY <3>1
    <3>3. l.of = page.at /\ primary = l.of /\ (l.step # "user" => current = l.of)
      BY <1>6 DEF LoadsOK
    <3>4. rows # <<>> => stats # NoStats
      BY <1>6 DEF LoadsOK
    <3> QED  BY <3>2, <3>3, <3>4
  <2>4. l \in LoadType /\ l.of # Nobody /\ l.out \in 0..Cardinality(Copies)
    <3>1. l \in LoadType
      BY DEF TypeOK, LoadType
    <3> QED  BY <3>1, SceneType DEF LoadType
  <2>5. CASE UserArrives(l)
    <3> DEFINE m == [l EXCEPT !.step = "stats"]
    <3>1. loads' = {m} /\ current' = l.of /\ UNCHANGED <<primary, stats>>
      BY <2>3, <2>5 DEF UserArrives
    <3>2. m.of = l.of /\ m.step = "stats"
      BY <2>4 DEF LoadType
    <3> HIDE DEF m
    <3> QED  BY <2>1, <2>2, <2>3, <3>1, <3>2 DEF LoadsOK
  <2>6. CASE StatsServed(l)
    <3> DEFINE o == OutOf(l.of)
               m == [l EXCEPT !.step = "served", !.out = o]
    <3>1. loads' = {m} /\ l.step = "stats" /\ UNCHANGED <<current, primary, stats>>
      BY <2>3, <2>6 DEF StatsServed
    <3>2. m.of = l.of /\ m.step = "served"
      <4> HIDE DEF o
      <4> QED  BY <2>4 DEF LoadType
    <3> HIDE DEF m
    <3> QED  BY <2>1, <2>2, <2>3, <3>1, <3>2 DEF LoadsOK
  <2>7. CASE StatsArrive(l)
    <3> DEFINE m == [l EXCEPT !.step = "extras"]
    <3>1. loads' = {m} /\ current = l.of /\ stats' = l.out /\ UNCHANGED <<current, primary>>
      BY <2>3, <2>4, <2>7 DEF StatsArrive
    <3>2. m.of = l.of
      BY <2>4 DEF LoadType
    <3>3. stats' # NoStats
      BY <2>4, <3>1, NumbersType
    <3> HIDE DEF m
    <3> QED  BY <2>1, <2>2, <2>3, <3>1, <3>2, <3>3 DEF LoadsOK
  <2>8. CASE ExtrasArrive(l)
    <3>1. l.step = "extras" /\ stats # NoStats
      BY <1>6, <2>8 DEF ExtrasArrive, LoadsOK
    <3>2. loads' = {} /\ current = l.of /\ primary' = Nobody /\ UNCHANGED <<current, stats>>
      BY <2>3, <2>8, <3>1 DEF ExtrasArrive
    <3> QED  BY <2>1, <2>2, <2>3, <3>1, <3>2 DEF LoadsOK
  <2> QED  BY <1>6, <1>12, <2>5, <2>6, <2>7, <2>8 DEF LoadStep, UserRefused
<1> QED  BY <1>7, <1>9, <1>10, <1>11, <1>12 DEF Next, OpenSome

-----------------------------------------------------------------------------
(* The pending barcodes, when all are scanned in full.                     *)

PendingOK ==
    /\ \A b \in pending : \E i \in Running : att[i].typed = b /\ att[i].visit = page.visit
    /\ \A i, j \in Running : i # j /\ att[i].visit = att[j].visit => att[i].typed # att[j].typed
    /\ \A i \in Running : att[i].typed \in Copies /\ att[i].copy \in {att[i].typed, Nobody}
    /\ \A i \in Running : att[i].visit = page.visit => att[i].typed \in pending

LEMMA CodeIsTyped ==
    ASSUME NEW i, att[i].copy \in {att[i].typed, Nobody}
    PROVE  CodeOf(i) = att[i].typed
BY DEF CodeOf

LEMMA PendingParts ==
    ASSUME TypeOK
    PROVE  PendingUnderWay /\ OneAttempt /\ PendingTrue <=> (InFull => PendingOK)
<1>1. ASSUME \A i \in Running : att[i].copy \in {att[i].typed, Nobody}
      PROVE  \A i \in Running : CodeOf(i) = att[i].typed
  BY <1>1, CodeIsTyped
<1>2. ASSUME InFull, PendingOK PROVE PendingUnderWay /\ OneAttempt /\ PendingTrue
  BY <1>1, <1>2 DEF PendingUnderWay, OneAttempt, PendingTrue, PendingOK
<1>3. ASSUME InFull, PendingUnderWay, OneAttempt, PendingTrue PROVE PendingOK
  BY <1>1, <1>3 DEF PendingUnderWay, OneAttempt, PendingTrue, PendingOK
<1>4. ~InFull => PendingUnderWay /\ OneAttempt /\ PendingTrue
  BY DEF PendingUnderWay, OneAttempt, PendingTrue
<1> QED  BY <1>2, <1>3, <1>4

LEMMA PendingOKStep ==
    ASSUME TypeOK, InOrder, Next, TypeOK', InFull, PendingOK
    PROVE  PendingOK'
<1>1. ASSUME NEW i \in Attempts, AttemptStep(i) PROVE PendingOK'
  <2>1. Goes(i) /\ (Stays(i) \/ Drops(i) \/ Finish(i))
    BY <1>1, StepGoes
  <2>2. /\ i \in Running
        /\ Running' = IF att'[i].st \in InFlight THEN Running ELSE Running \ {i}
    BY <2>1, RunningStep
  <2>3. /\ \A j \in Attempts : j # i => att'[j] = att[j]
        /\ att'[i].typed = att[i].typed /\ att'[i].visit = att[i].visit /\ page' = page
        /\ att[i].typed \in Copies /\ att[i].copy \in {att[i].typed, Nobody}
        /\ Running \subseteq Attempts
    BY <2>1, <2>2 DEF Goes, PendingOK, Running
  <2>4. att'[i].st # "rejected" => att'[i].copy \in {att'[i].typed, Nobody}
    BY <2>1, <2>3 DEF Goes
  <2>5. CASE Stays(i)
    <3>1. Running' = Running /\ att'[i].st # "rejected" /\ pending' = pending
      BY <2>2, <2>5 DEF Stays, InFlight, Asking
    <3> QED  BY <2>3, <2>4, <3>1 DEF PendingOK
  <2>6. CASE Drops(i) \/ Finish(i)
    <3>1. att'[i].st \notin InFlight
      <4>1. Drops(i) => att'[i].st = "rejected"
        BY Resent DEF Drops
      <4>2. Finish(i) => att'[i].st = "done"
        BY DEF Finish, TypeOK, Attempt
      <4> QED  BY <2>6, <4>1, <4>2 DEF InFlight, Asking
    <3>2. Running' = Running \ {i}
      BY <2>2, <3>1
    <3>3. pending' = IF att[i].visit = page.visit THEN pending \ {att[i].typed} ELSE pending
      <4>1. CodeOf(i) = att[i].typed
        BY <2>3, CodeIsTyped
      <4> QED  BY <2>6, <4>1 DEF Drops, Reject, Finish, Unlisted
    <3>4. ASSUME NEW b \in pending'
          PROVE  \E j \in Running' : att'[j].typed = b /\ att'[j].visit = page'.visit
      <4>1. PICK j \in Running : att[j].typed = b /\ att[j].visit = page.visit
        BY <3>3 DEF PendingOK
      <4>2. j # i
        BY <3>3, <4>1
      <4> QED  BY <2>3, <3>2, <4>1, <4>2
    <3>5. ASSUME NEW j \in Running', att'[j].visit = page'.visit PROVE att'[j].typed \in pending'
      <4>1. j \in Running /\ j # i /\ att'[j] = att[j]
        BY <2>3, <3>2
      <4>2. att[j].typed \in pending
        BY <2>3, <3>5, <4>1 DEF PendingOK
      <4>3. att[i].visit = page.visit => att[j].typed # att[i].typed
        BY <2>2, <2>3, <3>5, <4>1 DEF PendingOK
      <4> QED  BY <3>3, <4>1, <4>2, <4>3
    <3>6. \A j \in Running' : j \in Running /\ att'[j] = att[j]
      BY <2>3, <3>2
    <3> QED  BY <3>4, <3>5, <3>6 DEF PendingOK
  <2> QED  BY <2>1, <2>5, <2>6
<1>2. CASE OpenSome \/ Search
  <2>1. UNCHANGED att /\ Running' = Running /\ pending' = {} /\ page'.visit = page.visit + 1
    BY <1>2, PageTurned DEF Turned, Running
  <2>2. \A j \in Running : att[j].visit # page'.visit
    <3> SUFFICES ASSUME NEW j \in Running PROVE att[j].visit # page'.visit
      OBVIOUS
    <3>1. j \in Attempts /\ att[j].visit <= page.visit
      BY DEF Running, InOrder
    <3>2. att[j].visit \in Nat /\ page.visit \in Nat
      BY <3>1, NumbersType DEF TypeOK, Attempt
    <3> QED  BY <2>1, <3>1, <3>2
  <2> QED  BY <2>1, <2>2 DEF PendingOK
<1>3. CASE ScanSome
  <2>1. PICK i \in Waiting, b \in scene.codes : Scanned(i, b)
    BY <1>3, ScanScanned
  <2>2. /\ i \in Attempts /\ att[i].st = "unused" /\ att'[i].st = "typed" /\ att'[i].typed = b
        /\ att'[i].copy = Nobody /\ att'[i].visit = page.visit
        /\ \A j \in Attempts : j # i => att'[j] = att[j]
    BY ZenonT(30), <2>1, ScanIs
  <2>3. b \notin pending /\ pending' = pending \cup {b} /\ page' = page /\ b \in Copies
    <3>1. b \in Codes /\ b \notin Shorts
      BY <2>1 DEF Scanned, InFull
    <3> QED  BY <2>1, <3>1 DEF Scanned, Codes
  <2>4. Running' = Running \cup {i} /\ i \notin Running
    BY <2>2 DEF Running, InFlight, Asking
  <2>5. \A j \in Running : att'[j] = att[j]
    BY <2>2, <2>4 DEF Running
  <2>6. \A j \in Running : att[j].visit = page.visit => att[j].typed # b
    BY <2>3 DEF PendingOK
  <2>7. \A c \in pending' : \E j \in Running' : att'[j].typed = c /\ att'[j].visit = page'.visit
    BY <2>2, <2>3, <2>4, <2>5 DEF PendingOK
  <2>8. ASSUME NEW j \in Running', NEW k \in Running', j # k, att'[j].visit = att'[k].visit
        PROVE  att'[j].typed # att'[k].typed
    <3>1. CASE j = i
      <4>1. k \in Running /\ att[k].visit = page.visit
        BY <2>2, <2>4, <2>5, <2>8, <3>1
      <4> QED  BY <2>2, <2>5, <2>6, <3>1, <4>1
    <3>2. CASE k = i
      <4>1. j \in Running /\ att[j].visit = page.visit
        BY <2>2, <2>4, <2>5, <2>8, <3>2
      <4> QED  BY <2>2, <2>5, <2>6, <3>2, <4>1
    <3>3. CASE j # i /\ k # i
      BY <2>4, <2>5, <2>8, <3>3 DEF PendingOK
    <3> QED  BY <3>1, <3>2, <3>3
  <2>9. ASSUME NEW j \in Running'
        PROVE  /\ att'[j].typed \in Copies /\ att'[j].copy \in {att'[j].typed, Nobody}
               /\ att'[j].visit = page'.visit => att'[j].typed \in pending'
    BY <2>2, <2>3, <2>4, <2>5 DEF PendingOK
  <2> QED  BY <2>7, <2>8, <2>9 DEF PendingOK
<1>4. ASSUME NEW l \in loads, LoadStep(l) PROVE PendingOK'
  <2>1. UNCHANGED <<page, pending, att>> /\ Running' = Running
    BY <1>4, LoadLoading DEF Loading, Running
  <2> QED  BY <2>1 DEF PendingOK
<1> QED  BY <1>1, <1>2, <1>3, <1>4 DEF Next

LEMMA PendingTrueStep ==
    ASSUME TypeOK, InOrder, Next, TypeOK', PendingUnderWay /\ OneAttempt /\ PendingTrue
    PROVE  PendingUnderWay' /\ OneAttempt' /\ PendingTrue'
<1>1. InFull' = InFull
  BY DEF Next, InFull
<1>2. InFull => PendingOK'
  BY PendingParts, PendingOKStep
<1>3. \A i \in Running' : att'[i].copy \in {att'[i].typed, Nobody} => CodeOf(i)' = att'[i].typed
  BY DEF CodeOf
<1>4. (InFull => PendingOK') => PendingUnderWay' /\ OneAttempt' /\ PendingTrue'
  BY <1>1, <1>3 DEF PendingUnderWay, OneAttempt, PendingTrue, PendingOK
<1> QED  BY <1>2, <1>4

\* Attempts of one visit that are in flight are on copies of their own.
LEMMA Apart ==
    ASSUME TypeOK, InOrder, RowsTrue /\ OneByOne, PendingUnderWay /\ OneAttempt /\ PendingTrue,
           InFull \/ "scan" \notin Hurries,
           NEW i \in Running, NEW j \in Running, i # j, att[i].visit = att[j].visit,
           att[i].st # "typed", att[j].st # "typed"
    PROVE  att[i].copy # att[j].copy
<1>1. InFull
  BY DEF OneByOne
<1>2. CodeOf(i) # CodeOf(j)
  BY <1>1 DEF OneAttempt
<1>3. att[i].copy \in Copies /\ att[j].copy \in Copies
  BY DEF Running, InOrder
<1> QED  BY <1>2, <1>3, SceneType DEF CodeOf

-----------------------------------------------------------------------------
(* The counts.                                                             *)

\* One more copy, or no copy, is lent to a patron.
LEMMA OutOfStep ==
    ASSUME TypeOK, NEW p, NEW c \in Copies, NEW q \in Patrons \cup {Nobody},
           lent' = [lent EXCEPT ![c] = q], lent[c] # p
    PROVE  OutOf(p)' = IF q = p THEN OutOf(p) + 1 ELSE OutOf(p)
<1> DEFINE S == {d \in Copies : lent[d] = p}
           T == {d \in Copies : lent'[d] = p}
<1>1. lent \in [Copies -> Patrons \cup {Nobody}] /\ IsFiniteSet(Copies)
  BY DeskAssumption DEF TypeOK
<1>2. c \notin S /\ S \subseteq Copies /\ T = IF q = p THEN S \cup {c} ELSE S
  BY <1>1
<1>3. OutOf(p) = Cardinality(S) /\ OutOf(p)' = Cardinality(T)
  BY DEF OutOf
<1> HIDE DEF S, T
<1>4. IsFiniteSet(S)
  BY <1>1, <1>2, FS_Subset
<1>5. Cardinality(S \cup {c}) = Cardinality(S) + 1
  BY <1>2, <1>4, FS_AddElement
<1> QED  BY <1>2, <1>3, <1>5

UncountedOne(i) == att[i].st = "served" /\ att[i].answer = "ok" /\ att[i].action = "checkout"

\* An attempt is to be counted from its answer until that is heard.
LEMMA UncountedStep ==
    ASSUME NEW i \in Attempts, Goes(i)
    PROVE  /\ Cardinality(Uncounted) \in Nat /\ Cardinality(Uncounted)' \in Nat
           /\ (UncountedOne(i) <=> UncountedOne(i)') => Cardinality(Uncounted)' = Cardinality(Uncounted)
           /\ ~UncountedOne(i) /\ UncountedOne(i)' => Cardinality(Uncounted)' = Cardinality(Uncounted) + 1
           /\ UncountedOne(i) /\ ~UncountedOne(i)' => Cardinality(Uncounted) = Cardinality(Uncounted)' + 1
<1> DEFINE S == {j \in Attempts : att[j].st = "served" /\ att[j].answer = "ok"
                                /\ att[j].action = "checkout"}
           T == {j \in Attempts : att'[j].st = "served" /\ att'[j].answer = "ok"
                                /\ att'[j].action = "checkout"}
<1>1. S = Uncounted /\ T = Uncounted' /\ S \in SUBSET Attempts /\ T \in SUBSET Attempts
  BY DEF Uncounted
<1>2. \A j \in Attempts : j # i => (j \in S <=> j \in T)
  BY DEF Goes
<1>3. (UncountedOne(i) <=> i \in S) /\ (UncountedOne(i)' <=> i \in T)
  BY DEF UncountedOne
<1> HIDE DEF S, T
<1>4. /\ (i \in S <=> i \in T) => T = S
      /\ i \notin S /\ i \in T => T = S \cup {i}
      /\ i \in S /\ i \notin T => S = T \cup {i}
  BY <1>1, <1>2
<1>5. IsFiniteSet(S) /\ Cardinality(S) \in Nat /\ IsFiniteSet(T) /\ Cardinality(T) \in Nat
  BY <1>1, NumbersType
<1>6. i \notin S => Cardinality(S \cup {i}) = Cardinality(S) + 1
  BY <1>5, FS_AddElement
<1>7. i \notin T => Cardinality(T \cup {i}) = Cardinality(T) + 1
  BY <1>5, FS_AddElement
<1> QED  BY <1>1, <1>3, <1>4, <1>5, <1>6, <1>7

\* What an attempt's step does at the server and to the counts, for the patron of the
\* attempt: what is lent to the patron and what is counted go together.
LEMMA CountsAttempt ==
    ASSUME TypeOK, InOrder, NEW i \in Attempts, AttemptStep(i), Heard(att[i]),
           NEW p, p = att[i].patron
    PROVE  /\ \A c \in Copies : lent'[c] # lent[c] => c = att[i].copy /\ att[i].st # "typed"
                                   /\ lent[c] # p /\ lent'[c] \in {p, Nobody}
           /\ att'[i].st \in InFlight => Heard(att[i])'
           /\ stats # NoStats =>
                 stats' + Cardinality(Uncounted)' + OutOf(p)
                   = stats + Cardinality(Uncounted) + OutOf(p)'
           /\ stats = NoStats => stats' = NoStats
<1> DEFINE x == att[i]
           U == Cardinality(Uncounted)
           O == OutOf(p)
<1>1. Goes(i) /\ (Stays(i) \/ Drops(i) \/ Finish(i))
  BY StepGoes
<1>2. /\ x \in Attempt /\ att \in [Attempts -> Attempt] /\ stats \in 0..NoStats
      /\ lent \in [Copies -> Patrons \cup {Nobody}]
  BY DEF TypeOK
<1>3. /\ U \in Nat /\ U' \in Nat
      /\ (UncountedOne(i) <=> UncountedOne(i)') => U' = U
      /\ ~UncountedOne(i) /\ UncountedOne(i)' => U' = U + 1
      /\ UncountedOne(i) /\ ~UncountedOne(i)' => U = U' + 1
  BY <1>1, UncountedStep
<1>4. O \in Nat /\ O' \in Nat /\ stats \in Nat /\ stats' \in Nat
  <2>1. O \in Nat /\ stats \in Nat
    BY <1>2, OutOfType, NumbersType
  <2>2. stats' \in Nat
    BY <1>1, StatsStep, NumbersType
  <2>3. O' \in Nat
    <3>1. {c \in Copies : lent'[c] = p} \in SUBSET Copies
      OBVIOUS
    <3>2. Cardinality({c \in Copies : lent'[c] = p}) \in Nat
      BY <3>1, DeskAssumption, FS_Subset, FS_CardinalityType
    <3> QED  BY <3>2 DEF OutOf
  <2> QED  BY <2>1, <2>2, <2>3
<1>5. x.st \in InFlight /\ p \in Patrons /\ (x.st # "typed" => x.copy \in Copies)
  BY <1>1, <1>2 DEF Goes, InOrder, Attempt
<1>6. ASSUME lent' = lent, stats' = stats, ~UncountedOne(i), ~UncountedOne(i)'
      PROVE  /\ \A c \in Copies : lent'[c] = lent[c]
             /\ stats # NoStats => stats' + U' + O = stats + U + O'
             /\ stats = NoStats => stats' = NoStats
  <2>1. O' = O
    BY <1>6 DEF OutOf
  <2>2. U' = U
    BY <1>3, <1>6
  <2> HIDE DEF U, O
  <2> QED  BY <1>3, <1>4, <1>6, <2>1, <2>2
<1>7. att'[i].st \in {"sent", "rejected", "status", "alert", "override", "done"}
        => Heard(att[i])' /\ ~UncountedOne(i)'
  BY DEF Heard, UncountedOne
<1>8. x.st # "served" => ~UncountedOne(i)
  BY DEF UncountedOne
<1>9. CASE Complete(i)
  <2>1. lent' = lent /\ stats' = stats /\ x.st = "typed" /\ att'[i].st \in {"sent", "rejected"}
    BY <1>9, Resent DEF Complete, serverVars, patronVars
  <2> QED  BY <1>6, <1>7, <1>8, <2>1
<1>10. CASE Refused(i)
  <2>1. lent' = lent /\ stats' = stats /\ x.answer = "refused" /\ att'[i].st = "rejected"
    BY <1>10, Resent DEF Refused, serverVars, patronVars
  <2> QED  BY <1>6, <1>7, <2>1 DEF UncountedOne
<1>11. CASE Cancel(i)
  <2>1. lent' = lent /\ stats' = stats /\ att'[i].st = "rejected" /\ x.st \in Asking
    BY <1>11, Resent, Pop DEF Cancel, serverVars, patronVars, OnTop, TypeOK
  <2> QED  BY <1>6, <1>7, <1>8, <2>1 DEF Asking
<1>12. CASE ConfirmEvents(i)
  <2>1. lent' = lent /\ stats' = stats /\ x.st \in Asking
    BY <1>12 DEF ConfirmEvents, serverVars, patronVars, Asking
  <2>2. att'[i].st \in {"sent", "alert"}
    <3> DEFINE a == [att[i] EXCEPT !.override = TRUE, !.seen = @ \cup Shown(i)]
    <3>1. att' = [att EXCEPT ![i] = [a EXCEPT !.st = "alert"]] => att'[i].st = "alert"
      BY <1>2 DEF Attempt
    <3> QED  BY <1>12, <3>1, Resent DEF ConfirmEvents
  <2> QED  BY <1>6, <1>7, <1>8, <2>1, <2>2 DEF Asking
<1>13. CASE ConfirmOpen(i)
  <2>1. lent' = lent /\ stats' = stats /\ x.st = "exists"
    BY <1>13 DEF ConfirmOpen, serverVars, patronVars
  <2>2. \/ att'[i].st \in {"sent", "rejected"}
        \/ x.answer = "other" /\ att' = [att EXCEPT ![i].st = "returning"]
    BY <1>13, Resent DEF ConfirmOpen
  <2>3. ASSUME x.answer = "other", att' = [att EXCEPT ![i].st = "returning"]
        PROVE  Heard(att[i])' /\ ~UncountedOne(i)'
    <3>1. /\ att'[i].st = "returning" /\ att'[i].answer = "other"
          /\ att'[i].copy = x.copy /\ att'[i].patron = x.patron
      BY <1>2, <2>3 DEF Attempt
    <3> QED  BY <2>1, <2>3, <3>1 DEF Heard, UncountedOne
  <2> QED  BY <1>6, <1>7, <1>8, <2>1, <2>2, <2>3
<1>14. CASE AskOpen(i)
  <2>1. lent' = lent /\ stats' = stats /\ x.st = "served" /\ x.answer # "ok"
    BY <1>14 DEF AskOpen, serverVars, patronVars
  <2>2. att'[i].st = "sent" \/ att' = [att EXCEPT ![i].st = "exists"]
    BY <1>14, Resent DEF AskOpen
  <2>3. ASSUME att' = [att EXCEPT ![i].st = "exists"]
        PROVE  Heard(att[i])' /\ ~UncountedOne(i)'
    <3>1. /\ att'[i].st = "exists" /\ att'[i].answer = x.answer
          /\ att'[i].copy = x.copy /\ att'[i].patron = x.patron
      BY <1>2, <2>3 DEF Attempt
    <3> QED  BY <2>1, <3>1 DEF Heard, UncountedOne
  <2> QED  BY <1>6, <1>7, <2>1, <2>2, <2>3 DEF UncountedOne
<1>15. CASE Ask(i)
  <2>1. lent' = lent /\ stats' = stats /\ x.st = "served" /\ x.answer # "ok"
    BY <1>15 DEF Ask, serverVars, patronVars
  <2>2. att'[i].st \in {"sent", "status", "alert", "override"}
    <3> DEFINE s == CASE Unavailable \in att[i].evts -> "status"
                      [] att[i].evts = {Alert} -> "alert" [] OTHER -> "override"
    <3>1. att' = [att EXCEPT ![i].st = s] => att'[i].st = s
      <4> HIDE DEF s
      <4> QED  BY <1>2 DEF Attempt
    <3> QED  BY <1>15, <3>1, Resent DEF Ask
  <2> QED  BY <1>6, <1>7, <2>1, <2>2 DEF UncountedOne
<1>16. CASE Finish(i)
  <2>1. lent' = lent /\ x.st = "served" /\ x.answer = "ok"
    BY <1>16 DEF Finish, serverVars
  <2>2. att'[i].st = "done"
    BY <1>2, <1>16 DEF Finish, Attempt
  <2>3. O' = O
    BY <2>1 DEF OutOf
  <2>4. UncountedOne(i) <=> x.action = "checkout"
    BY <2>1 DEF UncountedOne
  <2>5. stats' = IF x.action = "checkout" /\ stats # NoStats THEN stats + 1 ELSE stats
    BY <1>16 DEF Finish
  <2>6. ~UncountedOne(i)' /\ Heard(att[i])'
    BY <1>7, <2>2
  <2>7. /\ stats # NoStats => stats' + U' + O = stats + U + O'
        /\ stats = NoStats => stats' = NoStats
    <3>1. x.action = "checkout" => U = U' + 1
      BY <1>3, <2>4, <2>6
    <3>4. x.action # "checkout" => U' = U
      BY <1>3, <2>4, <2>6
    <3> HIDE DEF U, O
    <3>2. CASE x.action = "checkout" /\ stats # NoStats
      BY <1>3, <1>4, <2>3, <2>5, <3>1, <3>2
    <3>3. CASE x.action # "checkout"
      BY <1>3, <1>4, <2>3, <2>5, <3>4, <3>3
    <3> QED  BY <2>5, <3>2, <3>3
  <2> QED  BY <2>1, <2>6, <2>7
<1>17. CASE Serve(i)
  <2>1. x.st = "sent" /\ stats' = stats /\ ~UncountedOne(i) /\ x.copy \in Copies
    BY <1>5, <1>17 DEF Serve, patronVars, UncountedOne
  <2>2. /\ att'[i].st = "served" /\ att'[i].answer = Answer(i) /\ att'[i].action = x.action
        /\ att'[i].copy = x.copy /\ att'[i].patron = x.patron
    <3> DEFINE E == IF Answer(i) = "events" THEN Events(x.patron, x.copy, x.action) ELSE {}
               V == IF Answer(i) = "ok" THEN Events(x.patron, x.copy, x.action) ELSE x.over
               w == Answer(i)
    <3>1. att'[i] = [x EXCEPT !.st = "served", !.answer = w, !.evts = E, !.over = V]
      BY <1>2, <1>17 DEF Serve
    <3> HIDE DEF E, V, w
    <3>2. /\ att'[i].st = "served" /\ att'[i].answer = w /\ att'[i].action = x.action
          /\ att'[i].copy = x.copy /\ att'[i].patron = x.patron
      BY <1>2, <3>1 DEF Attempt
    <3> QED  BY <3>2 DEF w
  <2>3. lent' = IF Answer(i) = "ok" THEN [lent EXCEPT ![x.copy] = p] ELSE lent
    BY <1>17 DEF Serve
  <2>4. CASE Answer(i) # "ok"
    <3>1. lent' = lent /\ ~UncountedOne(i)'
      BY <2>2, <2>3, <2>4 DEF UncountedOne
    <3>2. Answer(i) = "other" => lent[x.copy] # p
      BY DEF Answer
    <3>3. Heard(att[i])'
      BY <2>2, <2>4, <3>1, <3>2 DEF Heard
    <3> QED  BY <1>6, <2>1, <3>1, <3>3
  <2>5. CASE Answer(i) = "ok"
    <3>1. lent' = [lent EXCEPT ![x.copy] = p] /\ lent'[x.copy] = p
      BY <1>2, <2>1, <2>3, <2>5
    <3>2. Heard(att[i])'
      BY <2>2, <2>5, <3>1 DEF Heard
    <3>3. x.action \in {"checkout", "renew"}
      BY <1>2 DEF Attempt
    <3>4. CASE x.action = "checkout"
      <4>1. lent[x.copy] # p
        BY <2>5, <3>4 DEF Answer
      <4>2. O' = O + 1
        BY <1>5, <2>1, <3>1, <4>1, OutOfStep
      <4>3. U' = U + 1
        BY <1>3, <2>1, <2>2, <2>5, <3>4 DEF UncountedOne
      <4>4. stats' + U' + O = stats + U + O'
        <5> HIDE DEF U, O
        <5> QED  BY <1>3, <1>4, <2>1, <4>2, <4>3
      <4>5. \A c \in Copies : lent'[c] # lent[c] => c = x.copy /\ lent'[c] = p
        BY <1>2, <3>1
      <4> QED  BY <2>1, <3>2, <4>1, <4>4, <4>5
    <3>5. CASE x.action = "renew"
      <4>1. lent[x.copy] = p
        BY <2>5, <3>5 DEF Answer
      <4>2. lent' = lent /\ ~UncountedOne(i)'
        BY <1>2, <2>2, <3>1, <3>5, <4>1 DEF UncountedOne
      <4> QED  BY <1>6, <2>1, <3>2, <4>2
    <3> QED  BY <3>3, <3>4, <3>5
  <2> QED  BY <2>4, <2>5
<1>18. CASE Return(i)
  <2>1. /\ x.st = "returning" /\ stats' = stats /\ ~UncountedOne(i) /\ x.copy \in Copies
        /\ att'[i].st \in {"sent", "rejected"}
    BY <1>5, <1>18, Resent DEF Return, patronVars, UncountedOne
  <2>2. ~UncountedOne(i)' /\ Heard(att[i])'
    BY <1>7, <2>1
  <2>3. CASE lent' = lent
    BY <1>6, <2>1, <2>2, <2>3
  <2>4. CASE lent' = [lent EXCEPT ![x.copy] = Nobody]
    <3>1. lent[x.copy] # p
      BY <2>1 DEF Heard
    <3>2. O' = O
      <4>1. Nobody # p
        BY <1>5, SceneType
      <4> QED  BY <2>1, <2>4, <3>1, <4>1, OutOfStep
    <3>3. \A c \in Copies : lent'[c] # lent[c] => c = x.copy /\ lent'[c] = Nobody
      BY <1>2, <2>4
    <3>4. stats' + U' + O = stats + U + O'
      <4>1. U' = U
        BY <1>3, <2>1, <2>2
      <4> HIDE DEF U, O
      <4> QED  BY <1>3, <1>4, <2>1, <3>2, <4>1
    <3> QED  BY <2>1, <2>2, <3>1, <3>3, <3>4
  <2> QED  BY <1>18, <2>3, <2>4 DEF Return
<1> QED  BY <1>9, <1>10, <1>11, <1>12, <1>13, <1>14, <1>15, <1>16, <1>17, <1>18
         DEF AttemptStep, Hear, Decide

CountsOK ==
    /\ \A l, m \in loads : l = m
    /\ loads # {} => Running = {}
    /\ \A l \in loads :
          /\ IF l.step = "user" THEN stats = NoStats ELSE current = l.of
          /\ l.step = "served" => l.out = OutOf(l.of)
    /\ \A i \in Running :
          /\ att[i].patron = current /\ att[i].visit = page.visit
          /\ Heard(att[i])
    /\ stats # NoStats /\ current # Nobody => stats + Cardinality(Uncounted) = OutOf(current)

LEMMA CountsAttemptStep ==
    ASSUME TypeOK, InOrder, RowsTrue /\ OneByOne, PendingUnderWay /\ OneAttempt /\ PendingTrue,
           Steady, CountsOK, NEW i \in Attempts, AttemptStep(i)
    PROVE  CountsOK'
<1>1. Goes(i)
  BY StepGoes
<1>2. /\ i \in Running
      /\ Running' = IF att'[i].st \in InFlight THEN Running ELSE Running \ {i}
  BY <1>1, RunningStep
<1>3. /\ att[i].patron = current /\ att[i].visit = page.visit /\ Heard(att[i])
      /\ loads = {} /\ loads' = {} /\ page' = page /\ current' = current
      /\ att'[i].patron = current /\ att'[i].visit = page.visit
  BY <1>1, <1>2 DEF CountsOK, Goes
<1>4. PICK p : p = current
  OBVIOUS
<1>5. /\ \A c \in Copies : lent'[c] # lent[c] => c = att[i].copy /\ att[i].st # "typed"
      /\ att'[i].st \in InFlight => Heard(att[i])'
      /\ stats # NoStats =>
            stats' + Cardinality(Uncounted)' + OutOf(p)
              = stats + Cardinality(Uncounted) + OutOf(p)'
      /\ stats = NoStats => stats' = NoStats
  BY <1>3, <1>4, CountsAttempt
<1>6. ASSUME NEW j \in Running'
      PROVE  att'[j].patron = current' /\ att'[j].visit = page'.visit /\ Heard(att[j])'
  <2>1. j \in Running /\ j \in Attempts
    BY <1>2 DEF Running
  <2>2. CASE j = i
    <3>1. att'[i].st \in InFlight
      BY <2>2 DEF Running
    <3> QED  BY <1>3, <1>5, <2>2, <3>1
  <2>3. CASE j # i
    <3>1. att'[j] = att[j]
      BY <1>1, <2>1, <2>3 DEF Goes
    <3>2. att[j].patron = current /\ att[j].visit = page.visit /\ Heard(att[j])
      BY <2>1 DEF CountsOK
    <3>3. CASE att[j].st = "typed"
      BY <1>3, <3>1, <3>2, <3>3 DEF Heard
    <3>4. CASE att[j].st # "typed"
      <4>1. att[j].copy \in Copies
        BY <2>1, <3>4 DEF Running, InOrder
      <4>2. lent'[att[j].copy] = lent[att[j].copy]
        <5> SUFFICES ASSUME lent'[att[j].copy] # lent[att[j].copy] PROVE FALSE
          OBVIOUS
        <5>1. att[j].copy = att[i].copy /\ att[i].st # "typed"
          BY <1>5, <4>1
        <5>2. InFull \/ "scan" \notin Hurries
          BY DEF Steady
        <5>3. att[i].visit = att[j].visit
          BY <1>3, <3>2
        <5> QED  BY <1>2, <2>1, <2>3, <3>4, <5>1, <5>2, <5>3, Apart
      <4> QED  BY <1>3, <3>1, <3>2, <4>2 DEF Heard
    <3> QED  BY <3>3, <3>4
  <2> QED  BY <2>2, <2>3
<1>7. ASSUME stats' # NoStats, current # Nobody
      PROVE  stats' + Cardinality(Uncounted)' = OutOf(current)'
  <2> DEFINE U == Cardinality(Uncounted)
             O == OutOf(p)
             W == U'
             Q == O'
  <2>1. OutOf(current)' = Q /\ OutOf(current) = O
    BY <1>3, <1>4 DEF OutOf
  <2>2. stats # NoStats /\ stats + U = O /\ stats' + W + O = stats + U + Q
    BY <1>4, <1>5, <1>7, <2>1 DEF CountsOK
  <2>3. U \in Nat /\ W \in Nat /\ O \in Nat
    BY <1>1, UncountedStep, OutOfType, NumbersType
  <2>4. Q \in Nat
    <3>1. {c \in Copies : lent'[c] = p} \in SUBSET Copies
      OBVIOUS
    <3>2. Cardinality({c \in Copies : lent'[c] = p}) \in Nat
      BY <3>1, DeskAssumption, FS_Subset, FS_CardinalityType
    <3> QED  BY <3>2 DEF OutOf
  <2>5. stats \in Nat /\ stats' \in Nat
    BY SMTT(30), StepGoes, StatsStep, NumbersType DEF TypeOK
  <2> HIDE DEF U, O, W, Q
  <2>6. stats' + W = Q
    <3>1. PICK u \in Nat, w \in Nat, o \in Nat, q \in Nat, a \in Nat, b \in Nat :
             u = U /\ w = W /\ o = O /\ q = Q /\ a = stats /\ b = stats'
      BY <2>3, <2>4, <2>5
    <3>2. a + u = o /\ b + w + o = a + u + q
      BY <2>2, <3>1
    <3>3. b + w = q
      BY <3>2
    <3> QED  BY <3>1, <3>3
  <2> QED  BY <2>1, <2>6 DEF W, U
<1> QED  BY <1>3, <1>6, <1>7 DEF CountsOK

LEMMA CountsOther ==
    ASSUME TypeOK, Steady, CountsOK,
           OpenSome \/ Search \/ ScanSome \/ \E l \in loads : LoadStep(l), InOrder
    PROVE  CountsOK'
<1>1. "leave" \notin Hurries /\ "load" \notin Hurries
  BY DEF Steady
<1>2. \A p : OutOf(p) \in Nat /\ (lent' = lent => OutOf(p)' = OutOf(p))
  <2>1. \A p : OutOf(p) \in Nat
    BY OutOfType, NumbersType
  <2>2. ASSUME NEW p, lent' = lent PROVE OutOf(p)' = OutOf(p)
    BY <2>2 DEF OutOf
  <2> QED  BY <2>1, <2>2
<1>3. Running = {} => Uncounted = {}
  BY DEF Running, Uncounted, InFlight, Asking
<1>4. Cardinality({}) = 0
  BY FS_EmptySet
<1>5. CASE OpenSome \/ Search
  <2>1. Turned
    BY <1>5, PageTurned
  <2>2. Running = {} /\ loads = {} /\ Running' = {} /\ Uncounted' = Uncounted /\ lent' = lent
    BY <1>1, <2>1 DEF Turned, MayLeave, Running, Uncounted
  <2>3. ASSUME NEW p \in Patrons, Open(p) PROVE CountsOK'
    <3>1. p # Nobody /\ current' = current
      BY <2>3, SceneType DEF Open, patronVars
    <3>2. CASE loads' = {} /\ stats' = stats
      BY <1>2, <2>2, <3>1, <3>2 DEF CountsOK
    <3>3. CASE current = p /\ stats = NoStats /\ stats' = stats /\ loads' = {Load(p, "stats")}
      <4>1. \A l \in loads' : l.of = p /\ l.step = "stats"
        BY <3>3 DEF Load
      <4> QED  BY <2>2, <3>1, <3>3, <4>1 DEF CountsOK
    <3>4. CASE stats' = NoStats /\ loads' = {Load(p, "user")}
      <4>1. \A l \in loads' : l.of = p /\ l.step = "user"
        BY <3>4 DEF Load
      <4> QED  BY <2>2, <3>1, <3>4, <4>1 DEF CountsOK
    <3> QED  BY <2>2, <2>3, <3>2, <3>3, <3>4 DEF Open, patronVars
  <2>4. CASE Search
    BY <2>2, <2>4 DEF Search, CountsOK
  <2> QED  BY <1>5, <2>3, <2>4 DEF OpenSome
<1>6. CASE ScanSome
  <2>1. PICK i \in Waiting, b \in scene.codes : Scanned(i, b)
    BY <1>6, ScanScanned
  <2>2. /\ i \in Attempts /\ att[i].st = "unused" /\ att'[i].st = "typed"
        /\ att'[i].patron = current /\ att'[i].visit = page.visit
        /\ \A j \in Attempts : j # i => att'[j] = att[j]
    BY <2>1, ScanIs
  <2>3. loads = {} /\ UNCHANGED <<page, current, stats, loads, lent>>
    BY <1>1, <2>1 DEF Scanned, patronVars, serverVars
  <2>4. Running' = Running \cup {i} /\ Uncounted' = Uncounted
    BY <2>2 DEF Running, InFlight, Asking, Uncounted
  <2>5. ASSUME NEW j \in Running'
        PROVE  att'[j].patron = current' /\ att'[j].visit = page'.visit /\ Heard(att[j])'
    <3>1. CASE j = i
      BY <2>2, <2>3, <3>1 DEF Heard
    <3>2. CASE j # i
      <4>1. j \in Running /\ att'[j] = att[j]
        BY <2>2, <2>4, <3>2 DEF Running
      <4> QED  BY <2>3, <4>1 DEF CountsOK, Heard
    <3> QED  BY <3>1, <3>2
  <2>6. OutOf(current)' = OutOf(current)
    BY <2>3 DEF OutOf
  <2> QED  BY <2>3, <2>4, <2>5, <2>6 DEF CountsOK
<1>7. ASSUME NEW l \in loads, LoadStep(l) PROVE CountsOK'
  <2>1. UNCHANGED <<page, att, lent>> /\ Running = {} /\ Running' = {} /\ Uncounted' = {}
    <3>1. UNCHANGED <<page, att, lent>> /\ Running = {}
      BY <1>7, LoadLoading DEF Loading, CountsOK
    <3> QED  BY <1>3, <3>1 DEF Running, Uncounted
  <2>2. loads = {l}
    <3>1. \A m \in loads : m = l
      BY DEF CountsOK
    <3> QED  BY <3>1
  <2>3. /\ IF l.step = "user" THEN stats = NoStats ELSE current = l.of
        /\ l.step = "served" => l.out = OutOf(l.of)
    BY DEF CountsOK
  <2>4. l \in LoadType
    BY DEF TypeOK, LoadType
  <2>5. CASE UserArrives(l)
    <3> DEFINE m == [l EXCEPT !.step = "stats"]
    <3>1. loads' = {m} /\ l.step = "user" /\ current' = l.of /\ UNCHANGED stats
      BY <2>2, <2>5 DEF UserArrives
    <3>2. m.of = l.of /\ m.step = "stats"
      BY <2>4 DEF LoadType
    <3> HIDE DEF m
    <3> QED  BY <2>1, <2>3, <3>1, <3>2 DEF CountsOK
  <2>6. CASE UserRefused(l)
    <3>1. loads' = {} /\ l.step = "user" /\ UNCHANGED <<current, stats>>
      BY <2>2, <2>6 DEF UserRefused
    <3> QED  BY <2>1, <2>3, <3>1 DEF CountsOK
  <2>7. CASE StatsServed(l)
    <3> DEFINE o == OutOf(l.of)
               m == [l EXCEPT !.step = "served", !.out = o]
    <3>1. loads' = {m} /\ l.step = "stats" /\ UNCHANGED <<current, stats>>
      BY <2>2, <2>7 DEF StatsServed
    <3>2. m.of = l.of /\ m.step = "served" /\ m.out = o
      <4> HIDE DEF o
      <4> QED  BY <2>4 DEF LoadType
    <3>3. /\ \A r \in loads' : r.of = l.of /\ r.step = "served" /\ r.out = OutOf(r.of)'
          /\ OutOf(current)' = OutOf(current)
      <4>1. OutOf(l.of)' = OutOf(l.of) /\ OutOf(current)' = OutOf(current)
        BY <2>1, <3>1 DEF OutOf
      <4>2. ASSUME NEW r \in loads' PROVE r.of = l.of /\ r.step = "served" /\ r.out = OutOf(r.of)'
        <5>1. r = m /\ r.of = l.of
          BY <3>1, <3>2
        <5>2. OutOf(r.of)' = OutOf(l.of)
          BY <2>1, <5>1 DEF OutOf
        <5> QED  BY <3>2, <5>1, <5>2
      <4> QED  BY <4>1, <4>2
    <3>4. Uncounted' = Uncounted
      BY <1>3, <2>1
    <3> HIDE DEF m, o
    <3>5. \A q, r \in loads' : q = r
      BY <3>1
    <3> QED  BY <2>1, <2>3, <3>1, <3>3, <3>4, <3>5 DEF CountsOK
  <2>8. CASE StatsArrive(l)
    <3> DEFINE m == [l EXCEPT !.step = "extras"]
    <3>1. loads' \subseteq {m} /\ l.step = "served" /\ current' = current /\ stats' = l.out
      BY <2>2, <2>8 DEF StatsArrive
    <3>2. OutOf(current)' = OutOf(l.of)
      BY <2>1, <2>3, <3>1 DEF OutOf
    <3>3. stats' + 0 = stats'
      BY <1>2, <2>3, <3>1
    <3>4. m.of = l.of /\ m.step = "extras"
      BY <2>4 DEF LoadType
    <3> HIDE DEF m
    <3>5. /\ \A q, r \in loads' : q = r
          /\ \A r \in loads' : r.of = l.of /\ r.step = "extras"
      BY <3>1, <3>4
    <3> QED  BY <1>4, <2>1, <2>3, <3>1, <3>2, <3>3, <3>5 DEF CountsOK
  <2>9. CASE ExtrasArrive(l)
    <3>1. loads' = {} /\ UNCHANGED <<current, stats>>
      BY <2>2, <2>9 DEF ExtrasArrive
    <3>2. OutOf(current)' = OutOf(current) /\ Uncounted' = Uncounted
      BY <1>3, <2>1, <3>1 DEF OutOf
    <3> QED  BY <2>1, <3>1, <3>2 DEF CountsOK
  <2> QED  BY <1>7, <2>5, <2>6, <2>7, <2>8, <2>9 DEF LoadStep
<1> QED  BY <1>5, <1>6, <1>7

LEMMA CountsTrueStep ==
    ASSUME TypeOK, InOrder, Next, RowsTrue /\ OneByOne,
           PendingUnderWay /\ OneAttempt /\ PendingTrue, CountsTrue
    PROVE  CountsTrue'
<1>1. Steady' = Steady
  BY DEF Next, Steady, Hurries, InFull
<1>2. Steady => CountsOK
  BY DEF CountsTrue, CountsOK
<1>3. (Steady => CountsOK') => CountsTrue'
  BY <1>1 DEF CountsTrue, CountsOK
<1>4. ASSUME Steady PROVE CountsOK'
  <2>1. CountsOK
    BY <1>2, <1>4
  <2> QED  BY <1>4, <2>1, CountsAttemptStep, CountsOther DEF Next
<1> QED  BY <1>3, <1>4

LentOK == \A k \in 1..Len(rows) : rows[k].filled => lent[att[rows[k].of].copy] = page.at

LEMMA LentOKStep ==
    ASSUME TypeOK, InOrder, Next, Hurries = {}, LoadsOK, RowsOK, RowsOK', TypeOK', CountsOK, LentOK
    PROVE  LentOK'
<1>1. loads = {} => /\ current = page.at /\ primary = Nobody
                    /\ (current # Nobody => stats # NoStats)
  BY DEF LoadsOK
<1>2. ASSUME NEW i \in Attempts, AttemptStep(i) PROVE LentOK'
  <2>1. Goes(i) /\ (Stays(i) \/ Drops(i) \/ Finish(i))
    BY <1>2, StepGoes
  <2>2. i \in Running /\ att[i].patron = page.at /\ Heard(att[i]) /\ page' = page
    <3>1. i \in Running
      BY <2>1, RunningStep
    <3>2. loads = {} /\ att[i].patron = current /\ Heard(att[i])
      BY <3>1 DEF CountsOK
    <3> QED  BY <1>1, <2>1, <3>1, <3>2 DEF Goes
  <2>3. PICK p : p = page.at
    OBVIOUS
  <2>4. \A c \in Copies : lent'[c] # lent[c] => lent[c] # p
    BY <1>2, <2>2, <2>3, CountsAttempt
  <2>5. ASSUME NEW k \in 1..Len(rows'), rows'[k].filled
        PROVE  lent'[att'[rows'[k].of].copy] = page'.at
    <3>1. PICK m \in 1..Len(rows) : rows'[k].of = rows[m].of
      BY <2>1, RowsStep, OldRow
    <3>2. PICK j \in Attempts : j = rows[m].of
      BY RowOf
    <3>3. att'[j].st = "done" /\ rows'[k].of = j
      BY <2>5, <3>1, <3>2 DEF RowsOK
    <3>4. CASE j = i
      <4>1. Finish(i)
        <5>1. Drops(i) => att'[i].st = "rejected"
          BY Resent DEF Drops
        <5> QED  BY <2>1, <3>3, <3>4, <5>1 DEF Stays, InFlight, Asking
      <4>2. att[i].st = "served" /\ att[i].answer = "ok" /\ lent' = lent
        BY <4>1 DEF Finish, serverVars
      <4>3. lent[att[i].copy] = page.at /\ att'[i].copy = att[i].copy
        BY <2>1, <2>2, <4>2 DEF Heard, Goes
      <4> QED  BY <2>2, <3>3, <3>4, <4>2, <4>3
    <3>5. CASE j # i
      <4>1. att'[j] = att[j] /\ att[j].st = "done"
        BY <2>1, <3>3, <3>5 DEF Goes
      <4>2. rows[m].filled
        BY <3>2, <4>1 DEF RowsOK
      <4>3. lent[att[j].copy] = p /\ att[j].copy \in Copies
        BY <2>3, <3>2, <4>1, <4>2 DEF LentOK, InOrder
      <4> QED  BY <2>2, <2>3, <2>4, <3>3, <4>1, <4>3
    <3> QED  BY <3>4, <3>5
  <2> QED  BY <2>5 DEF LentOK
<1>3. CASE OpenSome \/ Search
  <2>1. Turned /\ loads = {} /\ UNCHANGED <<att, lent>>
    BY <1>3, PageTurned DEF Turned, MayLeave
  <2>2. ASSUME rows' = <<>> PROVE LentOK'
    BY <2>2 DEF LentOK
  <2>3. ASSUME NEW p \in Patrons, Open(p) PROVE LentOK'
    <3>1. p # Nobody
      BY SceneType
    <3>2. rows' = <<>> \/ (current = p /\ rows' = rows)
      BY <1>1, <2>1, <2>3, <3>1 DEF Open, NewList, patronVars
    <3>3. CASE current = p /\ rows' = rows
      <4>1. page'.at = page.at
        BY <1>1, <2>1, <2>3, <3>3 DEF Open, NewController
      <4> QED  BY <2>1, <3>3, <4>1 DEF LentOK
    <3> QED  BY <2>2, <3>2, <3>3
  <2>4. Search => rows' = <<>>
    BY DEF Search, NewList
  <2> QED  BY <1>3, <2>2, <2>3, <2>4 DEF OpenSome
<1>4. CASE ScanSome
  <2>1. PICK i \in Waiting, b \in scene.codes : Scanned(i, b)
    BY <1>4, ScanScanned
  <2>2. /\ i \in Attempts
        /\ \A j \in Attempts : j # i => att'[j] = att[j]
        /\ Len(rows') = Len(rows) + 1
        /\ \A k \in 1..Len(rows) : rows'[k + 1] = rows[k]
    BY <2>1, ScanIs
  <2>3. ~rows'[1].filled /\ UNCHANGED <<page, lent>> /\ Len(rows) \in Nat
    BY <2>1, ScanRow, LenProperties DEF Scanned, serverVars, TypeOK
  <2>4. ASSUME NEW m \in 1..(Len(rows) + 1), rows'[m].filled
        PROVE  lent'[att'[rows'[m].of].copy] = page'.at
    <3>1. m # 1
      BY <2>3, <2>4
    <3>2. m - 1 \in 1..Len(rows) /\ (m - 1) + 1 = m
      BY <2>3, <3>1
    <3>3. rows'[m] = rows[m - 1]
      <4>1. rows'[(m - 1) + 1] = rows[m - 1]
        BY <2>2, <3>2
      <4> QED  BY <3>2, <4>1
    <3>4. rows[m - 1].of \in Attempts /\ rows[m - 1].of # i
      BY <2>1, <3>2, NewAttempt, RowOf DEF Scanned
    <3>5. lent[att[rows[m - 1].of].copy] = page.at
      BY <2>4, <3>2, <3>3 DEF LentOK
    <3> QED  BY <2>2, <2>3, <3>3, <3>4, <3>5
  <2> QED  BY <2>2, <2>4 DEF LentOK
<1>5. ASSUME NEW l \in loads, LoadStep(l) PROVE LentOK'
  <2>1. UNCHANGED <<page, rows, att, lent>>
    BY <1>5, LoadLoading DEF Loading
  <2> QED  BY <2>1 DEF LentOK
<1> QED  BY <1>2, <1>3, <1>4, <1>5 DEF Next

LEMMA LentTrueStep ==
    ASSUME TypeOK, InOrder, Next, TypeOK', RowsFilled /\ RightPatron /\ LoadsTrue,
           (RowsFilled /\ RightPatron /\ LoadsTrue)', CountsTrue, LentTrue
    PROVE  LentTrue'
<1>1. Hurries' = Hurries /\ Loaded' = Loaded
  BY DEF Next, Hurries, Loaded, OptsOut
<1>2. DOMAIN rows = 1..Len(rows) /\ DOMAIN rows' = 1..Len(rows') /\ rows \in Seq(Row)
  BY LenProperties DEF TypeOK
<1>3. Hurries = {} /\ Loaded => LentOK
  BY <1>2 DEF LentTrue, LentOK
<1>4. (Hurries = {} /\ Loaded => LentOK') => LentTrue'
  BY <1>1, <1>2 DEF LentTrue, LentOK
<1>5. ASSUME Hurries = {}, Loaded PROVE LentOK'
  <2>1. LoadsOK /\ RowsOK
    BY <1>2, <1>5, LoadedParts
  <2>2. CountsOK
    BY <1>5 DEF CountsTrue, CountsOK, Steady
  <2>3. RowsOK'
    BY <1>1, <1>2, <1>5 DEF RowsFilled, RightPatron, RowsOK
  <2> QED  BY <1>3, <1>5, <2>1, <2>2, <2>3, LentOKStep
<1> QED  BY <1>4, <1>5

-----------------------------------------------------------------------------
(* What the staff were shown.                                              *)

\* The part of ShownTrue about an attempt.
ShownOne(a) ==
    /\ a.st = "typed" => ~a.override
    /\ Fines \in a.evts => a.patron \in Owing
    /\ a.st \in {"status", "override", "alert"} \/ (a.st = "served" /\ a.answer = "events") =>
          Unasked(a) \subseteq a.evts
    /\ a.st = "status" => Unavailable \in a.evts
    /\ a.st = "override" => Unavailable \notin a.evts
    /\ Cardinality(Owing) <= 1 =>
          /\ \A e \in a.over : Passed(a, e)
          /\ a.st = "alert" => \A e \in Unasked(a) \ {Alert} : Passed(a, e)
          /\ a.override /\ a.st \in InFlight \ {"alert"} => \A e \in Unasked(a) : Passed(a, e)
AutoShown ==
    /\ auto \subseteq AutoAfterFirst
    /\ auto # {} => \E p \in Owing : <<p, Fines>> \in confirmed

LEMMA ShownParts == ShownTrue <=> AutoShown /\ \A i \in Attempts : ShownOne(att[i])
BY DEF ShownTrue, AutoShown, ShownOne

\* The events the server gives, the patrons with fines and what was confirmed before.
Same == scene' = scene /\ missing' \subseteq missing /\ confirmed \subseteq confirmed'

LEMMA UnaskedShrinks ==
    ASSUME Same, NEW a, NEW b, b.patron = a.patron, b.copy = a.copy,
           b.action \in {a.action, "renew"}
    PROVE  Unasked(b)' \subseteq Unasked(a) /\ Owing' = Owing
BY DEF Same, Unasked, Events, Owing, Alerted

LEMMA PassedStays ==
    ASSUME Same, NEW a, NEW b, b.patron = a.patron, a.seen \subseteq b.seen, NEW e, Passed(a, e)
    PROVE  Passed(b, e)'
BY DEF Same, Passed

\* What is so of an attempt stays so while others go on.
LEMMA ShownKept ==
    ASSUME Same, NEW a, ShownOne(a)
    PROVE  ShownOne(a)'
<1>1. Unasked(a)' \subseteq Unasked(a) /\ Owing' = Owing
  BY UnaskedShrinks
<1>2. \A e : Passed(a, e) => Passed(a, e)'
  BY PassedStays
<1> QED  BY <1>1, <1>2 DEF ShownOne

\* And when the attempt goes on without a dialog about events.
LEMMA ShownGoes ==
    ASSUME Same, NEW a, ShownOne(a), NEW b, b.patron = a.patron, b.copy = a.copy,
           b.action \in {a.action, "renew"}, b.evts = a.evts, b.over = a.over, b.seen = a.seen,
           b.override = a.override, a.st \in InFlight \ {"alert"},
           b.st \in {"sent", "done", "rejected", "exists", "returning"}
    PROVE  ShownOne(b)'
<1>1. Unasked(b)' \subseteq Unasked(a) /\ Owing' = Owing
  BY UnaskedShrinks
<1>2. \A e : Passed(a, e) => Passed(b, e)'
  BY PassedStays
<1> QED  BY <1>1, <1>2 DEF ShownOne

\* An attempt that is given up.
LEMMA ShownRejected ==
    ASSUME Same, NEW a, ShownOne(a), NEW b, b.patron = a.patron, b.evts = a.evts,
           b.over = a.over, b.seen = a.seen, b.st = "rejected"
    PROVE  ShownOne(b)'
<1>1. Owing' = Owing
  BY DEF Same, Owing
<1>2. \A e : Passed(a, e) => Passed(b, e)'
  BY PassedStays
<1> QED  BY <1>1, <1>2 DEF ShownOne, InFlight, Asking

\* One patron with fines is the one.
LEMMA OneOwing ==
    ASSUME TypeOK, Cardinality(Owing) <= 1, NEW p \in Owing, NEW q \in Owing
    PROVE  p = q
<1>1. IsFiniteSet(Owing) /\ Cardinality(Owing) \in Nat
  BY SceneType, DeskAssumption, FS_Subset, FS_CardinalityType
<1>2. Cardinality(Owing) = 0 \/ Cardinality(Owing) = 1
  BY <1>1
<1>3. Cardinality(Owing) # 0
  BY <1>1, FS_EmptySet
<1>4. \E x : Owing = {x}
  BY <1>1, <1>2, <1>3, FS_Singleton
<1> QED  BY <1>4

LEMMA ShownConfirm ==
    ASSUME TypeOK, Same, NEW i \in Attempts, AutoShown, NEW x, x = att[i], ShownOne(x),
           ConfirmEvents(i), att' \in [Attempts -> Attempt]
    PROVE  AutoShown' /\ ShownOne(att[i])'
<1>1. att \in [Attempts -> Attempt] /\ x \in Attempt
  BY DEF TypeOK
<1> DEFINE a == [att[i] EXCEPT !.override = TRUE, !.seen = @ \cup Shown(i)]
           S == Shown(i)
<1>2. PICK y \in Attempt : y = att'[i]
  OBVIOUS
<1>3. /\ y.patron = x.patron /\ y.copy = x.copy /\ y.action = x.action /\ y.evts = x.evts
      /\ y.over = x.over /\ y.override /\ y.seen = x.seen \cup S
      /\ y.st = IF x.st # "alert" /\ Alert \in x.evts THEN "alert" ELSE "sent"
  <2> DEFINE T == x.seen \cup S
             s == IF x.st # "alert" /\ Alert \in x.evts THEN "alert" ELSE "sent"
  <2>1. a = [x EXCEPT !.override = TRUE, !.seen = T]
    BY <1>1 DEF Attempt
  <2>2. att' = [att EXCEPT ![i] = [a EXCEPT !.st = s]]
    BY DEF ConfirmEvents, Resend
  <2> HIDE DEF T, s, a
  <2>3. y = [a EXCEPT !.st = s]
    BY <1>1, <1>2, <2>2
  <2>4. /\ y.patron = x.patron /\ y.copy = x.copy /\ y.action = x.action /\ y.evts = x.evts
        /\ y.over = x.over /\ y.override /\ y.seen = T /\ y.st = s
    BY <1>1, <2>1, <2>3 DEF Attempt
  <2> QED  BY <2>4 DEF T, s
<1>4. x.st \in {"status", "override", "alert"}
  BY DEF ConfirmEvents
<1>5. S = IF x.st = "status" THEN {Unavailable} ELSE IF x.st = "alert" THEN {Alert}
          ELSE x.evts \ {Alert}
  BY DEF Shown
<1>6. Unasked(y)' \subseteq Unasked(x) /\ Owing' = Owing
  <2>1. Unasked(y)' \subseteq Unasked(x)
    BY <1>3, UnaskedShrinks
  <2> QED  BY <2>1 DEF Same, Owing
<1>7. \A e : Passed(x, e) => Passed(y, e)'
  <2>1. x.seen \subseteq y.seen
    BY <1>3
  <2> QED  BY <1>3, <2>1, PassedStays
<1>8. Unasked(x) \subseteq x.evts /\ Unasked(x) \subseteq Overridable
  BY <1>4 DEF ShownOne, Unasked, Events
<1>9. ASSUME NEW e, e \in y.seen \/ (e = Fines /\ Unavailable \in y.seen) PROVE Passed(y, e)'
  BY <1>9 DEF Passed
<1>10. ASSUME x.st # "alert", NEW e \in Unasked(x) \ {Alert} PROVE Passed(y, e)'
  <2>1. e \in x.evts /\ e \in {Unavailable, Fines}
    BY <1>8 DEF Overridable
  <2>2. CASE x.st = "status"
    <3>1. Unavailable \in y.seen
      BY <1>3, <1>5, <2>2
    <3> QED  BY <1>9, <2>1, <3>1
  <2>3. CASE x.st = "override"
    <3>1. e \in y.seen
      BY <1>3, <1>5, <2>1, <2>3
    <3> QED  BY <1>9, <3>1
  <2> QED  BY <1>4, <1>10, <2>2, <2>3
<1>11. ASSUME Cardinality(Owing) <= 1, y.st = "sent", NEW e \in Unasked(x) PROVE Passed(y, e)'
  <2>1. CASE x.st = "alert"
    <3>1. CASE e = Alert
      <4>1. e \in y.seen
        BY <1>3, <1>5, <2>1, <3>1
      <4> QED  BY <1>9, <4>1
    <3>2. CASE e # Alert
      <4>1. Passed(x, e)
        BY <1>11, <2>1, <3>2 DEF ShownOne
      <4> QED  BY <1>7, <4>1
    <3> QED  BY <3>1, <3>2
  <2>2. CASE x.st # "alert"
    <3>1. Alert \notin x.evts
      BY <1>3, <1>11, <2>2
    <3> QED  BY <1>8, <1>10, <2>2, <3>1
  <2> QED  BY <2>1, <2>2
<1>12. ShownOne(y)'
  <2>1. y.st \in {"alert", "sent"} /\ (y.st = "alert" => x.st # "alert")
    BY <1>3
  <2>2. Fines \in y.evts => y.patron \in Owing'
    BY <1>3, <1>6 DEF ShownOne
  <2>3. Unasked(y)' \subseteq y.evts
    BY <1>3, <1>6, <1>8
  <2>4. ASSUME Cardinality(Owing)' <= 1
        PROVE  /\ \A e \in y.over : Passed(y, e)'
               /\ y.st = "alert" => \A e \in Unasked(y)' \ {Alert} : Passed(y, e)'
               /\ y.st \in InFlight \ {"alert"} => \A e \in Unasked(y)' : Passed(y, e)'
    <3>1. Cardinality(Owing) <= 1
      BY <1>6, <2>4
    <3>2. \A e \in y.over : Passed(y, e)'
      BY <1>3, <1>7, <3>1 DEF ShownOne
    <3> QED  BY <1>6, <1>10, <1>11, <2>1, <3>1, <3>2
  <2> QED  BY <2>1, <2>2, <2>3, <2>4 DEF ShownOne
<1>13. AutoShown'
  <2>1. CASE UNCHANGED <<auto, confirmed>>
    BY <1>6, <2>1 DEF AutoShown
  <2>2. CASE /\ x.st = "override"
             /\ auto' = auto \cup (S \cap AutoAfterFirst)
             /\ confirmed' = confirmed \cup ({x.patron} \X (S \cap AutoAfterFirst))
    <3>1. auto' \subseteq AutoAfterFirst
      BY <2>2 DEF AutoShown
    <3>2. CASE Fines \in S
      <4>1. x.patron \in Owing
        BY <1>5, <2>2, <3>2 DEF ShownOne
      <4>2. <<x.patron, Fines>> \in confirmed'
        BY <2>2, <3>2 DEF AutoAfterFirst
      <4> QED  BY <1>6, <3>1, <4>1, <4>2 DEF AutoShown
    <3>3. CASE Fines \notin S
      <4>1. auto' = auto /\ confirmed \subseteq confirmed'
        BY <2>2, <3>3 DEF AutoAfterFirst
      <4> QED  BY <1>6, <3>1, <4>1 DEF AutoShown
    <3> QED  BY <3>2, <3>3
  <2> DEFINE first == Shown(i) \cap AutoAfterFirst
  <2>3. a.patron = x.patron
    BY <1>1 DEF Attempt
  <2>4. \/ UNCHANGED <<auto, confirmed>>
        \/ /\ x.st = "override" /\ auto' = auto \cup first
           /\ confirmed' = confirmed \cup ({a.patron} \X first)
    BY DEF ConfirmEvents
  <2> QED  BY <2>1, <2>2, <2>3, <2>4
<1> QED  BY <1>2, <1>12, <1>13

LEMMA ShownAttempt ==
    ASSUME TypeOK, InOrder, NEW i \in Attempts, AttemptStep(i), scene' = scene,
           AutoShown, ShownOne(att[i])
    PROVE  Same /\ AutoShown' /\ ShownOne(att[i])'
<1> DEFINE z == att[i]
<1>1. Goes(i)
  BY StepGoes
<1>2. att \in [Attempts -> Attempt] /\ att' \in [Attempts -> Attempt] /\ z.st \in InFlight
  BY <1>1 DEF TypeOK, Goes
<1>3. PICK x \in Attempt, y \in Attempt : x = att[i] /\ y = att'[i]
  BY <1>2
<1>4. x.st \in InFlight /\ ShownOne(x)
  BY <1>2, <1>3
<1>5. Same
  BY DEF Same, AttemptStep, Complete, Serve, Return, Hear, Finish, Ask, AskOpen, Refused, Decide,
         ConfirmEvents, ConfirmOpen, Cancel, serverVars
<1>6. ConfirmEvents(i) \/ UNCHANGED <<auto, confirmed>>
  BY DEF AttemptStep, Complete, Serve, Return, Hear, Finish, Ask, AskOpen, Refused, Decide,
         ConfirmOpen, Cancel
<1>7. CASE ConfirmEvents(i)
  BY <1>2, <1>3, <1>4, <1>5, <1>7, ShownConfirm
<1>8. CASE ~ConfirmEvents(i)
  <2>1. AutoShown' /\ Owing' = Owing
    <3>1. Owing' = Owing
      BY DEF Owing
    <3> QED  BY <1>6, <1>8, <3>1 DEF AutoShown
  <2>2. SUFFICES ShownOne(y)'
    BY <1>3, <1>5, <2>1
  <2>3. ASSUME y = [x EXCEPT !.st = "rejected"] PROVE ShownOne(y)'
    <3>1. y.patron = x.patron /\ y.evts = x.evts /\ y.over = x.over /\ y.seen = x.seen
          /\ y.st = "rejected"
      BY <2>3 DEF Attempt
    <3> QED  BY <1>4, <1>5, <3>1, ShownRejected
  <2>4. ASSUME x.st = "typed", NEW c, y = [x EXCEPT !.st = "sent", !.copy = c] PROVE ShownOne(y)'
    <3>1. /\ y.patron = x.patron /\ y.evts = x.evts /\ y.over = x.over /\ y.seen = x.seen
          /\ y.st = "sent" /\ y.override = x.override
      BY <2>4 DEF Attempt
    <3>2. ~y.override
      BY <1>4, <2>4, <3>1 DEF ShownOne
    <3>3. \A e : Passed(x, e) => Passed(y, e)'
      BY <1>5, <3>1, PassedStays
    <3> QED  BY <1>4, <2>1, <3>1, <3>2, <3>3 DEF ShownOne
  <2>5. ASSUME x.st \in InFlight \ {"alert"},
               NEW s \in {"sent", "done", "rejected", "exists", "returning"},
               NEW b \in {x.action, "renew"}, y = [x EXCEPT !.st = s, !.action = b]
        PROVE  ShownOne(y)'
    <3>1. /\ y.patron = x.patron /\ y.copy = x.copy /\ y.action = b
          /\ y.evts = x.evts /\ y.over = x.over /\ y.seen = x.seen
          /\ y.override = x.override /\ y.st = s
      BY <2>5 DEF Attempt
    <3> QED  BY <1>4, <1>5, <2>5, <3>1, ShownGoes
  <2>6. \A s : [x EXCEPT !.st = s] = [x EXCEPT !.st = s, !.action = x.action]
    BY DEF Attempt
  <2>7. CASE Serve(i)
    <3> DEFINE E == IF Answer(i) = "events" THEN Unasked(x) ELSE {}
               V == IF Answer(i) = "ok" THEN Unasked(x) ELSE x.over
               w == Answer(i)
    <3>1. y = [x EXCEPT !.st = "served", !.answer = w, !.evts = E, !.over = V] /\ x.st = "sent"
      BY <1>2, <1>3, <2>7 DEF Serve, Unasked
    <3> HIDE DEF E, V, w
    <3>2. /\ y.patron = x.patron /\ y.copy = x.copy /\ y.action = x.action
          /\ y.evts = E /\ y.over = V /\ y.seen = x.seen
          /\ y.override = x.override /\ y.st = "served" /\ y.answer = w
      BY <3>1 DEF Attempt
    <3>3. Unasked(y)' \subseteq Unasked(x)
      BY <1>5, <3>2, UnaskedShrinks
    <3>4. \A e : Passed(x, e) => Passed(y, e)'
      BY <1>5, <3>2, PassedStays
    <3>5. Fines \in y.evts => y.patron \in Owing
      BY <3>2 DEF E, Unasked, Events, Fines, Unavailable, Alert
    <3>6. y.answer = "events" => Unasked(y)' \subseteq y.evts
      BY <3>2, <3>3 DEF E, w
    <3>7. ASSUME Cardinality(Owing) <= 1, y.override PROVE \A e \in Unasked(x) : Passed(x, e)
      <4>1. x.st \in InFlight \ {"alert"}
        BY <1>4, <3>1
      <4> QED  BY <1>4, <3>2, <3>7, <4>1 DEF ShownOne
    <3>8. ASSUME Cardinality(Owing) <= 1 PROVE \A e \in y.over : Passed(y, e)'
      <4>1. CASE w # "ok"
        BY <1>4, <3>2, <3>4, <3>8, <4>1 DEF V, w, ShownOne
      <4>2. CASE w = "ok"
        <5>1. Unasked(x) = {} \/ x.override
          BY <1>3, <4>2 DEF w, Answer, Unasked
        <5> QED  BY <3>2, <3>4, <3>7, <3>8, <4>2, <5>1 DEF V, w
      <4> QED  BY <4>1, <4>2
    <3>9. y.st \notin {"typed", "status", "override", "alert"}
      BY <3>2
    <3> QED  BY <2>1, <3>3, <3>4, <3>5, <3>6, <3>7, <3>8, <3>9 DEF ShownOne
  <2>8. CASE Ask(i)
    <3>1. x.st = "served" /\ x.answer = "events" /\ x.st \in InFlight \ {"alert"}
      BY <1>3, <1>4, <2>8 DEF Ask
    <3>2. Unasked(x) \subseteq x.evts /\ Unasked(x) \subseteq Overridable
      BY <1>4, <3>1 DEF ShownOne, Unasked, Events
    <3>3. ASSUME x.evts \subseteq auto, y = [x EXCEPT !.st = "sent", !.override = TRUE]
          PROVE  ShownOne(y)'
      <4>1. /\ y.patron = x.patron /\ y.copy = x.copy /\ y.action = x.action
            /\ y.evts = x.evts /\ y.over = x.over /\ y.seen = x.seen /\ y.st = "sent"
        BY <3>3 DEF Attempt
      <4>2. Unasked(y)' \subseteq Unasked(x)
        BY <1>5, <4>1, UnaskedShrinks
      <4>3. \A e : Passed(x, e) => Passed(y, e)'
        BY <1>5, <4>1, PassedStays
      <4>4. ASSUME Cardinality(Owing) <= 1, NEW e \in Unasked(x) PROVE Passed(x, e)
        <5>1. e = Fines /\ x.patron \in Owing /\ auto # {}
          BY <1>4, <3>2, <3>3 DEF AutoShown, AutoAfterFirst, ShownOne
        <5>2. PICK p \in Owing : <<p, Fines>> \in confirmed
          BY <5>1 DEF AutoShown
        <5>3. p = x.patron
          BY <4>4, <5>1, OneOwing
        <5> QED  BY <5>1, <5>2, <5>3 DEF Passed
      <4> QED  BY <1>4, <2>1, <4>1, <4>2, <4>3, <4>4 DEF ShownOne
    <3>4. ASSUME NEW s, s = (CASE Unavailable \in x.evts -> "status" [] x.evts = {Alert} -> "alert"
                               [] OTHER -> "override"),
                 y = [x EXCEPT !.st = s]
          PROVE  ShownOne(y)'
      <4>1. /\ y.patron = x.patron /\ y.copy = x.copy /\ y.action = x.action
            /\ y.evts = x.evts /\ y.over = x.over /\ y.seen = x.seen
            /\ y.override = x.override /\ y.st = s
        BY <3>4 DEF Attempt
      <4>2. Unasked(y)' \subseteq Unasked(x)
        BY <1>5, <4>1, UnaskedShrinks
      <4>3. \A e : Passed(x, e) => Passed(y, e)'
        BY <1>5, <4>1, PassedStays
      <4>4. /\ s \in {"status", "alert", "override"} /\ (s = "status" => Unavailable \in x.evts)
            /\ (s = "override" => Unavailable \notin x.evts)
            /\ (s = "alert" => x.evts = {Alert})
        BY <3>4
      <4>5. s = "alert" => Unasked(y)' \ {Alert} = {}
        BY <3>2, <4>2, <4>4
      <4>6. ASSUME Cardinality(Owing) <= 1, y.override PROVE \A e \in Unasked(y)' : Passed(y, e)'
        BY <1>4, <3>1, <4>1, <4>2, <4>3, <4>6 DEF ShownOne
      <4> QED  BY <1>4, <2>1, <3>2, <4>1, <4>2, <4>3, <4>4, <4>5, <4>6 DEF ShownOne
    <3>5. \/ x.evts \subseteq auto /\ y = [x EXCEPT !.st = "sent", !.override = TRUE]
          \/ y = [x EXCEPT !.st = CASE Unavailable \in x.evts -> "status"
                                    [] x.evts = {Alert} -> "alert" [] OTHER -> "override"]
      <4>1. CASE x.evts \subseteq auto /\ Resend(i, [att[i] EXCEPT !.override = TRUE])
        <5>1. y = [[x EXCEPT !.override = TRUE] EXCEPT !.st = "sent"]
          BY <1>2, <1>3, <4>1 DEF Resend
        <5>2. y = [x EXCEPT !.st = "sent", !.override = TRUE]
          BY <5>1 DEF Attempt
        <5> QED  BY <4>1, <5>2
      <4>2. CASE att' = [att EXCEPT ![i].st = CASE Unavailable \in att[i].evts -> "status"
                                    [] att[i].evts = {Alert} -> "alert" [] OTHER -> "override"]
        BY <1>2, <1>3, <4>2
      <4> QED  BY <1>3, <2>8, <4>1, <4>2 DEF Ask
    <3> QED  BY <3>3, <3>4, <3>5
  <2>9. CASE Complete(i)
    <3>1. x.st = "typed"
      BY SMTT(30), <1>3, <2>9 DEF Complete
    <3>2. y = [x EXCEPT !.st = "rejected"] \/ \E c : y = [x EXCEPT !.st = "sent", !.copy = c]
      BY <1>3, <3>1, Sends DEF Serve, Finish, Ask, AskOpen, ConfirmEvents, ConfirmOpen, Return
    <3> QED  BY <2>3, <2>4, <3>1, <3>2
  <2>10. ASSUME x.st \in InFlight \ {"alert"}, NEW s \in {"sent", "done", "exists", "returning"},
                y = [x EXCEPT !.st = s]
         PROVE  ShownOne(y)'
    BY ZenonT(30), <2>5, <2>6, <2>10
  <2>11. ASSUME x.st \in InFlight \ {"alert"}, y = [x EXCEPT !.st = "sent", !.action = "renew"]
         PROVE  ShownOne(y)'
    BY <2>5, <2>11
  <2>12. CASE Finish(i) \/ AskOpen(i) \/ ConfirmOpen(i) \/ Return(i)
    <3>1. x.st \in InFlight \ {"alert"}
      BY <1>3, <1>4, <2>12 DEF Finish, AskOpen, ConfirmOpen, Return
    <3>2. ~Complete(i) /\ ~Serve(i)
      BY <2>12 DEF Finish, AskOpen, ConfirmOpen, Return, Complete, Serve
    <3> QED  BY <1>3, <1>8, <2>3, <2>8, <2>10, <2>11, <3>1, <3>2, Sends
  <2>13. CASE Refused(i) \/ Cancel(i)
    <3>1. Reject(i)
      BY <2>13 DEF Refused, Cancel
    <3>2. y = [x EXCEPT !.st = "rejected"]
      BY <1>2, <1>3, <3>1 DEF Reject
    <3> QED  BY <2>3, <3>2
  <2> QED  BY <1>8, <2>7, <2>8, <2>9, <2>12, <2>13 DEF AttemptStep, Hear, Decide
<1> QED  BY <1>7, <1>8, <1>5

LEMMA ShownStep ==
    ASSUME TypeOK, InOrder, Next, ShownTrue
    PROVE  ShownTrue'
<1>1. scene' = scene /\ AutoShown /\ \A i \in Attempts : ShownOne(att[i])
  BY ShownParts DEF Next
<1>2. ASSUME AutoShown', \A i \in Attempts : ShownOne(att[i])'
      PROVE  ShownTrue'
  BY <1>2 DEF ShownTrue, AutoShown, ShownOne
<1>3. ASSUME Same, NEW i \in Attempts, att'[i] = att[i] PROVE ShownOne(att[i])'
  <2>1. PICK x : x = att[i]
    OBVIOUS
  <2>2. ShownOne(x)'
    BY <1>1, <1>3, <2>1, ShownKept
  <2> QED  BY <1>3, <2>1, <2>2
<1>4. ASSUME NEW i \in Attempts, AttemptStep(i) PROVE ShownTrue'
  <2>1. Same /\ AutoShown' /\ ShownOne(att[i])'
    BY <1>1, <1>4, ShownAttempt
  <2>2. \A j \in Attempts : j # i => att'[j] = att[j]
    BY <1>4, StepGoes DEF Goes
  <2> QED  BY <1>2, <1>3, <2>1, <2>2
<1>5. ASSUME UNCHANGED <<auto, missing, confirmed>>
      PROVE  Same /\ AutoShown'
  <2>1. Owing' = Owing
    BY <1>1 DEF Owing
  <2> QED  BY <1>1, <1>5, <2>1 DEF Same, AutoShown
<1>6. CASE OpenSome \/ Search
  <2>1. UNCHANGED <<auto, missing, confirmed, att>>
    BY <1>6, PageTurned DEF Turned
  <2> QED  BY <1>2, <1>3, <1>5, <2>1
<1>7. ASSUME NEW l \in loads, LoadStep(l) PROVE ShownTrue'
  <2>1. UNCHANGED <<auto, missing, confirmed, att>>
    BY <1>7, LoadLoading DEF Loading
  <2> QED  BY <1>2, <1>3, <1>5, <2>1
<1>8. CASE ScanSome
  <2>1. PICK i \in Waiting, b \in scene.codes : Scanned(i, b)
    BY <1>8, ScanScanned
  <2>2. /\ i \in Attempts /\ att'[i].st = "typed" /\ att'[i].override = FALSE
        /\ att'[i].evts = {} /\ att'[i].over = {}
        /\ \A j \in Attempts : j # i => att'[j] = att[j]
    BY <2>1, ScanIs
  <2>3. UNCHANGED <<auto, missing, confirmed>>
    BY <2>1 DEF Scanned, serverVars
  <2>4. ShownOne(att[i])'
    BY <2>2 DEF ShownOne
  <2> QED  BY <1>2, <1>3, <1>5, <2>2, <2>3, <2>4
<1> QED  BY <1>4, <1>6, <1>7, <1>8 DEF Next

--------------------------------------------------------------------------
\* At first nothing is open, scanned or loaded.
LEMMA InitHolds == Init => DeskIInv
<1> SUFFICES ASSUME Init PROVE DeskIInv
  OBVIOUS
<1>1. /\ scene \in Scenes /\ Scenes \subseteq Scene /\ lent = scene.lent /\ missing = scene.missing
      /\ lent \in [Copies -> Patrons \cup {Nobody}] /\ missing \subseteq Copies
  <2>1. scene \in Scenes /\ scene \in Scene /\ lent = scene.lent /\ missing = scene.missing
    BY DeskAssumption DEF Init
  <2> QED  BY <2>1, DeskAssumption DEF Scene
<1>2. /\ att = [i \in Attempts |-> Unused] /\ \A i \in Attempts : att[i] = Unused
      /\ Unused.st = "unused" /\ Unused.list = 0 /\ Unused.visit = 0 /\ Unused.override = FALSE
      /\ Unused.evts = {} /\ Unused.over = {}
  BY DEF Init, Unused
<1>3. /\ Unused \in Attempt /\ att \in [Attempts -> Attempt]
  <2>1. Unused \in Attempt
    BY NumbersType DEF Unused, Attempt, InFlight, Asking, Overridable
  <2> QED  BY <1>2, <2>1
<1>4. /\ rows = <<>> /\ DOMAIN rows = {} /\ dialogs = <<>> /\ DOMAIN dialogs = {}
      /\ loads = {} /\ pending = {} /\ auto = {} /\ confirmed = {} /\ list = 0
      /\ page.visit = 0 /\ page.at = Nobody /\ page = [at |-> Nobody, visit |-> 0]
      /\ current = Nobody /\ primary = Nobody /\ stats = NoStats
  BY DEF Init
<1>5. /\ Running = {} /\ \A i \in Attempts : att[i].st \notin Asking \cup InFlight \cup {"done", "typed"}
      /\ Uncounted = {} /\ \A i \in Attempts : i \in Waiting
  BY <1>2 DEF Running, InFlight, Asking, Uncounted, Waiting
<1>6. TypeOK
  <2>1. IsInjective(dialogs) /\ ToSet(dialogs) = {}
    BY <1>4 DEF IsInjective, ToSet
  <2>2. {i \in Attempts : att[i].st \in Asking} = {}
    BY <1>5
  <2>3. rows \in Seq(Row) /\ dialogs \in Seq(Attempts)
    BY <1>4, EmptySeq
  <2>4. page \in [at : Patrons \cup {Nobody}, visit : 0..MaxOpens] /\ list \in 0..MaxOpens
        /\ stats \in 0..NoStats
    BY <1>4, NumbersType
  <2> QED  BY <1>1, <1>3, <1>4, <2>1, <2>2, <2>3, <2>4 DEF TypeOK
<1>7. InOrder
  <2>1. \A i \in Attempts : /\ att[i].list = 0 /\ att[i].visit = 0
                            /\ att[i].st \notin InFlight \cup {"done", "typed"}
    BY <1>2, <1>5
  <2> QED  BY <1>4, <1>5, <2>1 DEF InOrder
<1>8. RowsTrue /\ OneByOne
  <2>1. {rows[k].of : k \in DOMAIN rows} = {}
    BY <1>4
  <2>2. {i \in Attempts : att[i].list = list /\ att[i].st \in InFlight \cup {"done"}} = {}
    BY <1>5
  <2> QED  BY <1>4, <1>5, <2>1, <2>2 DEF RowsTrue, OneByOne
<1>9. RowsFilled /\ RightPatron /\ LoadsTrue /\ LentTrue
  BY <1>4 DEF RowsFilled, RightPatron, LoadsTrue, LentTrue
<1>10. PendingUnderWay /\ OneAttempt /\ PendingTrue /\ CountsTrue
  BY <1>4, <1>5 DEF PendingUnderWay, OneAttempt, PendingTrue, CountsTrue
<1>11. ShownTrue
  <2>1. \A i \in Attempts : ShownOne(att[i])
    BY <1>2 DEF ShownOne, InFlight, Asking
  <2> QED  BY <1>4, <2>1, ShownParts DEF ShownTrue, AutoShown, ShownOne
<1> QED  BY <1>6, <1>7, <1>8, <1>9, <1>10, <1>11 DEF DeskIInv

\* Nothing of it can be lost while nothing happens.
LEMMA Stutter == DeskIInv /\ UNCHANGED vars => DeskIInv'
<1> SUFFICES ASSUME DeskIInv, UNCHANGED vars PROVE DeskIInv'
  OBVIOUS
<1>1. UNCHANGED <<scene, page, current, stats, loads, primary, rows, list, pending, auto, att,
                  dialogs, lent, missing, confirmed>>
  BY DEF vars, patronVars, serverVars
<1>2. TypeOK' /\ InOrder'
  BY <1>1 DEF DeskIInv, TypeOK, InOrder, Waiting
<1>3. RowsTrue' /\ OneByOne'
  BY <1>1 DEF DeskIInv, RowsTrue, OneByOne, Running, Hurries
<1>4. RowsFilled' /\ RightPatron' /\ LoadsTrue' /\ LentTrue'
  BY <1>1 DEF DeskIInv, RowsFilled, RightPatron, LoadsTrue, LentTrue, Loaded, Hurries, OptsOut
<1>5. PendingUnderWay' /\ OneAttempt' /\ PendingTrue'
  BY <1>1 DEF DeskIInv, PendingUnderWay, OneAttempt, PendingTrue, InFull, Running, CodeOf
<1>6. CountsTrue'
  BY <1>1 DEF DeskIInv, CountsTrue, Steady, Hurries, InFull, Running, Uncounted, Heard, OutOf
<1>7. ShownTrue'
  BY ZenonT(30), <1>1 DEF DeskIInv, ShownTrue, Owing, Unasked, Events, Alerted, Passed
<1> QED  BY <1>2, <1>3, <1>4, <1>5, <1>6, <1>7 DEF DeskIInv

\* Every step keeps all of it: first the types and the order of the attempts, on
\* which the rest leans, then each part with the parts it needs.
LEMMA StepKeeps == DeskIInv /\ Next => DeskIInv'
<1> SUFFICES ASSUME DeskIInv, Next PROVE DeskIInv'
  OBVIOUS
<1>1. /\ TypeOK /\ InOrder /\ RowsTrue /\ OneByOne /\ RowsFilled /\ RightPatron /\ LoadsTrue
      /\ CountsTrue /\ LentTrue /\ PendingUnderWay /\ OneAttempt /\ PendingTrue /\ ShownTrue
  BY DEF DeskIInv
<1>2. TypeOK'
  BY <1>1, TypeStep
<1>3. InOrder'
  BY <1>1, <1>2, OrderStep
<1>4. RowsTrue' /\ OneByOne'
  BY <1>1, <1>2, <1>3, RowsTrueStep
<1>5. RowsFilled' /\ RightPatron' /\ LoadsTrue'
  BY <1>1, <1>2, LoadedStep
<1>6. PendingUnderWay' /\ OneAttempt' /\ PendingTrue'
  BY <1>1, <1>2, PendingTrueStep
<1>7. CountsTrue'
  BY <1>1, CountsTrueStep
<1>8. LentTrue'
  BY <1>1, <1>2, <1>5, LentTrueStep
<1>9. ShownTrue'
  BY <1>1, ShownStep
<1> QED  BY <1>2, <1>3, <1>4, <1>5, <1>6, <1>7, <1>8, <1>9 DEF DeskIInv

\* What the runs check follows from it.
LEMMA Follows == DeskIInv => DeskInv /\ PatronInv /\ BarcodeInv /\ ShownFirst
<1> SUFFICES ASSUME DeskIInv PROVE DeskInv /\ PatronInv /\ BarcodeInv /\ ShownFirst
  OBVIOUS
<1>1. DeskInv
  BY DEF DeskIInv, DeskInv, LentTrue, RowsLent
<1>2. CountTrue
  <2> SUFFICES ASSUME Steady, Running = {}, page.at # Nobody, current # Nobody, stats # NoStats
               PROVE  stats = OutOf(current)
    BY DEF CountTrue, Resting
  <2>1. Uncounted = {}
    BY DEF Uncounted, Running, InFlight
  <2>2. Cardinality(Uncounted) = 0
    BY <2>1, FS_EmptySet
  <2>3. stats + Cardinality(Uncounted) = OutOf(current)
    BY DEF DeskIInv, CountsTrue
  <2>4. stats \in Nat
    BY NumbersType DEF DeskIInv, TypeOK
  <2> QED  BY <2>2, <2>3, <2>4
<1>3. LoadRuns
  <2> SUFFICES ASSUME Loaded, primary # Nobody PROVE \E l \in loads : l.of = primary
    BY DEF LoadRuns
  <2>1. loads # {}
    BY DEF DeskIInv, LoadsTrue
  <2> QED  BY <2>1 DEF DeskIInv, LoadsTrue
<1>4. PatronInv /\ BarcodeInv
  BY <1>2, <1>3 DEF DeskIInv, PatronInv, BarcodeInv
<1>5. ShownFirst
  BY DEF DeskIInv, ShownTrue, ShownFirst
<1> QED  BY <1>1, <1>4, <1>5
--------------------------------------------------------------------------
\* Whatever the numbers of patrons, copies, scans and visits, and whether or not
\* staff wait, the page's list, its counts, its pending barcodes and what the
\* attempts have seen and heard stay together as DeskIInv says.
THEOREM DeskInductive == Spec => []DeskIInv
<1>1. DeskIInv /\ [Next]_vars => DeskIInv'
  BY StepKeeps, Stutter
<1> QED  BY <1>1, InitHolds, PTL DEF Spec

\* The list on the page (patronSvc.checkouts) has the attempts made for it that were
\* not rejected, each once when scans are waited for; filled rows are those done, and
\* have their copies lent to the patron.
THEOREM DeskAgrees == Spec => []DeskInv
<1>1. DeskIInv => DeskInv
  BY Follows
<1> QED  BY <1>1, DeskInductive, PTL

\* Rows, counts and the promise of the load are those of the patron whose page is
\* open, though all pages share patronSvc.
THEOREM RightPatronShown == Spec => []PatronInv
<1>1. DeskIInv => PatronInv
  BY Follows
<1> QED  BY <1>1, DeskInductive, PTL

\* pending_barcodes keeps two attempts on one copy apart, and every barcode on it
\* comes off with an attempt that is in flight.
THEOREM BarcodesComeOff == Spec => []BarcodeInv
<1>1. DeskIInv => BarcodeInv
  BY Follows
<1> QED  BY <1>1, DeskInductive, PTL

\* No event is overridden that staff were not shown, for this checkout or for the
\* patron before, however the dialogs of several scans lie on each other.
THEOREM OverridesShown == Spec => []ShownFirst
<1>1. DeskIInv => ShownFirst
  BY Follows
<1> QED  BY <1>1, DeskInductive, PTL
=============================================================================
