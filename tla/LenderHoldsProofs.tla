-------------------------- MODULE LenderHoldsProofs --------------------------
(***************************************************************************)
(* Lenders hear of loans in the right order: however requests and their    *)
(* calls overlap, at rest no lender has a copy on loan that is home; and   *)
(* while requests wait for each other's calls, lenders have the holds that *)
(* FulfILLment's waiting holds want of them, and no others (LenderHolds).  *)
(***************************************************************************)
EXTENDS LenderHolds, FiniteSetTheorems, SequenceTheorems, TLAPS

-----------------------------------------------------------------------------
(* Why LenderInv holds: as long as no call is lost, a lender that has not  *)
(* heard of a copy's return will hear of it by a check-in still to be made, *)
(* and what it will hear of is a loan only while the copy is away.         *)

Serving == [kind : Kinds \cup {"none"}, hold : Holds \cup {NoHold},
            old : Copies \cup {NoCopy}, todo : Seq(Todo)]

\* A call of kind k about the copy c is still to be made.
ToCall(k, c) == \E w \in Workers : \E i \in DOMAIN work[w].todo :
    work[w].todo[i].kind = k /\ work[w].todo[i].copy = c

\* Who has found a hold is about to target it.
AtTarget == \A w \in Workers : work[w].hold # NoHold =>
    work[w].todo # <<>> /\ Head(work[w].todo).kind = "target"

LoansTold == Lost = {} /\ ~scene.stale => \A c \in Copies :
    /\ lender[c].lent => c \in Connected /\ (c \in away \/ ToCall("checkin", c))
    /\ ToCall("checkout", c) => c \in away

LenderIInv == TypeOK /\ work \in [Workers -> Serving] /\ AtTarget /\ LoansTold

-----------------------------------------------------------------------------
(* Calls in a list of them.                                                *)

Has(s, k, c) == \E i \in DOMAIN s : s[i].kind = k /\ s[i].copy = c

LEMMA HasNone == \A k, c : ~Has(<<>>, k, c)
BY DEF Has

\* The calls of a list are its first and those of the rest.
LEMMA HasTail ==
    ASSUME NEW s \in Seq(Todo), s # <<>>, NEW k, NEW c
    PROVE  /\ Head(s) \in Todo /\ Tail(s) \in Seq(Todo)
           /\ Has(s, k, c) <=> \/ Head(s).kind = k /\ Head(s).copy = c
                               \/ Has(Tail(s), k, c)
<1> DEFINE t == Tail(s)
<1>1. /\ Len(s) \in Nat \ {0} /\ DOMAIN s = 1..Len(s) /\ Head(s) = s[1]
      /\ t \in Seq(Todo) /\ DOMAIN t = 1..(Len(s) - 1) /\ Head(s) \in Todo
      /\ \A i \in 1..(Len(s) - 1) : t[i] = s[i + 1]
  BY HeadTailProperties, LenProperties, EmptySeq
<1> HIDE DEF t
<1>2. ASSUME Has(s, k, c)
      PROVE  (Head(s).kind = k /\ Head(s).copy = c) \/ Has(t, k, c)
  <2>1. PICK i \in 1..Len(s) : s[i].kind = k /\ s[i].copy = c
    BY <1>1, <1>2 DEF Has
  <2>2. CASE i = 1
    BY <1>1, <2>1, <2>2
  <2>3. CASE i # 1
    <3>1. i - 1 \in DOMAIN t /\ t[i - 1] = s[i]
      BY <1>1, <2>3
    <3> QED  BY <2>1, <3>1 DEF Has
  <2> QED  BY <2>2, <2>3
<1>3. ASSUME Has(t, k, c) PROVE Has(s, k, c)
  <2>1. PICK i \in 1..(Len(s) - 1) : t[i].kind = k /\ t[i].copy = c
    BY <1>1, <1>3 DEF Has
  <2>2. i + 1 \in DOMAIN s /\ s[i + 1] = t[i]
    BY <1>1
  <2> QED  BY <2>1, <2>2 DEF Has
<1>4. ASSUME Head(s).kind = k, Head(s).copy = c PROVE Has(s, k, c)
  <2>1. 1 \in DOMAIN s
    BY <1>1
  <2> QED  BY <1>1, <1>4, <2>1 DEF Has
<1> QED  BY <1>1, <1>2, <1>3, <1>4 DEF t

\* Those of two lists are those of the one and of the other.
LEMMA HasConcat ==
    ASSUME NEW s \in Seq(Todo), NEW t \in Seq(Todo), NEW k, NEW c
    PROVE  /\ s \o t \in Seq(Todo)
           /\ Has(s \o t, k, c) <=> Has(s, k, c) \/ Has(t, k, c)
<1> DEFINE u == s \o t
<1>1. /\ Len(s) \in Nat /\ Len(t) \in Nat /\ u \in Seq(Todo) /\ Len(u) = Len(s) + Len(t)
      /\ DOMAIN s = 1..Len(s) /\ DOMAIN t = 1..Len(t) /\ DOMAIN u = 1..Len(u)
      /\ \A i \in 1..Len(u) : u[i] = IF i <= Len(s) THEN s[i] ELSE t[i - Len(s)]
  BY ConcatProperties, LenProperties
<1> HIDE DEF u
<1>2. ASSUME Has(u, k, c) PROVE Has(s, k, c) \/ Has(t, k, c)
  <2>1. PICK i \in 1..Len(u) : u[i].kind = k /\ u[i].copy = c
    BY <1>1, <1>2 DEF Has
  <2>2. CASE i <= Len(s)
    BY <1>1, <2>1, <2>2 DEF Has
  <2>3. CASE ~(i <= Len(s))
    <3>1. i - Len(s) \in DOMAIN t /\ u[i] = t[i - Len(s)]
      BY <1>1, <2>3
    <3> QED  BY <2>1, <3>1 DEF Has
  <2> QED  BY <2>2, <2>3
<1>3. ASSUME Has(s, k, c) PROVE Has(u, k, c)
  <2>1. PICK i \in 1..Len(s) : s[i].kind = k /\ s[i].copy = c
    BY <1>1, <1>3 DEF Has
  <2>2. i \in DOMAIN u /\ u[i] = s[i]
    BY <1>1
  <2> QED  BY <2>1, <2>2 DEF Has
<1>4. ASSUME Has(t, k, c) PROVE Has(u, k, c)
  <2>1. PICK i \in 1..Len(t) : t[i].kind = k /\ t[i].copy = c
    BY <1>1, <1>4 DEF Has
  <2>2. i + Len(s) \in DOMAIN u /\ u[i + Len(s)] = t[i]
    BY <1>1
  <2> QED  BY <2>1, <2>2 DEF Has
<1> QED  BY <1>1, <1>2, <1>3, <1>4 DEF u

\* Lists of one, and of none.
LEMMA HasOne ==
    ASSUME NEW x \in Todo
    PROVE  /\ <<x>> \in Seq(Todo) /\ <<x>> # <<>> /\ Head(<<x>>) = x
           /\ \A k, c : Has(<<x>>, k, c) <=> x.kind = k /\ x.copy = c
<1> DEFINE s == <<x>>
<1>1. s \in Seq(Todo) /\ DOMAIN s = {1} /\ s[1] = x /\ s # <<>> /\ Head(s) = x
  OBVIOUS
<1> HIDE DEF s
<1>2. \A k, c : Has(s, k, c) <=> x.kind = k /\ x.copy = c
  BY <1>1 DEF Has
<1> QED  BY <1>1, <1>2 DEF s

LEMMA CallTypes ==
    /\ \A k \in CallKinds, c \in Copies :
          Call(k, c) \in Todo /\ Call(k, c).kind = k /\ Call(k, c).copy = c
    /\ \A h \in Holds : Retarget(h) \in Todo /\ Retarget(h).kind = "target"
    /\ CallKinds = {"place", "delete", "checkout", "checkin"}
BY DEF Call, Retarget, Todo, CallKinds

\* The calls of some worker.
LEMMA ToCallHas ==
    \A k, c : ToCall(k, c) <=> \E w \in Workers : Has(work[w].todo, k, c)
BY DEF ToCall, Has

LEMMA ToCallHasNext ==
    \A k, c : ToCall(k, c)' <=> \E w \in Workers : Has(work'[w].todo, k, c)
BY DEF ToCall, Has

-----------------------------------------------------------------------------
(* What the steps of a worker have in common.                              *)

\* A worker goes on with r.
LEMMA WorkKeeps ==
    ASSUME LenderIInv, UNCHANGED scene, NEW w \in Workers, NEW r \in Serving,
           work' = [work EXCEPT ![w] = r],
           r.hold # NoHold => r.todo # <<>> /\ Head(r.todo).kind = "target",
           hold' \in [Holds -> Row], away' \subseteq Copies, forgotten' \subseteq Copies,
           lender' \in [Copies -> Lender], LoansTold'
    PROVE  LenderIInv'
<1>1. work' \in [Workers -> Serving]
  BY DEF LenderIInv
<1>2. TypeOK'
  BY <1>1 DEF LenderIInv, TypeOK, Serving
<1>3. AtTarget'
  BY DEF LenderIInv, AtTarget
<1> QED  BY <1>1, <1>2, <1>3 DEF LenderIInv

\* The check-ins to be made are still to be made, and there are no new loans.
LEMMA CallsKept ==
    ASSUME LenderIInv, UNCHANGED <<scene, away, lender>>, NEW w \in Workers, NEW r \in Serving,
           work' = [work EXCEPT ![w] = r],
           \A c : Has(work[w].todo, "checkin", c) => Has(r.todo, "checkin", c),
           \A c : Has(r.todo, "checkout", c) => Has(work[w].todo, "checkout", c)
    PROVE  LoansTold'
<1>1. work \in [Workers -> Serving] /\ LoansTold
  BY DEF LenderIInv
<1>2. \A c : ToCall("checkin", c) => ToCall("checkin", c)'
  BY <1>1, ToCallHas, ToCallHasNext
<1>3. \A c : ToCall("checkout", c)' => ToCall("checkout", c)
  BY <1>1, ToCallHas, ToCallHasNext
<1> QED  BY <1>1, <1>2, <1>3 DEF LoansTold, Lost, Connected

\* A worker begins the calls of a request.
LEMMA ThenServes ==
    ASSUME LenderIInv, NEW w \in Workers, NEW k \in Kinds, NEW todo \in Seq(Todo),
           Then(w, k, todo)
    PROVE  \E r \in Serving : /\ r.hold = NoHold /\ r.todo = todo /\ (todo # <<>> => r.kind = k)
                              /\ work' = [work EXCEPT ![w] = r]
<1>1. Idle \in Serving /\ Idle.hold = NoHold /\ Idle.todo = <<>>
  BY EmptySeq DEF Idle, Serving
<1>2. CASE todo = <<>>
  BY <1>1, <1>2 DEF Then
<1>3. CASE todo # <<>>
  <2> DEFINE r == [Idle EXCEPT !.kind = k, !.todo = todo]
  <2>1. r \in Serving /\ r.hold = NoHold /\ r.todo = todo /\ r.kind = k
    BY DEF Idle, Serving
  <2>2. work' = [work EXCEPT ![w] = r]
    BY <1>3 DEF Then
  <2> HIDE DEF r
  <2> QED  BY <2>1, <2>2
<1> QED  BY <1>2, <1>3

LEMMA TakeIdle ==
    ASSUME NEW w \in Workers, NEW k, Take(w, k)
    PROVE  work[w].todo = <<>> /\ work[w].hold = NoHold
BY DEF Take, Idle

\* A worker is rid of its first call.
LEMMA RidServes ==
    ASSUME LenderIInv, NEW w \in Workers, work[w].todo # <<>>, work[w].hold = NoHold
    PROVE  \E r \in Serving : /\ r.hold = NoHold /\ r.todo = Tail(work[w].todo)
                              /\ (r.todo # <<>> => r.kind = work[w].kind)
                              /\ Rid(w) = [work EXCEPT ![w] = r]
<1>1. work[w] \in Serving /\ work[w].todo \in Seq(Todo)
  BY DEF LenderIInv, Serving
<1>2. Tail(work[w].todo) \in Seq(Todo)
  BY <1>1, HasTail
<1>3. Idle \in Serving /\ Idle.hold = NoHold /\ Idle.todo = <<>>
  BY EmptySeq DEF Idle, Serving
<1>4. CASE Tail(work[w].todo) = <<>>
  BY <1>3, <1>4 DEF Rid
<1>5. CASE Tail(work[w].todo) # <<>>
  <2> DEFINE r == [work[w] EXCEPT !.todo = Tail(work[w].todo)]
  <2>1. r \in Serving /\ r.hold = NoHold /\ r.todo = Tail(work[w].todo) /\ r.kind = work[w].kind
    BY <1>1, <1>2 DEF Serving
  <2>2. Rid(w) = [work EXCEPT ![w] = r]
    BY <1>5 DEF Rid
  <2> HIDE DEF r
  <2> QED  BY <2>1, <2>2
<1> QED  BY <1>4, <1>5

\* The first of a worker's calls is not one of a loan and it is rid of it, or it has
\* others before what is left.
LEMMA DoneServes ==
    ASSUME LenderIInv, NEW w \in Workers, NEW todo \in Seq(Todo),
           work' = [work EXCEPT ![w] = IF todo = <<>> THEN Idle
                    ELSE [work[w] EXCEPT !.hold = NoHold, !.old = NoCopy, !.todo = todo]]
    PROVE  \E r \in Serving : /\ r.hold = NoHold /\ r.todo = todo
                              /\ (todo # <<>> => r.kind = work[w].kind)
                              /\ work' = [work EXCEPT ![w] = r]
<1>1. work[w] \in Serving
  BY DEF LenderIInv
<1>2. Idle \in Serving /\ Idle.hold = NoHold /\ Idle.todo = <<>>
  BY EmptySeq DEF Idle, Serving
<1>3. CASE todo = <<>>
  BY <1>2, <1>3
<1>4. CASE todo # <<>>
  <2> DEFINE r == [work[w] EXCEPT !.hold = NoHold, !.old = NoCopy, !.todo = todo]
  <2>1. r \in Serving /\ r.hold = NoHold /\ r.todo = todo /\ r.kind = work[w].kind
    BY <1>1 DEF Serving
  <2>2. work' = [work EXCEPT ![w] = r]
    BY <1>4
  <2> HIDE DEF r
  <2> QED  BY <2>1, <2>2
<1> QED  BY <1>3, <1>4

-----------------------------------------------------------------------------
(* The targeter.                                                           *)

\* A hold comes up.
LEMMA BeginTargetKeeps ==
    ASSUME LenderIInv, UNCHANGED scene, NEW w \in Workers, NEW h \in Holds, BeginTarget(w, h)
    PROVE  LenderIInv'
<1>1. /\ work[w].todo = <<>> /\ UNCHANGED <<hold, away, lender, forgotten>>
      /\ Then(w, "target", <<Retarget(h)>>)
  BY TakeIdle DEF BeginTarget
<1>2. <<Retarget(h)>> \in Seq(Todo) /\ \A k \in CallKinds : \A c : ~Has(<<Retarget(h)>>, k, c)
  BY HasOne, CallTypes
<1>3. PICK r \in Serving : /\ r.hold = NoHold /\ r.todo = <<Retarget(h)>>
                           /\ work' = [work EXCEPT ![w] = r]
  <2> DEFINE u == <<Retarget(h)>>
  <2>1. u \in Seq(Todo) /\ Then(w, "target", u)
    BY <1>1, <1>2
  <2> HIDE DEF u
  <2>2. \E r \in Serving : /\ r.hold = NoHold /\ r.todo = u
                            /\ work' = [work EXCEPT ![w] = r]
    BY <2>1, ThenServes DEF Kinds
  <2> QED  BY <2>2 DEF u
<1>4. \A c : /\ ~Has(work[w].todo, "checkin", c) /\ ~Has(work[w].todo, "checkout", c)
            /\ ~Has(r.todo, "checkin", c) /\ ~Has(r.todo, "checkout", c)
  BY <1>1, <1>2, <1>3, HasNone, CallTypes
<1>5. LoansTold'
  BY <1>1, <1>3, <1>4, CallsKept
<1> QED  BY <1>1, <1>3, <1>5, WorkKeeps DEF LenderIInv, TypeOK

\* It is looked at.
LEMMA FindTargetKeeps ==
    ASSUME LenderIInv, UNCHANGED scene, NEW w \in Workers, FindTarget(w)
    PROVE  LenderIInv'
<1> DEFINE todo == work[w].todo
           h == Head(todo).hold
           rest == Tail(todo)
<1>1. /\ UNCHANGED <<hold, away, lender, forgotten>> /\ work[w].hold = NoHold
      /\ todo # <<>> /\ Head(todo).kind = "target"
      /\ work' = IF hold[h].state # "open" THEN Rid(w)
                 ELSE [work EXCEPT ![w].hold = h, ![w].old = hold[h].current]
  BY DEF FindTarget
<1>2. /\ work \in [Workers -> Serving] /\ todo \in Seq(Todo) /\ Head(todo) \in Todo
      /\ \A k \in CallKinds : \A c : Has(todo, k, c) <=> Has(rest, k, c)
  BY <1>1, HasTail, CallTypes DEF LenderIInv, Serving
<1>3. h \in Holds
  BY <1>1, <1>2, CallTypes DEF Todo
<1>4. \E r \in Serving :
        /\ work' = [work EXCEPT ![w] = r] /\ (r.hold # NoHold => r.todo = todo)
        /\ r.todo \in {todo, rest}
  <2>1. CASE hold[h].state # "open"
    BY <1>1, <2>1, RidServes
  <2>2. CASE hold[h].state = "open"
    <3> DEFINE r == [work[w] EXCEPT !.hold = h, !.old = hold[h].current]
    <3>1. hold[h].current \in Copies \cup {NoCopy}
      BY <1>3 DEF LenderIInv, TypeOK, Row
    <3>2. r \in Serving /\ r.todo = todo
      BY <1>2, <1>3, <3>1 DEF Serving
    <3>3. work' = [work EXCEPT ![w] = r]
      BY <1>1, <1>2, <2>2
    <3> HIDE DEF r, todo
    <3> QED  BY <3>2, <3>3
  <2> QED  BY <2>1, <2>2
<1>5. PICK r \in Serving :
        /\ work' = [work EXCEPT ![w] = r] /\ (r.hold # NoHold => r.todo = todo)
        /\ r.todo \in {todo, rest}
  BY <1>4
<1> HIDE DEF rest
<1>6. /\ \A c : Has(todo, "checkin", c) => Has(r.todo, "checkin", c)
      /\ \A c : Has(r.todo, "checkout", c) => Has(todo, "checkout", c)
  BY <1>2, <1>5, CallTypes
<1>7. LoansTold'
  BY <1>1, <1>5, <1>6, CallsKept
<1>8. r.hold # NoHold => r.todo # <<>> /\ Head(r.todo).kind = "target"
  BY <1>1, <1>5
<1> QED  BY <1>1, <1>5, <1>7, <1>8, WorkKeeps DEF LenderIInv, TypeOK

\* What the targeter calls for is neither a loan nor a return.
LEMMA FarCallsTypes ==
    ASSUME NEW old \in Copies \cup {NoCopy}, NEW best \in Copies
    PROVE  /\ FarCalls(old, best) \in Seq(Todo)
           /\ \A c : /\ ~Has(FarCalls(old, best), "checkout", c)
                     /\ ~Has(FarCalls(old, best), "checkin", c)
<1>1. \A c : ~Has(<<>>, "checkout", c) /\ ~Has(<<>>, "checkin", c)
  BY HasNone
<1>2. <<>> \in Seq(Todo)
  BY EmptySeq
<1>3. /\ <<Call("place", best)>> \in Seq(Todo)
      /\ \A c : /\ ~Has(<<Call("place", best)>>, "checkout", c)
                /\ ~Has(<<Call("place", best)>>, "checkin", c)
  BY HasOne, CallTypes
<1>4. CASE best \notin Connected \/ best = old
  BY <1>1, <1>2, <1>4 DEF FarCalls
<1>5. CASE ~(best \notin Connected \/ best = old)
  <2> DEFINE s == IF old = NoCopy THEN <<>> ELSE <<Call("delete", old)>>
  <2>1. s \in Seq(Todo) /\ \A c : ~Has(s, "checkout", c) /\ ~Has(s, "checkin", c)
    <3>1. CASE old = NoCopy
      BY <1>1, <1>2, <3>1
    <3>2. CASE old # NoCopy
      BY <3>2, HasOne, CallTypes
    <3> QED  BY <3>1, <3>2
  <2> DEFINE t == <<Call("place", best)>>
  <2>2. FarCalls(old, best) = s \o t
    BY <1>5 DEF FarCalls
  <2>3. t \in Seq(Todo) /\ \A c : ~Has(t, "checkout", c) /\ ~Has(t, "checkin", c)
    BY SMTT(30), <1>3
  <2> HIDE DEF s, t
  <2> QED  BY <2>1, <2>2, <2>3, HasConcat
<1> QED  BY <1>4, <1>5

\* The choice and the commit.
LEMMA WriteTargetKeeps ==
    ASSUME LenderIInv, UNCHANGED scene, NEW w \in Workers, WriteTarget(w)
    PROVE  LenderIInv'
<1> DEFINE h == work[w].hold
           rest == Tail(work[w].todo)
           done(todo) == work' = [work EXCEPT ![w] =
               IF todo = <<>> THEN Idle
               ELSE [work[w] EXCEPT !.hold = NoHold, !.old = NoCopy, !.todo = todo]]
<1>1. h # NoHold /\ UNCHANGED <<away, lender>>
  BY DEF WriteTarget
<1>2. /\ work[w] \in Serving /\ h \in Holds /\ work[w].old \in Copies \cup {NoCopy}
      /\ work[w].todo \in Seq(Todo) /\ work[w].todo # <<>> /\ Head(work[w].todo).kind = "target"
  BY <1>1 DEF LenderIInv, AtTarget, Serving
<1>3. rest \in Seq(Todo) /\ \A k \in CallKinds : \A c : Has(work[w].todo, k, c) <=> Has(rest, k, c)
  BY <1>2, HasTail, CallTypes
<1>4. hold[h] \in Row /\ hold \in [Holds -> Row] /\ forgotten \subseteq Copies
  BY <1>2 DEF LenderIInv, TypeOK
<1>5. ASSUME NEW todo \in Seq(Todo), done(todo), hold' \in [Holds -> Row],
             forgotten' \subseteq Copies,
             \A c : Has(rest, "checkin", c) <=> Has(todo, "checkin", c),
             \A c : Has(rest, "checkout", c) <=> Has(todo, "checkout", c)
      PROVE  LenderIInv'
  <2>1. PICK r \in Serving : /\ r.hold = NoHold /\ r.todo = todo
                             /\ work' = [work EXCEPT ![w] = r]
    BY <1>5, DoneServes
  <2>2. /\ \A c : Has(work[w].todo, "checkin", c) => Has(r.todo, "checkin", c)
        /\ \A c : Has(r.todo, "checkout", c) => Has(work[w].todo, "checkout", c)
    BY <1>3, <1>5, <2>1, CallTypes
  <2>3. LoansTold'
    BY <1>1, <2>1, <2>2, CallsKept
  <2>4. away' \subseteq Copies /\ lender' \in [Copies -> Lender]
    BY <1>1 DEF LenderIInv, TypeOK
  <2> QED  BY <1>5, <2>1, <2>3, <2>4, WorkKeeps
<1>6. hold[h].current \in Copies \cup {NoCopy}
  BY <1>4 DEF Row
<1> HIDE DEF rest
<1>7. CASE ~Waiting(h) /\ done(rest) /\ UNCHANGED <<hold, forgotten>>
  BY <1>3, <1>4, <1>5, <1>7
<1>8. CASE /\ hold' = [hold EXCEPT ![h].state = "cancelled"]
           /\ forgotten' = forgotten \cup ({hold[h].current} \ {NoCopy})
           /\ done(rest)
  <2>1. hold' \in [Holds -> Row]
    BY <1>2, <1>4, <1>8 DEF Row
  <2> QED  BY <1>3, <1>4, <1>5, <1>6, <1>8, <2>1
<1>9. CASE /\ \E s \in {"open", "cancelled"} :
                hold' = [hold EXCEPT ![h].current = NoCopy, ![h].state = s]
           /\ forgotten' = forgotten \cup ({hold[h].current} \ {NoCopy})
           /\ done(rest)
  <2>1. hold' \in [Holds -> Row]
    BY <1>2, <1>4, <1>9 DEF Row
  <2> QED  BY <1>3, <1>4, <1>5, <1>6, <1>9, <2>1
<1>10. ASSUME NEW c \in Good \cup OldBest(h), hold' = [hold EXCEPT ![h].current = c],
              forgotten' = IF c \in Connected THEN forgotten
                           ELSE forgotten \cup ({hold[h].current} \ {NoCopy, c}),
              done(FarCalls(work[w].old, c) \o rest) \/ done(rest)
       PROVE  LenderIInv'
  <2>1. c \in Copies
    BY ScenesAssumption DEF LenderIInv, TypeOK, Scene, Good, OldBest, Potential
  <2>2. hold' \in [Holds -> Row]
    BY <1>2, <1>4, <1>10, <2>1 DEF Row
  <2>3. forgotten' \subseteq Copies
    BY <1>4, <1>6, <1>10
  <2> DEFINE far == FarCalls(work[w].old, c)
  <2>4. far \in Seq(Todo) /\ \A d : ~Has(far, "checkout", d) /\ ~Has(far, "checkin", d)
    BY <1>2, <2>1, FarCallsTypes
  <2>5. done(far \o rest) \/ done(rest)
    BY <1>10
  <2> HIDE DEF far
  <2>6. /\ far \o rest \in Seq(Todo)
        /\ \A d : Has(rest, "checkin", d) <=> Has(far \o rest, "checkin", d)
        /\ \A d : Has(rest, "checkout", d) <=> Has(far \o rest, "checkout", d)
    BY <1>3, <2>4, HasConcat
  <2>7. CASE done(far \o rest)
    BY <1>5, <2>2, <2>3, <2>6, <2>7
  <2>8. CASE done(rest)
    BY <1>3, <1>5, <2>2, <2>3, <2>8
  <2> QED  BY <2>5, <2>7, <2>8
<1> QED  BY ZenonT(30), <1>7, <1>8, <1>9, <1>10 DEF WriteTarget, rest

-----------------------------------------------------------------------------
(* The requests.                                                           *)

\* A request has no loans to call for.
LEMMA NoLoanKeeps ==
    ASSUME LenderIInv, UNCHANGED <<scene, away, lender, forgotten>>, NEW w \in Workers,
           NEW k \in Kinds, Take(w, k), NEW todo \in Seq(Todo), Then(w, k, todo),
           \A c : ~Has(todo, "checkout", c), hold' \in [Holds -> Row]
    PROVE  LenderIInv'
<1>1. PICK r \in Serving : /\ r.hold = NoHold /\ r.todo = todo
                           /\ work' = [work EXCEPT ![w] = r]
  BY ThenServes
<1>2. work[w].todo = <<>>
  BY TakeIdle
<1>3. /\ \A c : Has(work[w].todo, "checkin", c) => Has(r.todo, "checkin", c)
      /\ \A c : Has(r.todo, "checkout", c) => Has(work[w].todo, "checkout", c)
  BY <1>1, <1>2, HasNone
<1>4. LoansTold'
  BY <1>1, <1>3, CallsKept
<1>5. /\ away' \subseteq Copies /\ lender' \in [Copies -> Lender]
      /\ forgotten' \subseteq Copies
  BY DEF LenderIInv, TypeOK
<1> QED  BY <1>1, <1>4, <1>5, WorkKeeps

\* Deletes and targetings.
LEMMA Deletes ==
    ASSUME NEW c \in Copies, NEW h \in Holds
    PROVE  /\ <<>> \in Seq(Todo) /\ <<Call("delete", c)>> \in Seq(Todo)
           /\ <<Retarget(h)>> \in Seq(Todo)
           /\ \A d : /\ ~Has(<<>>, "checkout", d) /\ ~Has(<<Call("delete", c)>>, "checkout", d)
                     /\ ~Has(<<Retarget(h)>>, "checkout", d)
BY HasNone, HasOne, CallTypes, EmptySeq

LEMMA CancelKeeps ==
    ASSUME LenderIInv, UNCHANGED scene, NEW w \in Workers, NEW h \in Holds, Cancel(w, h)
    PROVE  LenderIInv'
<1> DEFINE c == hold[h].current
           todo == IF c # NoCopy /\ ~hold[h].captured THEN <<Call("delete", c)>> ELSE <<>>
<1>1. /\ Take(w, "cancel") /\ UNCHANGED <<away, lender, forgotten>>
      /\ hold' = [hold EXCEPT ![h].state = "cancelled"] /\ Then(w, "cancel", todo)
  BY DEF Cancel
<1>2. hold \in [Holds -> Row] /\ c \in Copies \cup {NoCopy}
  BY DEF LenderIInv, TypeOK, Row
<1>3. hold' \in [Holds -> Row]
  BY <1>1, <1>2 DEF Row
<1>4. todo \in Seq(Todo) /\ \A d : ~Has(todo, "checkout", d)
  <2>1. CASE c # NoCopy /\ ~hold[h].captured
    BY <1>2, <2>1, Deletes
  <2>2. CASE ~(c # NoCopy /\ ~hold[h].captured)
    BY <2>2, HasNone, EmptySeq
  <2> QED  BY <2>1, <2>2
<1> HIDE DEF todo
<1> QED  BY <1>1, <1>3, <1>4, NoLoanKeeps DEF Kinds

LEMMA UncancelKeeps ==
    ASSUME LenderIInv, UNCHANGED scene, NEW w \in Workers, NEW h \in Holds, Uncancel(w, h)
    PROVE  LenderIInv'
<1> DEFINE todo == <<Retarget(h)>>
<1>1. /\ Take(w, "uncancel") /\ UNCHANGED <<away, lender, forgotten>>
      /\ hold' = [hold EXCEPT ![h] = [current |-> NoCopy, captured |-> FALSE, state |-> "open"]]
      /\ Then(w, "uncancel", todo)
  BY DEF Uncancel
<1>2. hold' \in [Holds -> Row]
  BY <1>1 DEF LenderIInv, TypeOK, Row
<1>3. todo \in Seq(Todo) /\ \A d : ~Has(todo, "checkout", d)
  BY HasOne, CallTypes
<1> HIDE DEF todo
<1> QED  BY <1>1, <1>2, <1>3, NoLoanKeeps DEF Kinds

LEMMA ResetKeeps ==
    ASSUME LenderIInv, UNCHANGED scene, NEW w \in Workers, NEW h \in Holds, Reset(w, h)
    PROVE  LenderIInv'
<1> DEFINE c == hold[h].current
           s == IF c = NoCopy THEN <<>> ELSE <<Call("delete", c)>>
           t == <<Retarget(h)>>
<1>1. /\ Take(w, "reset") /\ UNCHANGED <<away, lender, forgotten>>
      /\ hold' = [hold EXCEPT ![h].current = NoCopy, ![h].captured = FALSE]
      /\ Then(w, "reset", s \o t)
  BY DEF Reset
<1>2. hold \in [Holds -> Row] /\ c \in Copies \cup {NoCopy}
  BY DEF LenderIInv, TypeOK, Row
<1>3. hold' \in [Holds -> Row]
  BY <1>1, <1>2 DEF Row
<1>4. s \in Seq(Todo) /\ \A d : ~Has(s, "checkout", d)
  <2>1. CASE c # NoCopy
    BY <1>2, <2>1, Deletes
  <2>2. CASE c = NoCopy
    BY <2>2, HasNone, EmptySeq
  <2> QED  BY <2>1, <2>2
<1>5. t \in Seq(Todo) /\ \A d : ~Has(t, "checkout", d)
  BY HasOne, CallTypes
<1> HIDE DEF s, t
<1>6. s \o t \in Seq(Todo) /\ \A d : ~Has(s \o t, "checkout", d)
  BY <1>4, <1>5, HasConcat
<1> QED  BY <1>1, <1>3, <1>6, NoLoanKeeps DEF Kinds

\* The patron's checkout of a hold calls for nothing.
LEMMA FillKeeps ==
    ASSUME LenderIInv, UNCHANGED scene, NEW w \in Workers, NEW h \in Holds, Fill(w, h)
    PROVE  LenderIInv'
<1>1. /\ UNCHANGED <<away, lender, work, forgotten>>
      /\ hold' = [hold EXCEPT ![h].state = "filled"]
  BY DEF Fill
<1>2. hold' \in [Holds -> Row]
  BY <1>1 DEF LenderIInv, TypeOK, Row
<1>3. TypeOK' /\ AtTarget' /\ LoansTold'
  BY <1>1, <1>2 DEF LenderIInv, TypeOK, AtTarget, LoansTold, ToCall, Lost, Connected
<1> QED  BY <1>1, <1>3 DEF LenderIInv

-----------------------------------------------------------------------------
(* Loans and returns.                                                      *)

\* The order in which holds that lose their target are targeted again.
LEMMA Ordered ==
    ASSUME NEW S, S \subseteq Holds
    PROVE  LET q == CHOOSE s \in [1..Cardinality(S) -> S] :
                        \A i, j \in 1..Cardinality(S) : s[i] = s[j] => i = j
           IN  /\ q \in [1..Cardinality(S) -> S]
               /\ Cardinality(S) \in Nat
<1>1. IsFiniteSet(S)
  BY NullsAssumption, FS_Subset
<1>2. Cardinality(S) \in Nat /\ ExistsBijection(1..Cardinality(S), S)
  BY <1>1, FS_CardinalityType
<1>3. PICK f \in Bijection(1..Cardinality(S), S) : TRUE
  BY <1>2 DEF ExistsBijection
<1>4. /\ f \in [1..Cardinality(S) -> S]
      /\ \A i, j \in 1..Cardinality(S) : f[i] = f[j] => i = j
  BY <1>3 DEF Bijection, Injection, IsInjective
<1> QED  BY <1>2, <1>4

\* The holds that lose their target are targeted again, and nobody is called for that.
Listed(S) ==
    LET q == CHOOSE s \in [1..Cardinality(S) -> S] :
                \A i, j \in 1..Cardinality(S) : s[i] = s[j] => i = j
    IN [i \in DOMAIN q |-> Retarget(q[i])]

LEMMA Retargets ==
    ASSUME NEW S, S \subseteq Holds
    PROVE  Listed(S) \in Seq(Todo) /\ \A k \in CallKinds : \A c : ~Has(Listed(S), k, c)
<1> DEFINE q == CHOOSE s \in [1..Cardinality(S) -> S] :
                    \A i, j \in 1..Cardinality(S) : s[i] = s[j] => i = j
           t == [i \in DOMAIN q |-> Retarget(q[i])]
<1>1. q \in [1..Cardinality(S) -> S] /\ Cardinality(S) \in Nat
  BY Ordered
<1> HIDE DEF q
<1>2. /\ DOMAIN t = 1..Cardinality(S)
      /\ \A i \in DOMAIN t : t[i] \in Todo /\ t[i].kind = "target"
  BY <1>1, CallTypes
<1>3. t = [i \in 1..Cardinality(S) |-> t[i]]
  BY <1>2
<1> HIDE DEF t
<1>4. t \in Seq(Todo)
  BY <1>1, <1>2, <1>3, IsASeq
<1>5. \A k \in CallKinds : \A c : ~Has(t, k, c)
  BY <1>2, CallTypes DEF Has
<1>6. t = Listed(S)
  BY DEF t, q, Listed
<1> QED  BY <1>4, <1>5, <1>6

\* A copy goes to a hold, with a call that lends it or one that checks it in.
LEMMA CaptureForKeeps ==
    ASSUME LenderIInv, UNCHANGED <<scene, lender>>, NEW w \in Workers, NEW k \in Kinds,
           NEW h \in Holds, NEW c \in Copies, NEW call \in {"checkout", "checkin"},
           Take(w, k), CaptureFor(w, k, h, c, call)
    PROVE  LenderIInv'
<1> DEFINE others == {g \in Holds \ {h} : Waiting(g) /\ hold[g].current = c}
           s == <<Call(call, c)>>
           t == Listed(others)
<1>1. /\ hold' = [g \in Holds |->
              IF g = h THEN [hold[g] EXCEPT !.current = c, !.captured = TRUE]
              ELSE IF g \in others THEN [hold[g] EXCEPT !.current = NoCopy] ELSE hold[g]]
      /\ away' = away \cup {c}
      /\ forgotten' = forgotten \cup ({hold[h].current} \ {NoCopy, c})
                                \cup (IF call = "checkout" THEN {} ELSE {c})
      /\ Then(w, k, s \o t)
  BY DEF CaptureFor, Listed
<1>2. /\ hold \in [Holds -> Row] /\ away \subseteq Copies /\ forgotten \subseteq Copies
      /\ hold[h].current \in Copies \cup {NoCopy}
  BY DEF LenderIInv, TypeOK, Row
<1>3. hold' \in [Holds -> Row] /\ away' \subseteq Copies /\ forgotten' \subseteq Copies
  <2>1. ASSUME NEW g \in Holds
        PROVE  /\ hold[g] \in Row /\ [hold[g] EXCEPT !.current = NoCopy] \in Row
               /\ [hold[g] EXCEPT !.current = c, !.captured = TRUE] \in Row
    BY <1>2 DEF Row
  <2> HIDE DEF others
  <2>2. hold' \in [Holds -> Row]
    BY <1>1, <2>1
  <2> QED  BY <1>1, <1>2, <2>2
<1>4. t \in Seq(Todo) /\ \A kk \in CallKinds : \A d : ~Has(t, kk, d)
  <2>1. others \subseteq Holds
    OBVIOUS
  <2> HIDE DEF others
  <2> QED  BY <2>1, Retargets
<1>5. s \in Seq(Todo) /\ \A kk, d : Has(s, kk, d) <=> kk = call /\ d = c
  BY HasOne, CallTypes
<1> HIDE DEF s, t, others
<1>6. /\ s \o t \in Seq(Todo)
      /\ \A kk \in CallKinds : \A d : Has(s \o t, kk, d) <=> kk = call /\ d = c
  BY <1>4, <1>5, HasConcat
<1>7. PICK r \in Serving : /\ r.hold = NoHold /\ r.todo = s \o t
                           /\ work' = [work EXCEPT ![w] = r]
  <2> DEFINE u == s \o t
  <2>1. u \in Seq(Todo) /\ Then(w, k, u)
    BY <1>1, <1>6
  <2> HIDE DEF u
  <2>2. \E r \in Serving : /\ r.hold = NoHold /\ r.todo = u
                            /\ work' = [work EXCEPT ![w] = r]
    BY <2>1, ThenServes
  <2> QED  BY <2>2 DEF u
<1>8. LoansTold'
  <2>1. work[w].todo = <<>> /\ \A kk, d : ~Has(work[w].todo, kk, d)
    BY TakeIdle, HasNone
  <2>2. work \in [Workers -> Serving] /\ LoansTold
    BY DEF LenderIInv
  <2>3. \A d : Has(r.todo, "checkout", d) => d = c
    BY <1>6, <1>7, CallTypes
  <2>4. \A d : ToCall("checkin", d) => ToCall("checkin", d)'
    BY <1>7, <2>1, <2>2, ToCallHas, ToCallHasNext
  <2>5. \A d : ToCall("checkout", d)' => ToCall("checkout", d) \/ d = c
    BY <1>7, <2>1, <2>2, <2>3, ToCallHas, ToCallHasNext
  <2> QED  BY <1>1, <2>2, <2>4, <2>5 DEF LoansTold, Lost, Connected
<1>9. lender' \in [Copies -> Lender]
  BY DEF LenderIInv, TypeOK
<1> QED  BY <1>3, <1>7, <1>8, <1>9, WorkKeeps

\* A check-in captures the copy, or the page calls for the loan all the same.
LEMMA CaptureKeeps ==
    ASSUME LenderIInv, UNCHANGED scene, NEW w \in Workers, NEW c \in Copies, Capture(w, c)
    PROVE  LenderIInv'
<1>1. Take(w, "capture") /\ UNCHANGED lender
  BY DEF Capture
<1>2. ASSUME NEW h \in Candidates(c), CaptureFor(w, "capture", h, c, "checkout")
      PROVE  LenderIInv'
  BY <1>1, <1>2, CaptureForKeeps DEF Candidates, Kinds
<1>3. ASSUME scene.stale, Then(w, "capture", <<Call("checkout", c)>>),
             UNCHANGED <<hold, away, forgotten>>
      PROVE  LenderIInv'
  <2> DEFINE todo == <<Call("checkout", c)>>
  <2>1. todo \in Seq(Todo) /\ Then(w, "capture", todo)
    BY <1>3, HasOne, CallTypes
  <2> HIDE DEF todo
  <2>2. PICK r \in Serving : r.hold = NoHold /\ work' = [work EXCEPT ![w] = r]
    BY <2>1, ThenServes DEF Kinds
  <2>3. LoansTold'
    BY <1>3 DEF LoansTold
  <2>4. /\ hold' \in [Holds -> Row] /\ away' \subseteq Copies /\ forgotten' \subseteq Copies
        /\ lender' \in [Copies -> Lender]
    BY <1>1, <1>3 DEF LenderIInv, TypeOK
  <2> QED  BY <2>2, <2>3, <2>4, WorkKeeps
<1> QED  BY <1>2, <1>3 DEF Capture

\* A copy that is back goes to a hold, or is home.
LEMMA ReceiveKeeps ==
    ASSUME LenderIInv, UNCHANGED scene, NEW w \in Workers, NEW c \in Copies, Receive(w, c)
    PROVE  LenderIInv'
<1>1. Take(w, "receive") /\ UNCHANGED lender /\ ~InHand(c)
  BY DEF Receive
<1>2. ASSUME NEW h \in Candidates(c), CaptureFor(w, "receive", h, c, "checkin")
      PROVE  LenderIInv'
  BY <1>1, <1>2, CaptureForKeeps DEF Candidates, Kinds
<1>3. ASSUME away' = away \ {c}, Then(w, "receive", <<Call("checkin", c)>>),
             UNCHANGED <<hold, forgotten>>
      PROVE  LenderIInv'
  <2> DEFINE todo == <<Call("checkin", c)>>
  <2>1. /\ todo \in Seq(Todo) /\ Then(w, "receive", todo)
        /\ \A k, d : Has(todo, k, d) <=> k = "checkin" /\ d = c
    BY <1>3, HasOne, CallTypes
  <2> HIDE DEF todo
  <2>2. PICK r \in Serving : /\ r.hold = NoHold /\ r.todo = todo
                             /\ work' = [work EXCEPT ![w] = r]
    BY <2>1, ThenServes DEF Kinds
  <2>3. LoansTold'
    <3>1. \A k, d : ~Has(work[w].todo, k, d)
      BY <1>1, TakeIdle, HasNone
    <3>2. work \in [Workers -> Serving] /\ LoansTold
      BY DEF LenderIInv
    <3>3. \A d : ToCall("checkin", d) \/ d = c => ToCall("checkin", d)'
      BY <2>1, <2>2, <3>1, <3>2, ToCallHas, ToCallHasNext
    <3>4. \A d : ToCall("checkout", d)' => ToCall("checkout", d)
      BY <2>1, <2>2, <3>1, <3>2, ToCallHas, ToCallHasNext
    <3>5. ~ToCall("checkout", c)
      BY <1>1 DEF InHand, ToCall
    <3> QED  BY <1>1, <1>3, <3>2, <3>3, <3>4, <3>5 DEF LoansTold, Lost, Connected
  <2>4. /\ hold' \in [Holds -> Row] /\ away' \subseteq Copies /\ forgotten' \subseteq Copies
        /\ lender' \in [Copies -> Lender]
    BY <1>1, <1>3 DEF LenderIInv, TypeOK
  <2> QED  BY <2>2, <2>3, <2>4, WorkKeeps
<1> QED  BY <1>2, <1>3 DEF Receive

\* What a lender answers to a call.
LEMMA AnswersTypes ==
    ASSUME NEW k \in CallKinds, NEW l \in Lender, NEW m \in Answers(k, l)
    PROVE  /\ m \in Lender
           /\ k \in {"place", "delete"} => m.lent = l.lent
           /\ k = "checkin" => m.lent = FALSE
<1>1. MaxAsked \in Nat /\ l.asked \in 0..MaxAsked /\ l.lent \in BOOLEAN
  BY ScenesAssumption DEF Lender
<1>2. Less(l.asked) \in 0..MaxAsked
  BY <1>1 DEF Less
<1>3. CASE k = "place"
  BY <1>1, <1>3 DEF Answers, Placed, Lender
<1>4. CASE k = "delete"
  BY <1>1, <1>2, <1>4 DEF Answers, Lender
<1>5. CASE k = "checkout"
  <2>1. m = [asked |-> Less(l.asked), lent |-> TRUE]
    BY <1>5 DEF Answers
  <2> QED  BY <1>2, <1>5, <2>1 DEF Lender
<1>6. CASE k = "checkin"
  BY <1>1, <1>6 DEF Answers, Lender
<1> QED  BY <1>3, <1>4, <1>5, <1>6 DEF CallKinds

\* A call is made.
LEMMA MakeCallKeeps ==
    ASSUME LenderIInv, UNCHANGED scene, NEW w \in Workers, MakeCall(w)
    PROVE  LenderIInv'
<1> DEFINE todo == work[w].todo
           k == Head(todo).kind
           c == Head(todo).copy
           rest == Tail(todo)
<1>1. /\ work[w].hold = NoHold /\ todo # <<>> /\ k \in CallKinds
      /\ UNCHANGED <<hold, away, forgotten>> /\ work' = Rid(w)
      /\ \E l \in (IF c \in Connected THEN Answers(k, lender[c]) ELSE {lender[c]})
                   \cup (IF k \in Lost THEN {lender[c]} ELSE {}) :
             lender' = [lender EXCEPT ![c] = l]
  BY DEF MakeCall
<1>2. /\ work \in [Workers -> Serving] /\ todo \in Seq(Todo) /\ Head(todo) \in Todo
      /\ \A kk, d : Has(todo, kk, d) <=> (k = kk /\ c = d) \/ Has(rest, kk, d)
  BY <1>1, HasTail DEF LenderIInv, Serving
<1>3. c \in Copies
  BY <1>1, <1>2, CallTypes DEF Todo
<1>4. PICK r \in Serving : /\ r.hold = NoHold /\ r.todo = rest
                           /\ work' = [work EXCEPT ![w] = r]
  BY SMTT(30), <1>1, RidServes
<1>5. PICK l : /\ l \in (IF c \in Connected THEN Answers(k, lender[c]) ELSE {lender[c]})
                         \cup (IF k \in Lost THEN {lender[c]} ELSE {})
               /\ lender' = [lender EXCEPT ![c] = l]
  BY <1>1
<1>6. lender \in [Copies -> Lender] /\ lender[c] \in Lender
  BY <1>3 DEF LenderIInv, TypeOK
<1>7. /\ l \in Lender
      /\ k \in {"place", "delete"} => l.lent = lender[c].lent
      /\ Lost = {} /\ c \in Connected /\ k = "checkin" => l.lent = FALSE
      /\ l.lent => lender[c].lent \/ (c \in Connected /\ k = "checkout")
      /\ Lost = {} /\ c \notin Connected => l = lender[c]
  <2>1. CASE l = lender[c] /\ ~(Lost = {} /\ c \in Connected)
    BY <1>6, <2>1
  <2>2. CASE l \in Answers(k, lender[c]) /\ c \in Connected
    <3> HIDE DEF k, c
    <3>1. /\ l \in Lender
          /\ k \in {"place", "delete"} => l.lent = lender[c].lent
          /\ k = "checkin" => l.lent = FALSE
      BY <1>1, <1>6, <2>2, AnswersTypes
    <3> QED  BY <1>1, <2>2, <3>1 DEF CallKinds
  <2> QED  BY <1>5, <2>1, <2>2
<1>8. lender' \in [Copies -> Lender]
  BY <1>5, <1>6, <1>7
<1> HIDE DEF rest, todo
<1>9. LoansTold'
  <2> SUFFICES ASSUME Lost = {}, ~scene.stale, NEW d \in Copies
               PROVE  /\ lender'[d].lent => d \in Connected /\ (d \in away \/ ToCall("checkin", d)')
                      /\ ToCall("checkout", d)' => d \in away
    BY <1>1 DEF LoansTold, Lost, Connected
  <2>1. /\ lender[d].lent => d \in Connected /\ (d \in away \/ ToCall("checkin", d))
        /\ ToCall("checkout", d) => d \in away
    BY DEF LenderIInv, LoansTold
  <2>2. ToCall("checkout", d)' => ToCall("checkout", d)
    BY <1>2, <1>4, ToCallHas, ToCallHasNext DEF todo
  <2>3. ToCall("checkin", d) => ToCall("checkin", d)' \/ (k = "checkin" /\ d = c)
    BY <1>2, <1>4, ToCallHas, ToCallHasNext DEF todo
  <2>4. k = "checkout" => ToCall("checkout", c)
    BY <1>2, ToCallHas DEF todo
  <2>5. CASE d # c
    BY <1>5, <1>6, <2>1, <2>2, <2>3, <2>5
  <2>6. CASE d = c
    <3>1. lender'[d] = l
      BY <1>5, <1>6, <2>6
    <3> QED  BY <1>7, <2>1, <2>2, <2>3, <2>4, <2>6, <3>1
  <2> QED  BY <2>5, <2>6
<1>10. hold' \in [Holds -> Row] /\ away' \subseteq Copies /\ forgotten' \subseteq Copies
  BY <1>1 DEF LenderIInv, TypeOK
<1> QED  BY <1>4, <1>8, <1>9, <1>10, WorkKeeps

-----------------------------------------------------------------------------

LEMMA LenderInit == Init => LenderIInv
<1> SUFFICES ASSUME Init PROVE LenderIInv
  OBVIOUS
<1>1. /\ Idle \in Serving /\ Idle.hold = NoHold /\ Idle.todo = <<>> /\ Idle.kind = "none"
      /\ Idle.old = NoCopy
  BY EmptySeq DEF Idle, Serving
<1>2. work \in [Workers -> Serving] /\ \A w \in Workers : work[w] = Idle
  BY <1>1 DEF Init
<1>3. TypeOK
  <2>1. MaxAsked \in Nat
    BY ScenesAssumption
  <2>2. hold \in [Holds -> Row] /\ lender \in [Copies -> Lender]
    BY <2>1 DEF Init, Row, Lender
  <2>3. \A w \in Workers :
          /\ work[w].kind \in Kinds \cup {"none"} /\ work[w].hold \in Holds \cup {NoHold}
          /\ work[w].old \in Copies \cup {NoCopy} /\ work[w].todo \in Seq(Todo)
    BY <1>2 DEF Serving
  <2> QED  BY <2>2, <2>3 DEF Init, TypeOK
<1>4. AtTarget
  BY <1>1, <1>2 DEF AtTarget
<1>5. LoansTold
  BY <1>1, <1>2, HasNone, ToCallHas DEF Init, LoansTold
<1> QED  BY <1>2, <1>3, <1>4, <1>5 DEF LenderIInv

LEMMA LenderStep == LenderIInv /\ [Next]_vars => LenderIInv'
<1> SUFFICES ASSUME LenderIInv, [Next]_vars PROVE LenderIInv'
  OBVIOUS
<1>1. CASE UNCHANGED vars
  <2>1. UNCHANGED <<scene, hold, away, lender, work, forgotten>>
    BY <1>1 DEF vars
  <2> QED  BY <2>1 DEF LenderIInv, TypeOK, AtTarget, LoansTold, ToCall, Lost, Connected
<1>2. CASE Next
  <2>1. PICK w \in Workers :
          \/ \E h \in Holds : BeginTarget(w, h) \/ Cancel(w, h) \/ Uncancel(w, h)
                              \/ Reset(w, h) \/ Fill(w, h)
          \/ \E c \in Copies : Capture(w, c) \/ Receive(w, c)
          \/ FindTarget(w) \/ WriteTarget(w) \/ MakeCall(w)
    BY <1>2 DEF Next
  <2>2. UNCHANGED scene
    BY <1>2 DEF Next
  <2>3. CASE \E h \in Holds : BeginTarget(w, h) \/ Cancel(w, h) \/ Uncancel(w, h)
                              \/ Reset(w, h) \/ Fill(w, h)
    BY <2>2, <2>3, BeginTargetKeeps, CancelKeeps, UncancelKeeps, ResetKeeps, FillKeeps
  <2>4. CASE \E c \in Copies : Capture(w, c) \/ Receive(w, c)
    BY <2>2, <2>4, CaptureKeeps, ReceiveKeeps
  <2>5. CASE FindTarget(w) \/ WriteTarget(w) \/ MakeCall(w)
    BY <2>2, <2>5, FindTargetKeeps, WriteTargetKeeps, MakeCallKeeps
  <2> QED  BY <2>1, <2>3, <2>4, <2>5
<1> QED  BY <1>1, <1>2

\* Rows, lenders and calls are in order at all times: loans that a lender has not
\* heard the end of have a check-in to come, and a loan to come is of a copy away.
THEOREM LenderInductive == Spec => []LenderIInv
BY LenderInit, LenderStep, PTL DEF Spec

\* When all calls have been made, and none was lost, a lender has a copy on loan only
\* while it is away, however requests overlap (checkout, checkin in laicore).
THEOREM LendersKnow == Spec => []LenderInv
<1>1. LenderIInv => LenderInv
  <2> SUFFICES ASSUME LenderIInv, Rest, Lost = {}, ~scene.stale,
                      NEW c \in Copies, lender[c].lent
               PROVE  c \in away
    BY DEF LenderInv, LenderIInv, LentIsAway
  <2>1. \A k, d : ~ToCall(k, d)
    BY ToCallHas, HasNone DEF Rest, Idle
  <2> QED  BY <2>1 DEF LenderIInv, LoansTold
<1> QED  BY <1>1, LenderInductive, PTL

-----------------------------------------------------------------------------
(* What a lender has been asked for.  While no call but a cancel's is left *)
(* to itself, and closed holds stay as they are, the holds a lender has on *)
(* a copy are the one that a waiting hold of FulfILLment wants there, and  *)
(* those that deletes and loans still to come will take back.  That needs  *)
(* to know who may have what on the list of calls, and that a copy a       *)
(* waiting hold targets is no other open hold's.                           *)

Calm == InTurn /\ ~scene.closed

\* The lists of calls: targetings, after no call, one, or the pair of a new target.
NoCalls(s) == \A k \in CallKinds : \A c : ~Has(s, k, c)
Shaped(s) ==
    \/ NoCalls(s)
    \/ s # <<>> /\ Head(s).kind \in CallKinds /\ NoCalls(Tail(s))
    \/ /\ s # <<>> /\ Head(s).kind = "delete"
       /\ Tail(s) # <<>> /\ Head(Tail(s)).kind = "place" /\ NoCalls(Tail(Tail(s)))
\* A call takes a hold back.
Takes(s, c) == Has(s, "delete", c) \/ Has(s, "checkout", c)

\* Nobody else is served whom the worker would have to wait for.
Alone(w) == \A u \in Workers \ {w} : work[u].todo # <<>> => work[u].kind \in Late

Turns == \A u, v \in Workers : u # v /\ work[u].todo # <<>> /\ work[v].todo # <<>> =>
    work[u].kind \in Late \/ work[v].kind \in Late
CancelsDelete == \A w \in Workers : work[w].todo # <<>> /\ work[w].kind = "cancel" =>
    work[w].hold = NoHold /\ \E c \in Copies : work[w].todo = <<Call("delete", c)>>
KnowsOld == \A w \in Workers : work[w].hold # NoHold =>
    work[w].old = hold[work[w].hold].current
OneClaim == \A g, h \in Holds :
    Waiting(g) /\ hold[h].state = "open" /\ hold[h].current = hold[g].current
    /\ hold[g].current # NoCopy => g = h

\* A lender takes each hold it is asked for, and keeps it: no such call is lost, there is
\* room for one of each worker, and while a cancel's delete may be late a lender does not
\* refuse the next hold on that copy, nor does a loan use up the one the delete is for.
Patient == /\ "place" \notin Lost /\ MaxAsked >= Cardinality(Workers)
           /\ \/ Late = {}
              \/ ~scene.refusing /\ "capture" \notin scene.asks /\ "receive" \notin scene.asks
NoCaptures == Patient /\ Late # {} => \A h \in Holds : ~hold[h].captured

HandsInv == Calm => /\ \A w \in Workers : Shaped(work[w].todo)
                    /\ Turns /\ CancelsDelete /\ KnowsOld /\ OneClaim /\ NoCaptures

Wanted(c) == \E h \in Holds : Wants(h) /\ hold[h].current = c
Takers(c) == {w \in Workers : Takes(work[w].todo, c)}
Bit(b) == IF b THEN 1 ELSE 0

\* A lender has, or will be asked for, what is wanted and what will be taken back, and
\* no more than that if it was not forgotten and no call was lost.
Enough(c) == \/ lender[c].asked + Bit(ToCall("place", c)) >= Cardinality(Takers(c)) + Bit(Wanted(c))
             \/ Late = {} /\ ~Wanted(c)
NoMore(c) == lender[c].asked + Bit(ToCall("place", c)) <= Cardinality(Takers(c)) + Bit(Wanted(c))
CountsInv == Calm => \A c \in Connected :
    /\ ToCall("place", c) => Wanted(c)
    /\ Patient => Enough(c)
    /\ Lost = {} /\ c \notin forgotten => NoMore(c)

-----------------------------------------------------------------------------
(* Lists of calls.                                                         *)

LEMMA NoneCalled == NoCalls(<<>>) /\ Shaped(<<>>)
BY HasNone DEF NoCalls, Shaped

LEMMA TailShaped ==
    ASSUME NEW s \in Seq(Todo), s # <<>>, Shaped(s)
    PROVE  /\ Shaped(Tail(s))
           /\ Head(s).kind = "target" => NoCalls(s) /\ NoCalls(Tail(s))
           /\ Head(s).kind \in {"place", "checkout", "checkin"} => NoCalls(Tail(s))
           /\ \A c : Head(s).kind = "delete" => ~Takes(Tail(s), c)
<1>1. /\ Head(s) \in Todo /\ Tail(s) \in Seq(Todo)
      /\ \A k, c : Has(s, k, c) <=> (Head(s).kind = k /\ Head(s).copy = c) \/ Has(Tail(s), k, c)
  BY HasTail
<1>2. Head(s).kind \in CallKinds => ~NoCalls(s)
  BY <1>1 DEF NoCalls
<1>3. NoCalls(s) => NoCalls(Tail(s))
  BY <1>1 DEF NoCalls
<1>4. NoCalls(Tail(s)) => \A c : ~Takes(Tail(s), c)
  BY CallTypes DEF NoCalls, Takes
<1>5. ASSUME Tail(s) # <<>>, Head(Tail(s)).kind = "place", NoCalls(Tail(Tail(s)))
      PROVE  \A c : ~Takes(Tail(s), c)
  <2>1. \A k, c : Has(Tail(s), k, c) <=>
           (Head(Tail(s)).kind = k /\ Head(Tail(s)).copy = c) \/ Has(Tail(Tail(s)), k, c)
    BY <1>1, <1>5, HasTail
  <2> QED  BY <1>5, <2>1, CallTypes DEF NoCalls, Takes
<1>6. Shaped(Tail(s))
  BY <1>3, CallTypes DEF Shaped
<1>7. Head(s).kind = "target" => NoCalls(s)
  BY CallTypes DEF Shaped
<1>8. Head(s).kind \in {"place", "checkout", "checkin"} => NoCalls(Tail(s))
  BY <1>2, CallTypes DEF Shaped
<1>9. Head(s).kind = "delete" => \A c : ~Takes(Tail(s), c)
  BY <1>2, <1>4, <1>5, CallTypes DEF Shaped
<1> QED  BY <1>3, <1>6, <1>7, <1>8, <1>9

\* A call before others.
LEMMA FirstOf ==
    ASSUME NEW x \in Todo, NEW t \in Seq(Todo)
    PROVE  /\ <<x>> \o t \in Seq(Todo) /\ <<x>> \o t # <<>>
           /\ Head(<<x>> \o t) = x /\ Tail(<<x>> \o t) = t
<1> DEFINE s == <<x>>
           u == s \o t
<1>1. s \in Seq(Todo) /\ Len(s) = 1 /\ s[1] = x
  OBVIOUS
<1> HIDE DEF s
<1>2. /\ u \in Seq(Todo) /\ Len(u) = 1 + Len(t) /\ Len(t) \in Nat
      /\ \A i \in 1..(1 + Len(t)) : u[i] = IF i <= 1 THEN s[i] ELSE t[i - 1]
  BY SMTT(30), <1>1, ConcatProperties, LenProperties
<1> HIDE DEF u
<1>3. u # <<>> /\ Head(u) = x
  BY <1>1, <1>2, EmptySeq, LenProperties
<1>4. /\ Tail(u) \in Seq(Todo) /\ Len(Tail(u)) = Len(t)
      /\ \A i \in 1..Len(Tail(u)) : Tail(u)[i] = u[i + 1]
  BY <1>2, <1>3, HeadTailProperties
<1>5. Tail(u) = t
  <2>1. \A i \in 1..Len(t) : Tail(u)[i] = t[i]
    BY <1>2, <1>4
  <2> QED  BY <1>4, <2>1, SeqEqual
<1> QED  BY <1>2, <1>3, <1>5 DEF s, u

LEMMA CallShaped ==
    ASSUME NEW k \in CallKinds, NEW c \in Copies, NEW t \in Seq(Todo), NoCalls(t)
    PROVE  LET s == <<Call(k, c)>> \o t
           IN  /\ s \in Seq(Todo) /\ s # <<>> /\ Shaped(s)
               /\ \A j \in CallKinds : \A d : Has(s, j, d) <=> j = k /\ d = c
<1> DEFINE x == Call(k, c)
           s == <<x>> \o t
<1>1. x \in Todo /\ x.kind = k /\ x.copy = c
  BY CallTypes
<1> HIDE DEF x
<1>2. s \in Seq(Todo) /\ s # <<>> /\ Head(s) = x /\ Tail(s) = t
  BY <1>1, FirstOf
<1> HIDE DEF s
<1>3. Shaped(s)
  BY <1>1, <1>2 DEF Shaped
<1>4. \A j \in CallKinds : \A d : Has(s, j, d) <=> j = k /\ d = c
  BY <1>1, <1>2, HasTail DEF NoCalls
<1> QED  BY <1>2, <1>3, <1>4 DEF s, x

LEMMA OneCall ==
    ASSUME NEW k \in CallKinds, NEW c \in Copies
    PROVE  /\ <<Call(k, c)>> \in Seq(Todo) /\ <<Call(k, c)>> # <<>> /\ Shaped(<<Call(k, c)>>)
           /\ \A j \in CallKinds : \A d : Has(<<Call(k, c)>>, j, d) <=> j = k /\ d = c
<1>1. Call(k, c) \in Todo /\ Call(k, c).kind = k /\ Call(k, c).copy = c
  BY CallTypes
<1>2. <<Call(k, c)>> \o <<>> = <<Call(k, c)>>
  BY <1>1, HasOne, ConcatEmptySeq
<1>3. <<>> \in Seq(Todo) /\ NoCalls(<<>>)
  BY NoneCalled, EmptySeq
<1>4. LET s == <<Call(k, c)>> \o <<>>
      IN  /\ s \in Seq(Todo) /\ s # <<>> /\ Shaped(s)
          /\ \A j \in CallKinds : \A d : Has(s, j, d) <=> j = k /\ d = c
  BY <1>3, CallShaped
<1> QED  BY <1>2, <1>4

LEMMA OneTarget ==
    ASSUME NEW h \in Holds
    PROVE  <<Retarget(h)>> \in Seq(Todo) /\ NoCalls(<<Retarget(h)>>)
BY HasOne, CallTypes DEF NoCalls

\* What the targeter calls for: nothing, or the new copy and the end of the old one.
LEMMA FarShaped ==
    ASSUME NEW old \in Copies \cup {NoCopy}, NEW best \in Copies,
           NEW t \in Seq(Todo), NoCalls(t)
    PROVE  LET s == FarCalls(old, best) \o t
           IN  /\ s \in Seq(Todo) /\ Shaped(s)
               /\ \A d : ~Has(s, "checkout", d)
               /\ \A d : Has(s, "delete", d) <=> /\ best \in Connected /\ best # old
                                                 /\ d = old /\ old # NoCopy
               /\ \A d : Has(s, "place", d) <=> best \in Connected /\ best # old /\ d = best
<1> DEFINE p == <<Call("place", best)>>
           e == <<Call("delete", old)>>
<1>1. /\ p \o t \in Seq(Todo) /\ Shaped(p \o t) /\ p \in Seq(Todo)
      /\ \A j \in CallKinds : \A d : Has(p \o t, j, d) <=> j = "place" /\ d = best
  <2>1. "place" \in CallKinds
    BY CallTypes
  <2>2. p \in Seq(Todo)
    BY <2>1, OneCall
  <2>3. LET s == p \o t
        IN  /\ s \in Seq(Todo) /\ s # <<>> /\ Shaped(s)
            /\ \A j \in CallKinds : \A d : Has(s, j, d) <=> j = "place" /\ d = best
    BY <2>1, CallShaped
  <2> QED  BY <2>2, <2>3
<1>2. CASE best \notin Connected \/ best = old
  <2>1. FarCalls(old, best) \o t = t
    BY <1>2, ConcatEmptySeq DEF FarCalls
  <2>2. Shaped(t)
    BY DEF Shaped
  <2> QED  BY <1>2, <2>1, <2>2, CallTypes DEF NoCalls
<1>3. CASE best \in Connected /\ best # old /\ old = NoCopy
  <2>1. FarCalls(old, best) = <<>> \o p
    BY <1>3 DEF FarCalls
  <2>2. FarCalls(old, best) = p
    BY <1>1, <2>1, ConcatEmptySeq
  <2> HIDE DEF p
  <2> QED  BY <1>1, <1>3, <2>2, CallTypes
<1>4. CASE best \in Connected /\ best # old /\ old # NoCopy
  <2>1. FarCalls(old, best) = e \o p
    BY <1>4 DEF FarCalls
  <2>2. old \in Copies /\ e \in Seq(Todo)
    BY <1>4, OneCall, CallTypes
  <2> HIDE DEF p
  <2>3. FarCalls(old, best) \o t = e \o (p \o t)
    BY <1>1, <2>1, <2>2, ConcatAssociative DEF e
  <2>4. Call("delete", old) \in Todo /\ Call("delete", old).kind = "delete"
        /\ Call("delete", old).copy = old
    BY <2>2, CallTypes
  <2> DEFINE q == p \o t
             s == e \o q
  <2>5. q \in Seq(Todo) /\ q # <<>> /\ Head(q).kind = "place" /\ Tail(q) = t
    <3>1. Call("place", best) \in Todo /\ Call("place", best).kind = "place"
      BY CallTypes
    <3> QED  BY <3>1, FirstOf DEF p
  <2> HIDE DEF q
  <2>6. s \in Seq(Todo) /\ s # <<>> /\ Head(s) = Call("delete", old) /\ Tail(s) = q
    BY <2>4, <2>5, FirstOf
  <2> HIDE DEF s, e
  <2>7. Shaped(s)
    BY <2>4, <2>5, <2>6 DEF Shaped
  <2>8. \A j, d : Has(s, j, d) <=> (j = "delete" /\ d = old) \/ Has(q, j, d)
    BY <2>4, <2>6, HasTail
  <2>9. FarCalls(old, best) \o t = s
    BY <2>3 DEF q, s
  <2> QED  BY <1>1, <1>4, <2>6, <2>7, <2>8, <2>9, CallTypes DEF q
<1> QED  BY <1>2, <1>3, <1>4

-----------------------------------------------------------------------------
(* The others while a worker is served.                                    *)

LEMMA LateCancels == Calm => Late \subseteq {"cancel"} /\ ~scene.closed
BY DEF Calm, InTurn

LEMMA Copied == LenderIInv => Connected \subseteq Copies /\ NoCopy \notin Connected
BY NullsAssumption, ScenesAssumption DEF LenderIInv, TypeOK, Scene, Connected

LEMMA TakeAlone ==
    ASSUME NEW w \in Workers, NEW k, Take(w, k)
    PROVE  Alone(w) /\ k \in scene.asks
BY DEF Take, Alone, Idle

\* Who has another call than a cancel's to make, or a hold to target, is alone.
LEMMA ServedAlone ==
    ASSUME HandsInv, Calm, NEW w \in Workers, work[w].todo # <<>>,
           Head(work[w].todo).kind # "delete"
    PROVE  Alone(w) /\ work[w].kind # "cancel"
<1>1. work[w].kind # "cancel"
  <2> SUFFICES ASSUME work[w].kind = "cancel" PROVE FALSE
    OBVIOUS
  <2>1. PICK c \in Copies : work[w].todo = <<Call("delete", c)>>
    BY DEF HandsInv, CancelsDelete
  <2>2. Call("delete", c) \in Todo /\ Call("delete", c).kind = "delete"
    BY CallTypes
  <2> QED  BY <2>1, <2>2, HasOne
<1>2. Turns /\ Late \subseteq {"cancel"}
  BY LateCancels DEF HandsInv
<1> QED  BY <1>1, <1>2 DEF Turns, Alone

\* The others have but deletes to call for.
LEMMA OthersDelete ==
    ASSUME LenderIInv, HandsInv, Calm, NEW w \in Workers, Alone(w), NEW u \in Workers \ {w}
    PROVE  /\ work[u].hold = NoHold
           /\ \A c : ~Has(work[u].todo, "place", c)
           /\ Late = {} => work[u].todo = <<>>
<1>1. work[u].todo # <<>> => work[u].kind \in Late /\ work[u].kind = "cancel"
  BY LateCancels DEF Alone
<1>2. CASE work[u].todo = <<>>
  BY <1>2, HasNone DEF LenderIInv, AtTarget
<1>3. CASE work[u].todo # <<>>
  <2>1. work[u].hold = NoHold /\ \E c \in Copies : work[u].todo = <<Call("delete", c)>>
    BY <1>1, <1>3 DEF HandsInv, CancelsDelete
  <2>2. PICK c \in Copies : work[u].todo = <<Call("delete", c)>>
    BY <2>1
  <2>3. \A d : ~Has(<<Call("delete", c)>>, "place", d)
    BY OneCall, CallTypes
  <2> QED  BY <1>1, <1>3, <2>1, <2>2, <2>3
<1> QED  BY <1>2, <1>3

\* How many will take a hold back.
LEMMA TakersStep ==
    ASSUME IsFiniteSet(Workers), LenderIInv, NEW w \in Workers, NEW r \in Serving,
           work' = [work EXCEPT ![w] = r], NEW c
    PROVE  /\ Cardinality(Takers(c)) \in Nat /\ Cardinality(Takers(c)') \in Nat
           /\ Cardinality(Takers(c)') + Bit(Takes(work[w].todo, c))
                = Cardinality(Takers(c)) + Bit(Takes(r.todo, c))
<1> DEFINE D == Takers(c) \ {w}
<1>1. work \in [Workers -> Serving]
  BY DEF LenderIInv
<1>2. /\ Takers(c) = D \cup (IF Takes(work[w].todo, c) THEN {w} ELSE {})
      /\ Takers(c)' = D \cup (IF Takes(r.todo, c) THEN {w} ELSE {})
  BY <1>1 DEF Takers
<1>3. IsFiniteSet(D) /\ w \notin D
  BY FS_Subset DEF Takers
<1> HIDE DEF D
<1>4. /\ Cardinality(D) \in Nat /\ Cardinality(D \cup {w}) = Cardinality(D) + 1
      /\ Cardinality(D \cup {}) = Cardinality(D)
  BY <1>3, FS_CardinalityType, FS_AddElement
<1>5. /\ Cardinality(Takers(c)) = Cardinality(D) + Bit(Takes(work[w].todo, c))
      /\ Cardinality(Takers(c)') = Cardinality(D) + Bit(Takes(r.todo, c))
  BY <1>2, <1>4 DEF Bit
<1>6. Bit(Takes(work[w].todo, c)) \in {0, 1} /\ Bit(Takes(r.todo, c)) \in {0, 1}
  BY DEF Bit
<1> QED  BY <1>4, <1>5, <1>6

-----------------------------------------------------------------------------
(* What keeps these invariants.                                            *)

\* A worker goes on, or begins.
LEMMA HandsKeep ==
    ASSUME LenderIInv, HandsInv, Calm, UNCHANGED scene, NEW w \in Workers,
           NEW r \in Serving, work' = [work EXCEPT ![w] = r], Shaped(r.todo),
           r.todo # <<>> => Alone(w) \/ (work[w].todo # <<>> /\ r.kind = work[w].kind),
           r.todo # <<>> /\ r.kind = "cancel" =>
              r.hold = NoHold /\ \E c \in Copies : r.todo = <<Call("delete", c)>>,
           r.hold # NoHold => r.old = hold'[r.hold].current,
           UNCHANGED hold \/ Alone(w), OneClaim', NoCaptures'
    PROVE  HandsInv'
<1>1. work \in [Workers -> Serving] /\ UNCHANGED <<Late, Lost>>
  BY DEF LenderIInv, Late, Lost
<1>2. \A u \in Workers : work'[u] = IF u = w THEN r ELSE work[u]
  BY <1>1
<1>3. \A u \in Workers : Shaped(work'[u].todo)
  BY <1>2 DEF HandsInv
<1>4. Turns'
  BY <1>1, <1>2 DEF HandsInv, Turns, Alone
<1>5. CancelsDelete'
  BY <1>2 DEF HandsInv, CancelsDelete
<1>6. KnowsOld'
  <2>1. \A u \in Workers \ {w} : UNCHANGED hold \/ work[u].hold = NoHold
    BY OthersDelete
  <2> QED  BY <1>2, <2>1 DEF HandsInv, KnowsOld
<1> QED  BY <1>3, <1>4, <1>5, <1>6 DEF HandsInv

\* A worker that had no calls to make plans some, while a hold changes.
LEMMA PlanKeeps ==
    ASSUME IsFiniteSet(Workers), LenderIInv, HandsInv, CountsInv, Calm,
           UNCHANGED <<scene, lender>>, forgotten \subseteq forgotten',
           NEW w \in Workers, Alone(w), NoCalls(work[w].todo),
           NEW r \in Serving, work' = [work EXCEPT ![w] = r],
           \A c \in Connected :
              /\ Has(r.todo, "place", c) => Wanted(c)'
              /\ Patient =>
                    \/ Bit(Wanted(c)') + Bit(Takes(r.todo, c)) <= Bit(Wanted(c)) + Bit(Has(r.todo, "place", c))
                    \/ Late = {} /\ ~Wanted(c)'
              /\ c \notin forgotten' =>
                    Bit(Has(r.todo, "place", c)) + Bit(Wanted(c)) <= Bit(Wanted(c)') + Bit(Takes(r.todo, c))
    PROVE  CountsInv'
<1>1. work \in [Workers -> Serving] /\ UNCHANGED <<Late, Lost, Connected, Patient>>
  BY DEF LenderIInv, Late, Lost, Connected, Patient
<1> SUFFICES ASSUME NEW c \in Connected
             PROVE  /\ ToCall("place", c)' => Wanted(c)'
                    /\ Patient => Enough(c)'
                    /\ Lost = {} /\ c \notin forgotten' => NoMore(c)'
  BY <1>1 DEF CountsInv
<1> DEFINE n == Cardinality(Takers(c))
           m == Cardinality(Takers(c)')
           a == lender[c].asked
           d == Bit(Takes(r.todo, c))
           p == Bit(Has(r.todo, "place", c))
           v == Bit(Wanted(c))
           z == Bit(Wanted(c)')
<1>2. ~Takes(work[w].todo, c) /\ ~Has(work[w].todo, "place", c)
  BY CallTypes DEF NoCalls, Takes
<1>3. ~ToCall("place", c) /\ (ToCall("place", c)' <=> Has(r.todo, "place", c))
  BY <1>1, <1>2, OthersDelete, ToCallHas, ToCallHasNext
<1>4. n \in Nat /\ m \in Nat /\ m + Bit(Takes(work[w].todo, c)) = n + d
  BY TakersStep
<1>5. Bit(Takes(work[w].todo, c)) = 0 /\ Bit(ToCall("place", c)) = 0 /\ Bit(ToCall("place", c)') = p
  BY <1>2, <1>3 DEF Bit
<1>6. a \in Nat /\ lender'[c].asked = a
  BY Copied DEF LenderIInv, TypeOK, Lender
<1>7. Late = {} => n = 0
  <2>1. Late = {} => Takers(c) = {}
    BY <1>2, OthersDelete, HasNone DEF Takers, Takes
  <2> QED  BY <2>1, FS_EmptySet
<1>8. d \in {0, 1} /\ p \in {0, 1} /\ v \in {0, 1} /\ z \in {0, 1}
      /\ (v = 1 <=> Wanted(c)) /\ (z = 1 <=> Wanted(c)')
  BY DEF Bit
<1>9. /\ Enough(c) <=> a + 0 >= n + v \/ (Late = {} /\ ~Wanted(c))
      /\ Enough(c)' <=> a + p >= m + z \/ (Late = {} /\ ~Wanted(c)')
      /\ NoMore(c) <=> a + 0 <= n + v
      /\ NoMore(c)' <=> a + p <= m + z
  BY <1>1, <1>5, <1>6 DEF Enough, NoMore
<1>10. /\ Patient => z + d <= v + p \/ (Late = {} /\ ~Wanted(c)')
       /\ c \notin forgotten' => p + v <= z + d
  OBVIOUS
<1>11. /\ Patient => Enough(c)
       /\ Lost = {} /\ c \notin forgotten => NoMore(c)
  BY DEF CountsInv
<1> HIDE DEF n, m, a, d, p, v, z
<1>12. Patient => Enough(c)'
  BY <1>4, <1>5, <1>6, <1>7, <1>8, <1>9, <1>10, <1>11
<1>13. Lost = {} /\ c \notin forgotten' => NoMore(c)'
  BY <1>4, <1>5, <1>6, <1>8, <1>9, <1>10, <1>11
<1> QED  BY <1>3, <1>12, <1>13

\* A request is taken.
LEMMA RequestKeeps ==
    ASSUME IsFiniteSet(Workers), LenderIInv, HandsInv, CountsInv, Calm,
           UNCHANGED <<scene, lender>>, forgotten \subseteq forgotten',
           NEW w \in Workers, NEW k \in Kinds, Take(w, k),
           NEW todo \in Seq(Todo), Shaped(todo), Then(w, k, todo),
           k = "cancel" /\ todo # <<>> => \E c \in Copies : todo = <<Call("delete", c)>>,
           OneClaim', NoCaptures',
           \A c \in Connected :
              /\ Has(todo, "place", c) => Wanted(c)'
              /\ Patient =>
                    \/ Bit(Wanted(c)') + Bit(Takes(todo, c)) <= Bit(Wanted(c)) + Bit(Has(todo, "place", c))
                    \/ Late = {} /\ ~Wanted(c)'
              /\ c \notin forgotten' =>
                    Bit(Has(todo, "place", c)) + Bit(Wanted(c)) <= Bit(Wanted(c)') + Bit(Takes(todo, c))
    PROVE  HandsInv' /\ CountsInv'
<1>1. PICK r \in Serving : /\ r.hold = NoHold /\ r.todo = todo /\ (todo # <<>> => r.kind = k)
                           /\ work' = [work EXCEPT ![w] = r]
  BY ThenServes
<1>2. Alone(w) /\ NoCalls(work[w].todo)
  BY TakeAlone, TakeIdle, NoneCalled
<1>3. HandsInv'
  BY <1>1, <1>2, HandsKeep
<1>4. \A c \in Connected :
        /\ Has(r.todo, "place", c) => Wanted(c)'
        /\ Patient =>
              \/ Bit(Wanted(c)') + Bit(Takes(r.todo, c)) <= Bit(Wanted(c)) + Bit(Has(r.todo, "place", c))
              \/ Late = {} /\ ~Wanted(c)'
        /\ c \notin forgotten' =>
              Bit(Has(r.todo, "place", c)) + Bit(Wanted(c)) <= Bit(Wanted(c)') + Bit(Takes(r.todo, c))
  BY <1>1
<1>5. CountsInv'
  BY <1>1, <1>2, <1>4, PlanKeeps
<1> QED  BY <1>3, <1>5

\* Another waiting hold wants the copy.
WantedBut(h, c) == \E g \in Holds \ {h} : Wants(g) /\ hold[g].current = c

LEMMA RowWants ==
    ASSUME LenderIInv, UNCHANGED scene, NEW h \in Holds, NEW row,
           hold' = [hold EXCEPT ![h] = row], NEW c \in Connected
    PROVE  /\ Wanted(c) <=> (Waiting(h) /\ hold[h].current = c) \/ WantedBut(h, c)
           /\ Wanted(c)' <=> \/ row.state = "open" /\ ~row.captured /\ row.current = c
                             \/ WantedBut(h, c)
<1>1. hold \in [Holds -> Row] /\ Connected' = Connected
  BY DEF LenderIInv, TypeOK, Connected
<1>2. \A g \in Holds : hold'[g] = IF g = h THEN row ELSE hold[g]
  BY <1>1
<1>3. Wanted(c) <=> (Waiting(h) /\ hold[h].current = c) \/ WantedBut(h, c)
  BY DEF Wanted, WantedBut, Wants
<1>4. Wanted(c)' <=> \E g \in Holds : /\ hold'[g].state = "open" /\ ~hold'[g].captured
                                      /\ hold'[g].current = c
  BY <1>1 DEF Wanted, Wants, Waiting
<1>5. WantedBut(h, c) <=> \E g \in Holds \ {h} : /\ hold[g].state = "open" /\ ~hold[g].captured
                                                 /\ hold[g].current = c
  BY DEF WantedBut, Wants, Waiting
<1> QED  BY <1>2, <1>3, <1>4, <1>5

\* A copy that an open hold has is wanted by no other.
LEMMA OneWants ==
    ASSUME OneClaim, NEW h \in Holds, hold[h].state = "open", NEW c, hold[h].current = c, c # NoCopy
    PROVE  ~WantedBut(h, c)
BY DEF OneClaim, WantedBut, Wants

\* What a change of a hold may do to the claims.
LEMMA ClaimsKeep ==
    ASSUME LenderIInv, UNCHANGED scene, OneClaim, NEW h \in Holds, NEW row,
           hold' = [hold EXCEPT ![h] = row],
           \/ row.state # "open" \/ row.current = NoCopy \/ Claims(row.current) = {}
           \/ /\ hold[h].state = "open" /\ row.current = hold[h].current
              /\ row.captured <=> hold[h].captured
    PROVE  OneClaim'
<1>1. \A g \in Holds : hold'[g] = IF g = h THEN row ELSE hold[g]
  BY DEF LenderIInv, TypeOK
<1> SUFFICES ASSUME NEW g \in Holds, NEW i \in Holds, g # i,
                    hold'[g].state = "open", ~hold'[g].captured, hold'[i].state = "open",
                    hold'[i].current = hold'[g].current, hold'[g].current # NoCopy
             PROVE  FALSE
  BY DEF OneClaim, Waiting
<1>2. CASE g # h /\ i # h
  BY <1>1, <1>2 DEF OneClaim, Waiting
<1>3. CASE g = h
  BY <1>1, <1>3 DEF OneClaim, Waiting, Claims
<1>4. CASE i = h
  BY <1>1, <1>4 DEF OneClaim, Waiting, Claims
<1> QED  BY <1>2, <1>3, <1>4

LEMMA CapturesKeep ==
    ASSUME LenderIInv, UNCHANGED scene, NoCaptures, NEW h \in Holds, NEW row,
           hold' = [hold EXCEPT ![h] = row], row.captured => hold[h].captured
    PROVE  NoCaptures'
<1>1. \A g \in Holds : hold'[g] = IF g = h THEN row ELSE hold[g]
  BY DEF LenderIInv, TypeOK
<1> QED  BY <1>1 DEF NoCaptures, Patient, Late, Lost

\* Nothing happens to the lenders and the calls, and as much is wanted.
LEMMA CountsSame ==
    ASSUME CountsInv, UNCHANGED <<scene, lender, work, forgotten>>,
           \A c \in Connected : Wanted(c)' <=> Wanted(c)
    PROVE  CountsInv'
<1>1. /\ Connected' = Connected /\ Lost' = Lost /\ Late' = Late /\ Patient' = Patient
      /\ Calm' = Calm
  BY DEF Connected, Lost, Late, Patient, Calm, InTurn
<1>2. \A c \in Connected : /\ ToCall("place", c)' <=> ToCall("place", c)
                           /\ Takers(c)' = Takers(c)
  BY DEF ToCall, Takers
<1>3. ASSUME NEW c \in Connected
      PROVE  (Enough(c)' <=> Enough(c)) /\ (NoMore(c)' <=> NoMore(c))
  <2>1. /\ Bit(Wanted(c)') = Bit(Wanted(c)) /\ Bit(ToCall("place", c)') = Bit(ToCall("place", c))
        /\ Cardinality(Takers(c)') = Cardinality(Takers(c))
    BY <1>2 DEF Bit
  <2> QED  BY <1>1, <2>1 DEF Enough, NoMore
<1> QED  BY <1>1, <1>2, <1>3 DEF CountsInv

-----------------------------------------------------------------------------
(* The requests.                                                           *)

LEMMA BeginTargetCounts ==
    ASSUME IsFiniteSet(Workers), LenderIInv, HandsInv, CountsInv, Calm, UNCHANGED scene,
           NEW w \in Workers, NEW h \in Holds, BeginTarget(w, h)
    PROVE  HandsInv' /\ CountsInv'
<1> DEFINE todo == <<Retarget(h)>>
<1>1. /\ UNCHANGED <<hold, lender, forgotten>> /\ Take(w, "target") /\ Then(w, "target", todo)
  BY DEF BeginTarget
<1>2. todo \in Seq(Todo) /\ NoCalls(todo)
  BY OneTarget
<1> HIDE DEF todo
<1>3. Shaped(todo) /\ \A c : ~Has(todo, "place", c) /\ ~Takes(todo, c)
  BY <1>2, CallTypes DEF Shaped, NoCalls, Takes
<1>4. OneClaim' /\ NoCaptures'
  BY <1>1 DEF HandsInv, OneClaim, Waiting, NoCaptures, Patient, Late, Lost
<1>5. \A c \in Connected : Wanted(c)' <=> Wanted(c)
  BY <1>1 DEF Wanted, Wants, Waiting, Connected
<1>6. \A c \in Connected :
        /\ Has(todo, "place", c) => Wanted(c)'
        /\ Bit(Wanted(c)') + Bit(Takes(todo, c)) <= Bit(Wanted(c)) + Bit(Has(todo, "place", c))
        /\ Bit(Has(todo, "place", c)) + Bit(Wanted(c)) <= Bit(Wanted(c)') + Bit(Takes(todo, c))
  BY <1>3, <1>5 DEF Bit
<1> QED  BY <1>1, <1>2, <1>3, <1>4, <1>6, RequestKeeps DEF Kinds

LEMMA CancelCounts ==
    ASSUME IsFiniteSet(Workers), LenderIInv, HandsInv, CountsInv, Calm, UNCHANGED scene,
           NEW w \in Workers, NEW h \in Holds, Cancel(w, h)
    PROVE  HandsInv' /\ CountsInv'
<1> DEFINE cur == hold[h].current
           told == cur # NoCopy /\ ~hold[h].captured
           todo == IF told THEN <<Call("delete", cur)>> ELSE <<>>
           row == [hold[h] EXCEPT !.state = "cancelled"]
<1>1. /\ UNCHANGED <<lender, forgotten>> /\ Take(w, "cancel") /\ Then(w, "cancel", todo)
      /\ hold[h].state = "open" /\ hold' = [hold EXCEPT ![h] = row]
  BY DEF Cancel
<1>2. hold[h] \in Row /\ cur \in Copies \cup {NoCopy}
  BY DEF LenderIInv, TypeOK, Row
<1>3. row.state = "cancelled" /\ row.captured = hold[h].captured
  BY <1>2 DEF Row
<1>4. /\ todo \in Seq(Todo) /\ Shaped(todo)
      /\ \A c : ~Has(todo, "place", c) /\ (Takes(todo, c) <=> told /\ c = cur)
      /\ todo # <<>> => \E c \in Copies : todo = <<Call("delete", c)>>
  <2>1. CASE told
    <3>1. cur \in Copies /\ todo = <<Call("delete", cur)>>
      BY <1>2, <2>1
    <3>2. <<Call("delete", cur)>> \in Seq(Todo) /\ Shaped(<<Call("delete", cur)>>)
          /\ \A j \in CallKinds : \A d : Has(<<Call("delete", cur)>>, j, d) <=> j = "delete" /\ d = cur
      BY <3>1, OneCall, CallTypes
    <3> HIDE DEF todo
    <3> QED  BY <2>1, <3>1, <3>2, CallTypes DEF Takes
  <2>2. CASE ~told
    <3>1. todo = <<>>
      BY <2>2
    <3> HIDE DEF todo
    <3> QED  BY <2>2, <3>1, NoneCalled, HasNone, EmptySeq DEF Takes
  <2> QED  BY <2>1, <2>2
<1> HIDE DEF todo, row
<1>5. OneClaim' /\ NoCaptures'
  BY <1>1, <1>3, ClaimsKeep, CapturesKeep DEF HandsInv
<1>6. ASSUME NEW c \in Connected
      PROVE  /\ Has(todo, "place", c) => Wanted(c)'
             /\ Bit(Wanted(c)') + Bit(Takes(todo, c)) <= Bit(Wanted(c)) + Bit(Has(todo, "place", c))
             /\ Bit(Has(todo, "place", c)) + Bit(Wanted(c)) <= Bit(Wanted(c)') + Bit(Takes(todo, c))
  <2>1. c # NoCopy
    BY Copied
  <2>2. /\ Wanted(c) <=> (Waiting(h) /\ cur = c) \/ WantedBut(h, c)
        /\ Wanted(c)' <=> WantedBut(h, c)
    BY <1>1, <1>3, RowWants
  <2>3. cur = c => ~WantedBut(h, c)
    BY <1>1, <2>1, OneWants DEF HandsInv
  <2>4. Waiting(h) <=> ~hold[h].captured
    BY <1>1 DEF Waiting
  <2>5. (Takes(todo, c) <=> ~hold[h].captured /\ c = cur) /\ ~Has(todo, "place", c)
    BY <1>4, <2>1
  <2> QED  BY <2>2, <2>3, <2>4, <2>5 DEF Bit
<1> QED  BY <1>1, <1>4, <1>5, <1>6, RequestKeeps DEF Kinds

LEMMA UncancelCounts ==
    ASSUME IsFiniteSet(Workers), LenderIInv, HandsInv, CountsInv, Calm, UNCHANGED scene,
           NEW w \in Workers, NEW h \in Holds, Uncancel(w, h)
    PROVE  HandsInv' /\ CountsInv'
<1> DEFINE todo == <<Retarget(h)>>
           row == [current |-> NoCopy, captured |-> FALSE, state |-> "open"]
<1>1. /\ UNCHANGED <<lender, forgotten>> /\ Take(w, "uncancel") /\ Then(w, "uncancel", todo)
      /\ hold[h].state = "cancelled" /\ hold' = [hold EXCEPT ![h] = row]
  BY DEF Uncancel
<1>2. todo \in Seq(Todo) /\ NoCalls(todo)
  BY OneTarget
<1>3. row.current = NoCopy /\ ~row.captured
  OBVIOUS
<1> HIDE DEF todo, row
<1>4. Shaped(todo) /\ \A c : ~Has(todo, "place", c) /\ ~Takes(todo, c)
  BY <1>2, CallTypes DEF Shaped, NoCalls, Takes
<1>5. OneClaim' /\ NoCaptures'
  BY <1>1, <1>3, ClaimsKeep, CapturesKeep DEF HandsInv
<1>6. \A c \in Connected : Wanted(c)' <=> Wanted(c)
  BY <1>1, <1>3, RowWants, Copied DEF Waiting
<1>7. \A c \in Connected :
        /\ Has(todo, "place", c) => Wanted(c)'
        /\ Bit(Wanted(c)') + Bit(Takes(todo, c)) <= Bit(Wanted(c)) + Bit(Has(todo, "place", c))
        /\ Bit(Has(todo, "place", c)) + Bit(Wanted(c)) <= Bit(Wanted(c)') + Bit(Takes(todo, c))
  BY <1>4, <1>6 DEF Bit
<1> QED  BY <1>1, <1>2, <1>4, <1>5, <1>7, RequestKeeps DEF Kinds

LEMMA ResetCounts ==
    ASSUME IsFiniteSet(Workers), LenderIInv, HandsInv, CountsInv, Calm, UNCHANGED scene,
           NEW w \in Workers, NEW h \in Holds, Reset(w, h)
    PROVE  HandsInv' /\ CountsInv'
<1> DEFINE cur == hold[h].current
           todo == (IF cur = NoCopy THEN <<>> ELSE <<Call("delete", cur)>>) \o <<Retarget(h)>>
           row == [hold[h] EXCEPT !.current = NoCopy, !.captured = FALSE]
<1>1. /\ UNCHANGED <<lender, forgotten>> /\ Take(w, "reset") /\ Then(w, "reset", todo)
      /\ hold[h].state = "open" /\ hold' = [hold EXCEPT ![h] = row]
  BY LateCancels DEF Reset
<1>2. hold[h] \in Row /\ cur \in Copies \cup {NoCopy}
  BY DEF LenderIInv, TypeOK, Row
<1>3. row.current = NoCopy /\ ~row.captured
  BY <1>2 DEF Row
<1>4. /\ todo \in Seq(Todo) /\ Shaped(todo)
      /\ \A c : ~Has(todo, "place", c) /\ (Takes(todo, c) <=> cur # NoCopy /\ c = cur)
  <2> DEFINE t == <<Retarget(h)>>
  <2>1. t \in Seq(Todo) /\ NoCalls(t)
    BY OneTarget
  <2> HIDE DEF t
  <2>2. CASE cur # NoCopy
    <3> DEFINE s == <<Call("delete", cur)>> \o t
    <3>1. cur \in Copies /\ todo = s
      BY <1>2, <2>2 DEF t
    <3>2. /\ s \in Seq(Todo) /\ Shaped(s)
          /\ \A j \in CallKinds : \A d : Has(s, j, d) <=> j = "delete" /\ d = cur
      <4>1. "delete" \in CallKinds
        BY CallTypes
      <4> QED  BY <2>1, <3>1, <4>1, CallShaped
    <3> HIDE DEF todo, s
    <3> QED  BY <2>2, <3>1, <3>2, CallTypes DEF Takes
  <2>3. CASE cur = NoCopy
    <3>1. todo = t
      BY <2>1, <2>3, ConcatEmptySeq DEF t
    <3> HIDE DEF todo
    <3> QED  BY <2>1, <2>3, <3>1, CallTypes DEF Shaped, NoCalls, Takes
  <2> QED  BY <2>2, <2>3
<1> HIDE DEF todo, row
<1>5. OneClaim' /\ NoCaptures'
  BY <1>1, <1>3, ClaimsKeep, CapturesKeep DEF HandsInv
<1>6. ASSUME NEW c \in Connected
      PROVE  /\ Has(todo, "place", c) => Wanted(c)'
             /\ Patient =>
                   \/ Bit(Wanted(c)') + Bit(Takes(todo, c)) <= Bit(Wanted(c)) + Bit(Has(todo, "place", c))
                   \/ Late = {} /\ ~Wanted(c)'
             /\ Bit(Has(todo, "place", c)) + Bit(Wanted(c)) <= Bit(Wanted(c)') + Bit(Takes(todo, c))
  <2>1. c # NoCopy
    BY Copied
  <2>2. /\ Wanted(c) <=> (Waiting(h) /\ cur = c) \/ WantedBut(h, c)
        /\ Wanted(c)' <=> WantedBut(h, c)
    BY <1>1, <1>3, <2>1, RowWants
  <2>3. cur = c => ~WantedBut(h, c)
    BY <1>1, <2>1, OneWants DEF HandsInv
  <2>4. Patient /\ Late # {} => Waiting(h)
    BY <1>1 DEF Waiting, HandsInv, NoCaptures
  <2>5. (Takes(todo, c) <=> c = cur) /\ ~Has(todo, "place", c)
    BY <1>4, <2>1
  <2> QED  BY <2>2, <2>3, <2>4, <2>5 DEF Bit
<1> QED  BY <1>1, <1>4, <1>5, <1>6, RequestKeeps DEF Kinds

\* A captured hold is filled: no waiting hold changes.
LEMMA FillCounts ==
    ASSUME LenderIInv, HandsInv, CountsInv, Calm, UNCHANGED scene,
           NEW w \in Workers, NEW h \in Holds, Fill(w, h)
    PROVE  HandsInv' /\ CountsInv'
<1> DEFINE row == [hold[h] EXCEPT !.state = "filled"]
<1>1. /\ UNCHANGED <<lender, forgotten, work>> /\ Take(w, "fill") /\ hold[h].state = "open"
      /\ hold[h].captured /\ hold' = [hold EXCEPT ![h] = row]
  BY DEF Fill
<1>2. row.state = "filled" /\ row.captured = hold[h].captured
  BY DEF LenderIInv, TypeOK, Row
<1> HIDE DEF row
<1>3. OneClaim' /\ NoCaptures'
  BY <1>1, <1>2, ClaimsKeep, CapturesKeep DEF HandsInv
<1>4. KnowsOld'
  <2>1. \A u \in Workers : work[u].hold = NoHold
    BY <1>1, TakeAlone, TakeIdle, OthersDelete
  <2> QED  BY <1>1, <2>1 DEF KnowsOld
<1>5. HandsInv'
  BY <1>1, <1>3, <1>4 DEF HandsInv, Turns, CancelsDelete, Late
<1>6. \A c \in Connected : Wanted(c)' <=> Wanted(c)
  BY <1>1, <1>2, RowWants DEF Waiting
<1>7. CountsInv'
  BY <1>1, <1>6, CountsSame
<1> QED  BY <1>5, <1>7

-----------------------------------------------------------------------------
(* The targeter.                                                           *)

LEMMA FindTargetCounts ==
    ASSUME IsFiniteSet(Workers), LenderIInv, HandsInv, CountsInv, Calm, UNCHANGED scene,
           NEW w \in Workers, FindTarget(w)
    PROVE  HandsInv' /\ CountsInv'
<1> DEFINE todo == work[w].todo
           h == Head(todo).hold
<1>1. /\ UNCHANGED <<hold, lender, forgotten>> /\ work[w].hold = NoHold
      /\ todo # <<>> /\ Head(todo).kind = "target"
      /\ work' = IF hold[h].state # "open" THEN Rid(w)
                 ELSE [work EXCEPT ![w].hold = h, ![w].old = hold[h].current]
  BY DEF FindTarget
<1>2. work \in [Workers -> Serving] /\ todo \in Seq(Todo) /\ Head(todo) \in Todo
  BY <1>1, HasTail DEF LenderIInv, Serving
<1>3. NoCalls(todo) /\ NoCalls(Tail(todo))
  BY <1>1, <1>2, TailShaped DEF HandsInv
<1>4. Alone(w) /\ work[w].kind # "cancel"
  BY <1>1, ServedAlone
<1>5. h \in Holds
  BY <1>1, <1>2, CallTypes DEF Todo
<1>6. \E r \in Serving :
        /\ work' = [work EXCEPT ![w] = r] /\ r.todo \in {todo, Tail(todo)}
        /\ r.todo # <<>> => r.kind = work[w].kind
        /\ r.hold # NoHold => r.old = hold[r.hold].current
  <2>1. CASE hold[h].state # "open"
    BY <1>1, <2>1, RidServes
  <2>2. CASE hold[h].state = "open"
    <3> DEFINE r == [work[w] EXCEPT !.hold = h, !.old = hold[h].current]
    <3>1. hold[h].current \in Copies \cup {NoCopy}
      BY <1>5 DEF LenderIInv, TypeOK, Row
    <3>2. r \in Serving /\ r.todo = todo /\ r.kind = work[w].kind /\ r.hold = h
          /\ r.old = hold[h].current
      BY <1>2, <1>5, <3>1 DEF Serving
    <3>3. work' = [work EXCEPT ![w] = r]
      BY <1>1, <1>2, <2>2
    <3> HIDE DEF r, todo
    <3> QED  BY <3>2, <3>3
  <2> QED  BY <2>1, <2>2
<1> HIDE DEF todo, h
<1>7. PICK r \in Serving :
        /\ work' = [work EXCEPT ![w] = r] /\ r.todo \in {todo, Tail(todo)}
        /\ r.todo # <<>> => r.kind = work[w].kind
        /\ r.hold # NoHold => r.old = hold[r.hold].current
  BY <1>6
<1>8. NoCalls(r.todo) /\ Shaped(r.todo)
  BY <1>3, <1>7 DEF Shaped
<1>9. OneClaim' /\ NoCaptures'
  BY <1>1 DEF HandsInv, OneClaim, Waiting, NoCaptures, Patient, Late, Lost
<1>10. HandsInv'
  BY <1>1, <1>4, <1>7, <1>8, <1>9, HandsKeep
<1>11. \A c \in Connected : Wanted(c)' <=> Wanted(c)
  BY <1>1 DEF Wanted, Wants, Waiting, Connected
<1>12. \A c \in Connected :
         /\ Has(r.todo, "place", c) => Wanted(c)'
         /\ Bit(Wanted(c)') + Bit(Takes(r.todo, c)) <= Bit(Wanted(c)) + Bit(Has(r.todo, "place", c))
         /\ Bit(Has(r.todo, "place", c)) + Bit(Wanted(c)) <= Bit(Wanted(c)') + Bit(Takes(r.todo, c))
  BY <1>8, <1>11, CallTypes DEF Bit, NoCalls, Takes
<1>13. CountsInv'
  BY <1>1, <1>3, <1>4, <1>7, <1>12, PlanKeeps DEF todo
<1> QED  BY <1>10, <1>13

\* The choice is written and its calls are planned.
LEMMA WriteTargetCounts ==
    ASSUME IsFiniteSet(Workers), LenderIInv, HandsInv, CountsInv, Calm, UNCHANGED scene,
           NEW w \in Workers, WriteTarget(w)
    PROVE  HandsInv' /\ CountsInv'
<1> DEFINE h == work[w].hold
           cur == hold[h].current
           rest == Tail(work[w].todo)
           done(todo) == work' = [work EXCEPT ![w] =
               IF todo = <<>> THEN Idle
               ELSE [work[w] EXCEPT !.hold = NoHold, !.old = NoCopy, !.todo = todo]]
<1>1. h # NoHold /\ UNCHANGED <<away, lender>>
  BY DEF WriteTarget
<1>2. /\ work[w] \in Serving /\ h \in Holds /\ work[w].old = cur
      /\ work[w].todo \in Seq(Todo) /\ work[w].todo # <<>> /\ Head(work[w].todo).kind = "target"
  BY <1>1 DEF LenderIInv, AtTarget, Serving, HandsInv, KnowsOld
<1>3. NoCalls(work[w].todo) /\ NoCalls(rest) /\ rest \in Seq(Todo)
  BY <1>2, TailShaped, HasTail DEF HandsInv
<1>4. Alone(w) /\ work[w].kind # "cancel"
  BY <1>2, ServedAlone
<1>5. hold[h] \in Row /\ cur \in Copies \cup {NoCopy}
  BY <1>2 DEF LenderIInv, TypeOK, Row
<1>6. ASSUME NEW todo \in Seq(Todo), Shaped(todo), done(todo), OneClaim', NoCaptures',
             forgotten \subseteq forgotten',
             \A c \in Connected :
                /\ Has(todo, "place", c) => Wanted(c)'
                /\ Bit(Wanted(c)') + Bit(Takes(todo, c)) <= Bit(Wanted(c)) + Bit(Has(todo, "place", c))
                /\ c \notin forgotten' =>
                      Bit(Has(todo, "place", c)) + Bit(Wanted(c)) <= Bit(Wanted(c)') + Bit(Takes(todo, c))
      PROVE  HandsInv' /\ CountsInv'
  <2>1. PICK r \in Serving : /\ r.hold = NoHold /\ r.todo = todo
                             /\ (todo # <<>> => r.kind = work[w].kind)
                             /\ work' = [work EXCEPT ![w] = r]
    BY <1>6, DoneServes
  <2>2. HandsInv'
    BY <1>2, <1>4, <1>6, <2>1, HandsKeep
  <2>3. \A c \in Connected :
          /\ Has(r.todo, "place", c) => Wanted(c)'
          /\ Bit(Wanted(c)') + Bit(Takes(r.todo, c)) <= Bit(Wanted(c)) + Bit(Has(r.todo, "place", c))
          /\ c \notin forgotten' =>
                Bit(Has(r.todo, "place", c)) + Bit(Wanted(c)) <= Bit(Wanted(c)') + Bit(Takes(r.todo, c))
    BY <1>6, <2>1
  <2>4. CountsInv'
    BY <1>1, <1>3, <1>4, <1>6, <2>1, <2>3, PlanKeeps
  <2> QED  BY <2>2, <2>4
<1>7. /\ Shaped(rest)
      /\ \A c : ~Has(rest, "place", c) /\ ~Has(rest, "delete", c) /\ ~Has(rest, "checkout", c)
      /\ \A c : ~Takes(rest, c)
  BY <1>3, CallTypes DEF Shaped, NoCalls, Takes
<1> HIDE DEF rest
<1>8. CASE ~Waiting(h) /\ done(rest) /\ UNCHANGED <<hold, forgotten>>
  <2>1. OneClaim' /\ NoCaptures'
    BY <1>8 DEF HandsInv, OneClaim, Waiting, NoCaptures, Patient, Late, Lost
  <2>2. \A c \in Connected : Wanted(c)' <=> Wanted(c)
    BY <1>8 DEF Wanted, Wants, Waiting, Connected
  <2>3. \A c \in Connected :
          /\ Has(rest, "place", c) => Wanted(c)'
          /\ Bit(Wanted(c)') + Bit(Takes(rest, c)) <= Bit(Wanted(c)) + Bit(Has(rest, "place", c))
          /\ Bit(Has(rest, "place", c)) + Bit(Wanted(c)) <= Bit(Wanted(c)') + Bit(Takes(rest, c))
    BY <1>7, <2>2 DEF Bit
  <2> QED  BY <1>3, <1>6, <1>7, <1>8, <2>1, <2>3
<1>9. ASSUME Waiting(h), NEW row, hold' = [hold EXCEPT ![h] = row], ~row.captured,
             row.state # "open" \/ row.current = NoCopy,
             forgotten' = forgotten \cup ({cur} \ {NoCopy}), done(rest)
      PROVE  HandsInv' /\ CountsInv'
  <2>1. OneClaim' /\ NoCaptures'
    BY <1>2, <1>9, ClaimsKeep, CapturesKeep DEF HandsInv
  <2>2. ASSUME NEW c \in Connected
        PROVE  /\ Has(rest, "place", c) => Wanted(c)'
               /\ Bit(Wanted(c)') + Bit(Takes(rest, c)) <= Bit(Wanted(c)) + Bit(Has(rest, "place", c))
               /\ c \notin forgotten' =>
                     Bit(Has(rest, "place", c)) + Bit(Wanted(c)) <= Bit(Wanted(c)') + Bit(Takes(rest, c))
    <3>1. c # NoCopy
      BY Copied
    <3>2. /\ Wanted(c) <=> cur = c \/ WantedBut(h, c)
          /\ Wanted(c)' <=> WantedBut(h, c)
      BY <1>2, <1>9, <3>1, RowWants
    <3>3. c \notin forgotten' => cur # c
      BY <1>9, <3>1
    <3>4. ~Takes(rest, c) /\ ~Has(rest, "place", c)
      BY <1>7
    <3> QED  BY <3>2, <3>3, <3>4 DEF Bit
  <2>3. forgotten \subseteq forgotten'
    BY <1>9
  <2> QED  BY <1>3, <1>6, <1>7, <1>9, <2>1, <2>2, <2>3
<1>10. ASSUME Waiting(h), NEW b \in Good \cup OldBest(h), hold' = [hold EXCEPT ![h].current = b],
              forgotten' = IF b \in Connected THEN forgotten ELSE forgotten \cup ({cur} \ {NoCopy, b}),
              done(FarCalls(work[w].old, b) \o rest) \/ (b \in OldBest(h) /\ done(rest))
       PROVE  HandsInv' /\ CountsInv'
  <2> DEFINE row == [hold[h] EXCEPT !.current = b]
             todo == FarCalls(cur, b) \o rest
  <2>1. hold' = [hold EXCEPT ![h] = row]
    BY <1>10
  <2>2. row.current = b /\ row.state = "open" /\ ~row.captured
    BY <1>5, <1>10 DEF Row, Waiting
  <2> HIDE DEF row
  <2>3. b \in Copies /\ forgotten \subseteq forgotten'
    BY <1>10, ScenesAssumption DEF LenderIInv, TypeOK, Scene, Good, OldBest, Potential
  <2>4. b = cur \/ Claims(b) = {}
    BY <1>10 DEF Good, OldBest
  <2>5. hold[h].state = "open" /\ ~hold[h].captured
    BY <1>10 DEF Waiting
  <2>6. OneClaim' /\ NoCaptures'
    BY <1>2, <2>1, <2>2, <2>4, <2>5, ClaimsKeep, CapturesKeep DEF HandsInv
  <2>7. /\ todo \in Seq(Todo) /\ Shaped(todo)
        /\ \A d : ~Has(todo, "checkout", d)
        /\ \A d : Has(todo, "delete", d) <=> b \in Connected /\ b # cur /\ d = cur /\ cur # NoCopy
        /\ \A d : Has(todo, "place", d) <=> b \in Connected /\ b # cur /\ d = b
    <3>1. LET s == FarCalls(cur, b) \o rest
          IN  /\ s \in Seq(Todo) /\ Shaped(s)
              /\ \A d : ~Has(s, "checkout", d)
              /\ \A d : Has(s, "delete", d) <=> /\ b \in Connected /\ b # cur
                                                /\ d = cur /\ cur # NoCopy
              /\ \A d : Has(s, "place", d) <=> b \in Connected /\ b # cur /\ d = b
      BY <1>3, <1>5, <2>3, FarShaped
    <3> QED  BY <3>1
  <2>8. b = cur => todo = rest
    BY <1>3, ConcatEmptySeq DEF FarCalls
  <2>9. done(todo)
    BY <1>2, <1>10, <2>8 DEF OldBest
  <2> HIDE DEF todo
  <2>10. ASSUME NEW c \in Connected
         PROVE  /\ Has(todo, "place", c) => Wanted(c)'
                /\ Bit(Wanted(c)') + Bit(Takes(todo, c)) <= Bit(Wanted(c)) + Bit(Has(todo, "place", c))
                /\ c \notin forgotten' =>
                      Bit(Has(todo, "place", c)) + Bit(Wanted(c)) <= Bit(Wanted(c)') + Bit(Takes(todo, c))
    <3>1. c # NoCopy
      BY Copied
    <3>2. /\ Wanted(c) <=> cur = c \/ WantedBut(h, c)
          /\ Wanted(c)' <=> b = c \/ WantedBut(h, c)
      BY <1>2, <1>10, <2>1, <2>2, <3>1, RowWants
    <3>3. cur = c => ~WantedBut(h, c)
      BY <1>2, <2>5, <3>1, OneWants DEF HandsInv
    <3>4. b = c /\ b # cur => ~WantedBut(h, c)
      BY <2>4 DEF WantedBut, Claims, Wants, Waiting
    <3>5. /\ Takes(todo, c) <=> b \in Connected /\ b # cur /\ c = cur
          /\ Has(todo, "place", c) <=> b \in Connected /\ b # cur /\ c = b
      BY <2>7, <3>1 DEF Takes
    <3>6. c \notin forgotten' /\ b \notin Connected => cur # c
      BY <1>10, <3>1
    <3> QED  BY <3>2, <3>3, <3>4, <3>5, <3>6 DEF Bit
  <2> QED  BY <1>6, <2>3, <2>6, <2>7, <2>9, <2>10
<1>11. CASE /\ Waiting(h) /\ hold' = [hold EXCEPT ![h].state = "cancelled"]
            /\ forgotten' = forgotten \cup ({cur} \ {NoCopy}) /\ done(rest)
  <2> DEFINE row == [hold[h] EXCEPT !.state = "cancelled"]
  <2>1. row.state = "cancelled" /\ ~row.captured /\ hold' = [hold EXCEPT ![h] = row]
    BY <1>5, <1>11 DEF Row, Waiting
  <2> HIDE DEF row
  <2> QED  BY <1>9, <1>11, <2>1
<1>12. CASE /\ Waiting(h)
            /\ \E s \in {"open", "cancelled"} :
                  hold' = [hold EXCEPT ![h].current = NoCopy, ![h].state = s]
            /\ forgotten' = forgotten \cup ({cur} \ {NoCopy}) /\ done(rest)
  <2>1. PICK s \in {"open", "cancelled"} :
          hold' = [hold EXCEPT ![h].current = NoCopy, ![h].state = s]
    BY <1>12
  <2> DEFINE row == [hold[h] EXCEPT !.current = NoCopy, !.state = s]
  <2>2. hold' = [hold EXCEPT ![h] = row]
    BY <2>1
  <2>3. row.current = NoCopy /\ ~row.captured
    BY <1>5, <1>12 DEF Row, Waiting
  <2> HIDE DEF row
  <2> QED  BY <1>9, <1>12, <2>2, <2>3
<1>13. \/ ~Waiting(h) /\ done(rest) /\ UNCHANGED <<hold, forgotten>>
       \/ /\ Waiting(h) /\ hold' = [hold EXCEPT ![h].state = "cancelled"]
          /\ forgotten' = forgotten \cup ({cur} \ {NoCopy}) /\ done(rest)
       \/ /\ Waiting(h)
          /\ \E s \in {"open", "cancelled"} :
                hold' = [hold EXCEPT ![h].current = NoCopy, ![h].state = s]
          /\ forgotten' = forgotten \cup ({cur} \ {NoCopy}) /\ done(rest)
       \/ /\ Waiting(h)
          /\ \E b \in Good \cup OldBest(h) :
                /\ hold' = [hold EXCEPT ![h].current = b]
                /\ forgotten' = IF b \in Connected THEN forgotten
                                ELSE forgotten \cup ({cur} \ {NoCopy, b})
                /\ done(FarCalls(work[w].old, b) \o rest) \/ (b \in OldBest(h) /\ done(rest))
  BY DEF WriteTarget, rest
<1> QED  BY ZenonT(30), <1>8, <1>10, <1>11, <1>12, <1>13

-----------------------------------------------------------------------------
(* Loans and returns.                                                      *)

\* Nothing is wanted of a copy that goes to a hold; who had the hold's old target is
\* forgotten.
LEMMA CaptureForCounts ==
    ASSUME IsFiniteSet(Workers), LenderIInv, HandsInv, CountsInv, Calm,
           UNCHANGED <<scene, lender>>, NEW w \in Workers, NEW k \in {"capture", "receive"},
           NEW h \in Holds, NEW c \in Copies, NEW call \in {"checkout", "checkin"},
           Waiting(h), Take(w, k), CaptureFor(w, k, h, c, call)
    PROVE  HandsInv' /\ CountsInv'
<1> DEFINE others == {g \in Holds \ {h} : Waiting(g) /\ hold[g].current = c}
           cur == hold[h].current
           t == Listed(others)
           todo == <<Call(call, c)>> \o t
<1>1. /\ hold' = [g \in Holds |->
              IF g = h THEN [hold[g] EXCEPT !.current = c, !.captured = TRUE]
              ELSE IF g \in others THEN [hold[g] EXCEPT !.current = NoCopy] ELSE hold[g]]
      /\ forgotten' = forgotten \cup ({cur} \ {NoCopy, c})
                                \cup (IF call = "checkout" THEN {} ELSE {c})
      /\ Then(w, k, todo)
  BY DEF CaptureFor, Listed
<1>2. hold \in [Holds -> Row] /\ hold[h] \in Row
  BY DEF LenderIInv, TypeOK
<1>3. /\ hold'[h].current = c /\ hold'[h].captured
      /\ \A g \in Holds \ {h} : IF Waiting(g) /\ hold[g].current = c
                                THEN hold'[g].current = NoCopy
                                ELSE hold'[g] = hold[g]
  <2>1. \A g \in Holds : hold[g] \in Row
    BY <1>2
  <2> QED  BY <1>1, <2>1 DEF Row
<1>4. /\ todo \in Seq(Todo) /\ Shaped(todo)
      /\ \A d : ~Has(todo, "place", d) /\ (Takes(todo, d) <=> call = "checkout" /\ d = c)
  <2>1. others \subseteq Holds
    OBVIOUS
  <2> HIDE DEF others
  <2>2. t \in Seq(Todo) /\ NoCalls(t)
    BY <2>1, Retargets DEF NoCalls
  <2> HIDE DEF t
  <2>3. call \in CallKinds
    BY CallTypes
  <2>4. LET s == <<Call(call, c)>> \o t
        IN  /\ s \in Seq(Todo) /\ s # <<>> /\ Shaped(s)
            /\ \A j \in CallKinds : \A d : Has(s, j, d) <=> j = call /\ d = c
    BY <2>2, <2>3, CallShaped
  <2>5. /\ todo \in Seq(Todo) /\ Shaped(todo)
        /\ \A j \in CallKinds : \A d : Has(todo, j, d) <=> j = call /\ d = c
    BY <2>4
  <2> HIDE DEF todo
  <2> QED  BY <2>5, CallTypes DEF Takes
<1> HIDE DEF todo, others
<1>5. k \in scene.asks /\ (Patient => Late = {})
  BY TakeAlone DEF Patient
<1>6. OneClaim'
  <2> SUFFICES ASSUME NEW g \in Holds, NEW i \in Holds, g # i,
                      hold'[g].state = "open", ~hold'[g].captured, hold'[i].state = "open",
                      hold'[i].current = hold'[g].current, hold'[g].current # NoCopy
               PROVE  FALSE
    BY DEF OneClaim, Waiting
  <2>1. g # h /\ hold'[g] = hold[g] /\ hold[g].current # c
    BY <1>3 DEF Waiting
  <2>2. i # h /\ hold'[i] = hold[i]
    BY <1>3, <2>1
  <2> QED  BY <2>1, <2>2 DEF HandsInv, OneClaim, Waiting
<1>7. NoCaptures'
  BY <1>5 DEF NoCaptures, Patient, Late, Lost
<1>8. Connected' = Connected
  BY DEF Connected
<1>9. ASSUME NEW d \in Connected
      PROVE  /\ Has(todo, "place", d) => Wanted(d)'
             /\ Patient =>
                   \/ Bit(Wanted(d)') + Bit(Takes(todo, d)) <= Bit(Wanted(d)) + Bit(Has(todo, "place", d))
                   \/ Late = {} /\ ~Wanted(d)'
             /\ d \notin forgotten' =>
                   Bit(Has(todo, "place", d)) + Bit(Wanted(d)) <= Bit(Wanted(d)') + Bit(Takes(todo, d))
  <2>1. d # NoCopy
    BY Copied
  <2>2. /\ Wanted(d)' <=> \E g \in Holds : /\ hold'[g].state = "open" /\ ~hold'[g].captured
                                           /\ hold'[g].current = d
        /\ Wanted(d) <=> \E g \in Holds : Waiting(g) /\ hold[g].current = d
    BY <1>8 DEF Wanted, Wants, Waiting
  <2>3. CASE d = c
    <3>1. ~Wanted(d)'
      BY <1>3, <2>1, <2>2, <2>3 DEF Waiting
    <3>2. d \notin forgotten' => call = "checkout"
      BY <1>1, <2>3
    <3> QED  BY <1>4, <1>5, <2>3, <3>1, <3>2 DEF Bit
  <2>4. CASE d # c /\ d = cur
    <3>1. ~Wanted(d)'
      <4> SUFFICES ASSUME NEW g \in Holds, hold'[g].state = "open", ~hold'[g].captured,
                          hold'[g].current = d
                   PROVE  FALSE
        BY <2>2
      <4>1. g # h /\ hold'[g] = hold[g]
        BY <1>3, <2>1, <2>4
      <4> QED  BY <2>1, <2>4, <4>1 DEF HandsInv, OneClaim, Waiting
    <3>2. d \in forgotten'
      BY <1>1, <2>1, <2>4
    <3> QED  BY <1>4, <1>5, <2>4, <3>1, <3>2
  <2>5. CASE d # c /\ d # cur
    <3>1. ASSUME NEW g \in Holds
          PROVE  /\ hold'[g].state = "open" /\ ~hold'[g].captured /\ hold'[g].current = d
                 <=> Waiting(g) /\ hold[g].current = d
      <4>1. CASE g = h
        BY <1>3, <2>5, <4>1
      <4>2. CASE g # h
        BY <1>3, <2>1, <2>5, <4>2 DEF Waiting
      <4> QED  BY <4>1, <4>2
    <3>2. Wanted(d)' <=> Wanted(d)
      BY <2>2, <3>1
    <3> QED  BY <1>4, <2>5, <3>2 DEF Bit
  <2> QED  BY <2>3, <2>4, <2>5
<1>10. forgotten \subseteq forgotten' /\ k \in Kinds /\ k # "cancel"
  BY <1>1 DEF Kinds
<1> QED  BY <1>1, <1>4, <1>6, <1>7, <1>9, <1>10, RequestKeeps

\* The holds stay as they are.
LEMMA SameHolds ==
    ASSUME HandsInv, Calm, UNCHANGED <<scene, hold>>
    PROVE  OneClaim' /\ NoCaptures' /\ \A c \in Connected : Wanted(c)' <=> Wanted(c)
<1>1. OneClaim' /\ NoCaptures'
  BY DEF HandsInv, OneClaim, Waiting, NoCaptures, Patient, Late, Lost
<1>2. \A c \in Connected : Wanted(c)' <=> Wanted(c)
  BY DEF Wanted, Wants, Waiting, Connected
<1> QED  BY <1>1, <1>2

LEMMA CaptureCounts ==
    ASSUME IsFiniteSet(Workers), LenderIInv, HandsInv, CountsInv, Calm, UNCHANGED scene,
           NEW w \in Workers, NEW c \in Copies, Capture(w, c)
    PROVE  HandsInv' /\ CountsInv'
<1>1. Take(w, "capture") /\ UNCHANGED lender
  BY DEF Capture
<1>2. ASSUME NEW h \in Candidates(c), CaptureFor(w, "capture", h, c, "checkout")
      PROVE  HandsInv' /\ CountsInv'
  <2>1. h \in Holds /\ Waiting(h)
    BY DEF Candidates
  <2> QED  BY <1>1, <1>2, <2>1, CaptureForCounts
<1>3. ASSUME Candidates(c) = {}, Then(w, "capture", <<Call("checkout", c)>>),
             UNCHANGED <<hold, away, forgotten>>
      PROVE  HandsInv' /\ CountsInv'
  <2> DEFINE todo == <<Call("checkout", c)>>
  <2>1. /\ todo \in Seq(Todo) /\ Shaped(todo) /\ Then(w, "capture", todo)
        /\ \A j \in CallKinds : \A d : Has(todo, j, d) <=> j = "checkout" /\ d = c
    BY <1>3, OneCall, CallTypes
  <2> HIDE DEF todo
  <2>2. \A d : ~Has(todo, "place", d) /\ (Takes(todo, d) <=> d = c)
    BY <2>1, CallTypes DEF Takes
  <2>3. OneClaim' /\ NoCaptures' /\ \A d \in Connected : Wanted(d)' <=> Wanted(d)
    BY <1>3, SameHolds
  <2>4. ~Wanted(c) /\ (Patient => Late = {})
    BY <1>1, <1>3, TakeAlone DEF Wanted, Wants, Candidates, Patient
  <2>5. \A d \in Connected :
          /\ Has(todo, "place", d) => Wanted(d)'
          /\ Patient =>
                \/ Bit(Wanted(d)') + Bit(Takes(todo, d)) <= Bit(Wanted(d)) + Bit(Has(todo, "place", d))
                \/ Late = {} /\ ~Wanted(d)'
          /\ Bit(Has(todo, "place", d)) + Bit(Wanted(d)) <= Bit(Wanted(d)') + Bit(Takes(todo, d))
    BY <2>2, <2>3, <2>4 DEF Bit
  <2> QED  BY <1>1, <1>3, <2>1, <2>3, <2>5, RequestKeeps DEF Kinds
<1> QED  BY <1>2, <1>3 DEF Capture

LEMMA ReceiveCounts ==
    ASSUME IsFiniteSet(Workers), LenderIInv, HandsInv, CountsInv, Calm, UNCHANGED scene,
           NEW w \in Workers, NEW c \in Copies, Receive(w, c)
    PROVE  HandsInv' /\ CountsInv'
<1>1. Take(w, "receive") /\ UNCHANGED lender
  BY DEF Receive
<1>2. ASSUME NEW h \in Candidates(c), CaptureFor(w, "receive", h, c, "checkin")
      PROVE  HandsInv' /\ CountsInv'
  <2>1. h \in Holds /\ Waiting(h)
    BY DEF Candidates
  <2> QED  BY <1>1, <1>2, <2>1, CaptureForCounts
<1>3. ASSUME Then(w, "receive", <<Call("checkin", c)>>), UNCHANGED <<hold, forgotten>>
      PROVE  HandsInv' /\ CountsInv'
  <2> DEFINE todo == <<Call("checkin", c)>>
  <2>1. /\ todo \in Seq(Todo) /\ Shaped(todo) /\ Then(w, "receive", todo)
        /\ \A j \in CallKinds : \A d : Has(todo, j, d) <=> j = "checkin" /\ d = c
    BY <1>3, OneCall, CallTypes
  <2> HIDE DEF todo
  <2>2. \A d : ~Has(todo, "place", d) /\ ~Takes(todo, d)
    BY <2>1, CallTypes DEF Takes
  <2>3. OneClaim' /\ NoCaptures' /\ \A d \in Connected : Wanted(d)' <=> Wanted(d)
    BY <1>3, SameHolds
  <2>4. \A d \in Connected :
          /\ Has(todo, "place", d) => Wanted(d)'
          /\ Bit(Wanted(d)') + Bit(Takes(todo, d)) <= Bit(Wanted(d)) + Bit(Has(todo, "place", d))
          /\ Bit(Has(todo, "place", d)) + Bit(Wanted(d)) <= Bit(Wanted(d)') + Bit(Takes(todo, d))
    BY <2>2, <2>3 DEF Bit
  <2> QED  BY <1>1, <1>3, <2>1, <2>3, <2>4, RequestKeeps DEF Kinds
<1> QED  BY <1>2, <1>3 DEF Receive

-----------------------------------------------------------------------------
(* The calls.                                                              *)

\* How many holds a lender has after a call.
LEMMA AnswersCount ==
    ASSUME NEW k \in CallKinds, NEW l \in Lender, NEW m \in Answers(k, l)
    PROVE  /\ m \in Lender /\ l.asked \in Nat /\ m.asked \in Nat
           /\ k = "place" => /\ m.asked = l.asked \/ m.asked = l.asked + 1
                             /\ m.asked = l.asked =>
                                   l.asked = MaxAsked \/ (scene.refusing /\ l.asked > 0)
           /\ k \in {"delete", "checkout"} => m.asked = Less(l.asked)
           /\ k = "checkin" => m.asked = l.asked
<1>1. MaxAsked \in Nat /\ l.asked \in 0..MaxAsked /\ l.lent \in BOOLEAN
  BY ScenesAssumption DEF Lender
<1>2. m \in Lender /\ m.asked \in 0..MaxAsked
  BY <1>1, AnswersTypes DEF Lender
<1>3. k = "place" => /\ m.asked = l.asked \/ m.asked = l.asked + 1
                     /\ m.asked = l.asked =>
                           l.asked = MaxAsked \/ (scene.refusing /\ l.asked > 0)
  BY <1>1 DEF Answers, Placed, Lender
<1>4. k = "delete" => m.asked = Less(l.asked)
  BY <1>1 DEF Answers, Lender
<1>5. k = "checkout" => m.asked = Less(l.asked)
  BY DEF Answers
<1>6. k = "checkin" => m.asked = l.asked
  BY <1>1 DEF Answers, Lender
<1> QED  BY <1>1, <1>2, <1>3, <1>4, <1>5, <1>6

LEMMA MakeCallCounts ==
    ASSUME IsFiniteSet(Workers), LenderIInv, HandsInv, CountsInv, Calm, UNCHANGED scene,
           NEW w \in Workers, MakeCall(w)
    PROVE  HandsInv' /\ CountsInv'
<1> DEFINE todo == work[w].todo
           k == Head(todo).kind
           c == Head(todo).copy
           rest == Tail(todo)
<1>1. /\ work[w].hold = NoHold /\ todo # <<>> /\ k \in CallKinds
      /\ UNCHANGED <<hold, away, forgotten>> /\ work' = Rid(w)
      /\ \E l \in (IF c \in Connected THEN Answers(k, lender[c]) ELSE {lender[c]})
                   \cup (IF k \in Lost THEN {lender[c]} ELSE {}) :
             lender' = [lender EXCEPT ![c] = l]
  BY DEF MakeCall
<1>2. /\ work \in [Workers -> Serving] /\ todo \in Seq(Todo) /\ Head(todo) \in Todo
      /\ \A kk, d : Has(todo, kk, d) <=> (k = kk /\ c = d) \/ Has(rest, kk, d)
  BY <1>1, HasTail DEF LenderIInv, Serving
<1>3. c \in Copies
  BY <1>1, <1>2, CallTypes DEF Todo
<1>4. PICK r \in Serving : /\ r.hold = NoHold /\ r.todo = rest
                           /\ (r.todo # <<>> => r.kind = work[w].kind)
                           /\ work' = [work EXCEPT ![w] = r]
  BY <1>1, RidServes
<1>5. PICK l : /\ l \in (IF c \in Connected THEN Answers(k, lender[c]) ELSE {lender[c]})
                         \cup (IF k \in Lost THEN {lender[c]} ELSE {})
               /\ lender' = [lender EXCEPT ![c] = l]
  BY <1>1
<1>6. lender \in [Copies -> Lender] /\ lender[c] \in Lender
  BY <1>3 DEF LenderIInv, TypeOK
<1>7. /\ Shaped(rest)
      /\ k \in {"place", "checkout", "checkin"} => NoCalls(rest)
      /\ k = "delete" => \A d : ~Takes(rest, d)
  BY <1>1, <1>2, TailShaped DEF HandsInv
<1>8. k # "delete" => Alone(w) /\ work[w].kind # "cancel"
  BY <1>1, ServedAlone
<1>9. work[w].kind = "cancel" => rest = <<>>
  <2> SUFFICES ASSUME work[w].kind = "cancel" PROVE rest = <<>>
    OBVIOUS
  <2>1. PICK d \in Copies : todo = <<Call("delete", d)>>
    BY <1>1 DEF HandsInv, CancelsDelete
  <2> QED  BY <2>1
<1> HIDE DEF rest, todo, k, c
<1>10. OneClaim' /\ NoCaptures' /\ \A d \in Connected : Wanted(d)' <=> Wanted(d)
  BY <1>1, SameHolds
<1>11. HandsInv'
  BY <1>1, <1>4, <1>7, <1>9, <1>10, HandsKeep DEF todo
<1>12. Connected' = Connected /\ Lost' = Lost /\ Late' = Late /\ Patient' = Patient
  BY DEF Connected, Lost, Late, Patient
<1>13. ASSUME NEW d \in Connected
       PROVE  /\ ToCall("place", d)' => Wanted(d)'
              /\ Patient => Enough(d)'
              /\ Lost = {} /\ d \notin forgotten => NoMore(d)'
  <2> DEFINE n == Cardinality(Takers(d))
             m == Cardinality(Takers(d)')
             a == lender[d].asked
             b == lender'[d].asked
             p == Bit(ToCall("place", d))
             q == Bit(ToCall("place", d)')
             v == Bit(Wanted(d))
             x == Bit(Takes(todo, d))
             y == Bit(Takes(rest, d))
  <2>1. n \in Nat /\ m \in Nat /\ m + x = n + y
    BY <1>4, TakersStep DEF todo
  <2>2. a \in Nat /\ b \in Nat
    <3>1. d \in Copies /\ lender' \in [Copies -> Lender]
      <4>1. l \in Lender
        BY <1>1, <1>5, <1>6, AnswersCount
      <4> QED  BY <1>5, <1>6, <4>1, Copied
    <3> QED  BY <1>6, <3>1 DEF Lender
  <2>3. /\ p \in {0, 1} /\ q \in {0, 1} /\ v \in {0, 1} /\ x \in {0, 1} /\ y \in {0, 1}
        /\ (p = 1 <=> ToCall("place", d)) /\ (q = 1 <=> ToCall("place", d)')
        /\ (v = 1 <=> Wanted(d)) /\ Bit(Wanted(d)') = v
        /\ (x = 1 <=> Takes(todo, d)) /\ (y = 1 <=> Takes(rest, d))
    BY <1>10 DEF Bit
  <2>4. /\ ToCall("place", d) => Wanted(d)
        /\ Patient => Enough(d)
        /\ Lost = {} /\ d \notin forgotten => NoMore(d)
    BY DEF CountsInv
  <2>5. /\ Enough(d) <=> a + p >= n + v \/ (Late = {} /\ ~Wanted(d))
        /\ Enough(d)' <=> b + q >= m + v \/ (Late = {} /\ ~Wanted(d))
        /\ NoMore(d) <=> a + p <= n + v
        /\ NoMore(d)' <=> b + q <= m + v
    BY <1>10, <1>12, <2>3 DEF Enough, NoMore
  <2>6. ToCall("place", d)' => ToCall("place", d)
    BY <1>2, <1>4, ToCallHas, ToCallHasNext DEF todo
  <2>7. ToCall("place", d) /\ ~(k = "place" /\ d = c) => ToCall("place", d)'
    BY <1>2, <1>4, ToCallHas, ToCallHasNext DEF todo
  <2>8. ~Takes(todo, d) \/ k \in {"delete", "checkout"} => ~Takes(rest, d)
    BY <1>2, <1>7, CallTypes DEF NoCalls, Takes
  <2>9. Takes(todo, d) <=> (k \in {"delete", "checkout"} /\ d = c) \/ Takes(rest, d)
    BY <1>2, CallTypes DEF Takes
  <2>10. d # c => b = a
    BY <1>5, <1>6, Copied
  <2>11. d = c => \/ l \in Answers(k, lender[d])
                  \/ k \in Lost /\ l = lender[d]
    BY <1>5
  <2>12. d = c => b = l.asked
    BY <1>3, <1>5, <1>6
  <2>13. d = c /\ l \in Answers(k, lender[d]) =>
           /\ k = "place" => /\ b = a \/ b = a + 1
                             /\ b = a => a = MaxAsked \/ (scene.refusing /\ a > 0)
           /\ k \in {"delete", "checkout"} => b = Less(a)
           /\ k = "checkin" => b = a
    BY <1>1, <1>6, <2>12, AnswersCount
  <2>14. d = c /\ l = lender[d] => b = a
    BY <2>12
  <2> HIDE DEF n, m, a, b, p, q, v, x, y
  <2>15. CASE ~(d = c /\ k \in {"delete", "checkout", "place"})
    <3>1. b = a
      BY <1>1, <2>10, <2>11, <2>13, <2>14, <2>15 DEF CallKinds
    <3>2. p = q
      BY <2>3, <2>6, <2>7, <2>15
    <3>3. x = y
      BY <2>3, <2>9, <2>15
    <3>4. m = n
      BY <2>1, <2>3, <3>3
    <3> QED  BY <1>10, <2>4, <2>5, <2>6, <3>1, <3>2, <3>4
  <2>16. CASE d = c /\ k \in {"delete", "checkout"}
    <3>1. p = q
      BY <2>3, <2>6, <2>7, <2>16
    <3>2. x = 1 /\ y = 0
      BY <2>3, <2>8, <2>9, <2>16
    <3>3. m + 1 = n
      BY <2>1, <3>2
    <3>4. (b = Less(a) \/ b = a) /\ (Lost = {} => b = Less(a))
      BY <2>11, <2>13, <2>14, <2>16
    <3>5. (a = 0 => Less(a) = 0) /\ (a > 0 => Less(a) = a - 1)
      BY <2>2 DEF Less
    <3>6. p = 1 => v = 1
      BY <2>3, <2>4
    <3>7. Patient => Enough(d)'
      BY <2>1, <2>2, <2>3, <2>4, <2>5, <3>1, <3>3, <3>4, <3>5
    <3>8. Lost = {} /\ d \notin forgotten => NoMore(d)'
      BY <2>1, <2>2, <2>3, <2>4, <2>5, <3>1, <3>3, <3>4, <3>5, <3>6
    <3> QED  BY <1>10, <2>4, <2>6, <3>7, <3>8
  <2>17. CASE d = c /\ k = "place"
    <3>1. ToCall("place", d) /\ Wanted(d)
      BY <1>2, <2>4, <2>17, ToCallHas DEF todo
    <3>2. ~ToCall("place", d)'
      <4>1. ~Has(rest, "place", d)
        BY <1>7, <2>17, CallTypes DEF NoCalls
      <4>2. \A u \in Workers \ {w} : ~Has(work[u].todo, "place", d)
        BY <1>8, <2>17, OthersDelete
      <4> QED  BY <1>2, <1>4, <4>1, <4>2, ToCallHasNext
    <3>3. p = 1 /\ q = 0 /\ v = 1
      BY <2>3, <3>1, <3>2
    <3>4. ~Takes(rest, d) /\ ~Takes(todo, d)
      BY <1>7, <2>9, <2>17, CallTypes DEF NoCalls, Takes
    <3>5. m = n
      BY <2>1, <2>3, <3>4
    <3>6. n < Cardinality(Workers) /\ Cardinality(Workers) \in Nat
      <4>1. Takers(d) \subseteq Workers /\ Takers(d) # Workers
        BY <3>4 DEF Takers, todo
      <4> QED  BY <4>1, FS_Subset, FS_CardinalityType, <2>1 DEF n
    <3>7. Patient => /\ "place" \notin Lost /\ (Late = {} \/ ~scene.refusing)
                     /\ MaxAsked >= Cardinality(Workers)
      BY DEF Patient
    <3>8. Late = {} => n = 0
      <4>1. Late = {} => Takers(d) = {}
        BY <1>8, <2>17, <3>4, OthersDelete, HasNone DEF Takers, Takes, todo
      <4> QED  BY <4>1, FS_EmptySet DEF n
    <3>9. MaxAsked \in Nat
      BY ScenesAssumption
    <3>10. Patient => /\ b = a \/ b = a + 1
                      /\ b = a => a = MaxAsked \/ (scene.refusing /\ a > 0)
      BY <2>11, <2>13, <2>17, <3>7
    <3>11. Lost = {} => b = a \/ b = a + 1
      BY <2>11, <2>13, <2>17
    <3>12. Patient => b >= n + 1
      <4> SUFFICES ASSUME Patient PROVE b >= n + 1
        OBVIOUS
      <4>1. a + 1 >= n + 1
        BY <2>4, <2>5, <3>1, <3>3
      <4>2. CASE b = a + 1
        BY <2>1, <2>2, <4>1, <4>2
      <4>3. CASE b = a /\ a = MaxAsked
        BY <2>1, <2>2, <3>6, <3>7, <3>9, <4>3
      <4>4. CASE b = a /\ scene.refusing /\ a > 0
        BY <2>2, <3>7, <3>8, <4>4
      <4> QED  BY <3>10, <4>2, <4>3, <4>4
    <3>13. Patient => Enough(d)'
      BY <2>1, <2>2, <2>5, <3>3, <3>5, <3>12
    <3>14. Lost = {} /\ d \notin forgotten => NoMore(d)'
      BY <2>1, <2>2, <2>4, <2>5, <3>3, <3>5, <3>11
    <3> QED  BY <3>2, <3>13, <3>14
  <2> QED  BY <2>15, <2>16, <2>17
<1>14. CountsInv'
  BY <1>1, <1>12, <1>13 DEF CountsInv
<1> QED  BY <1>11, <1>14

-----------------------------------------------------------------------------

LEMMA CountsInit == Init => HandsInv /\ CountsInv
<1> SUFFICES ASSUME Init PROVE HandsInv /\ CountsInv
  OBVIOUS
<1>1. \A w \in Workers : work[w].todo = <<>> /\ work[w].hold = NoHold
  BY DEF Init, Idle
<1>2. \A h \in Holds : hold[h].current = NoCopy /\ ~hold[h].captured
  BY DEF Init
<1>3. HandsInv
  BY <1>1, <1>2, NoneCalled DEF HandsInv, Turns, CancelsDelete, KnowsOld, OneClaim, NoCaptures
<1>4. ASSUME NEW c \in Connected
      PROVE  /\ ~ToCall("place", c) /\ ~Wanted(c) /\ Takers(c) = {} /\ lender[c].asked = 0
  <2>1. c \in Copies /\ c # NoCopy
    BY NullsAssumption, ScenesAssumption DEF Init, Scene, Connected
  <2>2. ~ToCall("place", c) /\ Takers(c) = {}
    BY <1>1, HasNone, ToCallHas DEF Takers, Takes
  <2>3. ~Wanted(c) /\ lender[c].asked = 0
    BY <1>2, <2>1 DEF Init, Wanted
  <2> QED  BY <2>2, <2>3
<1>5. \A c \in Connected : Enough(c) /\ NoMore(c)
  BY <1>4, FS_EmptySet DEF Enough, NoMore, Bit
<1> QED  BY <1>3, <1>4, <1>5 DEF CountsInv

LEMMA CountsStep ==
    ASSUME IsFiniteSet(Workers)
    PROVE  LenderIInv /\ HandsInv /\ CountsInv /\ [Next]_vars => HandsInv' /\ CountsInv'
<1> SUFFICES ASSUME LenderIInv, HandsInv, CountsInv, [Next]_vars PROVE HandsInv' /\ CountsInv'
  OBVIOUS
<1>1. CASE UNCHANGED vars
  <2>1. UNCHANGED <<scene, hold, away, lender, work, forgotten>>
    BY <1>1 DEF vars
  <2>2. Calm' = Calm
    BY <2>1 DEF Calm, InTurn, Late
  <2>3. HandsInv'
    BY <2>1, <2>2 DEF HandsInv, Turns, CancelsDelete, KnowsOld, OneClaim, NoCaptures, Patient,
                      Waiting, Late, Lost
  <2>4. CountsInv'
    <3>1. \A c \in Connected : Wanted(c)' <=> Wanted(c)
      BY <2>1 DEF Wanted, Wants, Waiting, Connected
    <3> QED  BY <2>1, <3>1, CountsSame
  <2> QED  BY <2>3, <2>4
<1>2. CASE Next
  <2>1. PICK w \in Workers :
          \/ \E h \in Holds : BeginTarget(w, h) \/ Cancel(w, h) \/ Uncancel(w, h)
                              \/ Reset(w, h) \/ Fill(w, h)
          \/ \E c \in Copies : Capture(w, c) \/ Receive(w, c)
          \/ FindTarget(w) \/ WriteTarget(w) \/ MakeCall(w)
    BY <1>2 DEF Next
  <2>2. UNCHANGED scene
    BY <1>2 DEF Next
  <2>3. CASE ~Calm
    <3>1. ~Calm'
      BY <2>2, <2>3 DEF Calm, InTurn, Late
    <3> QED  BY <3>1 DEF HandsInv, CountsInv
  <2>4. CASE Calm
    <3>1. CASE \E h \in Holds : BeginTarget(w, h) \/ Cancel(w, h) \/ Uncancel(w, h)
                                \/ Reset(w, h) \/ Fill(w, h)
      BY <2>2, <2>4, <3>1, BeginTargetCounts, CancelCounts, UncancelCounts, ResetCounts, FillCounts
    <3>2. CASE \E c \in Copies : Capture(w, c) \/ Receive(w, c)
      BY <2>2, <2>4, <3>2, CaptureCounts, ReceiveCounts
    <3>3. CASE FindTarget(w) \/ WriteTarget(w) \/ MakeCall(w)
      BY <2>2, <2>4, <3>3, FindTargetCounts, WriteTargetCounts, MakeCallCounts
    <3> QED  BY <2>1, <3>1, <3>2, <3>3
  <2> QED  BY <2>3, <2>4
<1> QED  BY <1>1, <1>2

\* While requests wait for each other's calls, but for a cancel's, a lender's holds and
\* the calls still to be made are what FulfILLment's waiting holds account for.
THEOREM HoldsAccounted ==
    ASSUME IsFiniteSet(Workers) PROVE Spec => [](LenderIInv /\ HandsInv /\ CountsInv)
<1>1. Init => LenderIInv /\ HandsInv /\ CountsInv
  BY LenderInit, CountsInit
<1>2. LenderIInv /\ HandsInv /\ CountsInv /\ [Next]_vars
        => (LenderIInv /\ HandsInv /\ CountsInv)'
  BY LenderStep, CountsStep
<1> QED  BY <1>1, <1>2, PTL DEF Spec

\* At rest nobody has calls to make.
LEMMA RestCounts ==
    ASSUME Rest, NEW c
    PROVE  ~ToCall("place", c) /\ Takers(c) = {} /\ Cardinality(Takers(c)) = 0
<1>1. \A w \in Workers : work[w].todo = <<>>
  BY DEF Rest, Idle
<1>2. ~ToCall("place", c) /\ Takers(c) = {}
  BY <1>1, HasNone, ToCallHas DEF Takers, Takes
<1> QED  BY <1>2, FS_EmptySet

\* When all calls have been made, the lender of the copy that a waiting hold targets
\* has a hold on it, if it took every hold it was asked for: no delete and no loan has
\* used up another hold's (place, delete_earliest and checkout in laicore).
THEOREM TargetsAsked ==
    ASSUME IsFiniteSet(Workers) PROVE Spec => [](Patient => Asked)
<1>1. LenderIInv /\ HandsInv /\ CountsInv => (Patient => Asked)
  <2> SUFFICES ASSUME LenderIInv, CountsInv, Patient, Rest, Calm, NEW h \in Holds, Wants(h)
               PROVE  lender[hold[h].current].asked > 0
    BY DEF Asked, Calm
  <2> DEFINE c == hold[h].current
  <2>1. c \in Connected /\ Wanted(c)
    BY DEF Wants, Wanted
  <2> HIDE DEF c
  <2>2. Enough(c) /\ ~ToCall("place", c) /\ Cardinality(Takers(c)) = 0
    BY <2>1, RestCounts DEF CountsInv
  <2>3. lender[c].asked \in Nat
    BY <2>1, Copied DEF LenderIInv, TypeOK, Lender
  <2>4. lender[c].asked + 0 >= 0 + 1
    BY <2>1, <2>2 DEF Enough, Bit
  <2> QED  BY <2>3, <2>4 DEF c
<1> QED  BY <1>1, HoldsAccounted, PTL

\* A lender that was told of everything, and missed no call, then has no hold on a copy
\* that no waiting hold targets, and no second one on any.
THEOREM NoStrays ==
    ASSUME IsFiniteSet(Workers) PROVE Spec => []StraysExplained
<1>1. LenderIInv /\ HandsInv /\ CountsInv => StraysExplained
  <2> SUFFICES ASSUME LenderIInv, CountsInv, Rest, Calm, Lost = {}, NEW c \in Connected \ forgotten
               PROVE  lender[c].asked <= Cardinality({h \in Holds : Wants(h) /\ hold[h].current = c})
    BY DEF StraysExplained, Calm
  <2> DEFINE S == {h \in Holds : Wants(h) /\ hold[h].current = c}
  <2>1. NoMore(c) /\ ~ToCall("place", c) /\ Cardinality(Takers(c)) = 0
    BY RestCounts DEF CountsInv
  <2>2. lender[c].asked \in Nat
    BY Copied DEF LenderIInv, TypeOK, Lender
  <2>3. lender[c].asked + 0 <= 0 + Bit(Wanted(c))
    BY <2>1 DEF NoMore, Bit
  <2>4. IsFiniteSet(S) /\ Cardinality(S) \in Nat
    BY NullsAssumption, FS_Subset, FS_CardinalityType
  <2>5. Wanted(c) => S # {}
    BY DEF Wanted
  <2>6. Wanted(c) => Cardinality(S) # 0
    BY <2>4, <2>5, FS_EmptySet
  <2> HIDE DEF S
  <2>7. lender[c].asked <= Cardinality(S)
    BY <2>2, <2>3, <2>4, <2>6 DEF Bit
  <2> QED  BY <2>7 DEF S
<1> QED  BY <1>1, HoldsAccounted, PTL
=============================================================================
