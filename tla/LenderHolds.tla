----------------------------- MODULE LenderHolds -----------------------------
(***************************************************************************)
(* Holds that are filled by other library systems.  FulfILLment keeps its  *)
(* own holds, and for a hold that targets a lender's copy it has the       *)
(* lender's system hold that copy for FulfILLment's user, through          *)
(* fulfillment.laicore and the connector of that library.  The requests of *)
(* open-ils.circ and the targeter first commit what they change, then make *)
(* these calls one after the other: the two sides agree only when all of   *)
(* them have been made.                                                    *)
(*                                                                         *)
(* The transaction of a request is one step here (module HoldRequests has  *)
(* what happens inside).  All holds a lender has on a copy are alike, so   *)
(* that a lender's system is a number and a flag for each copy.            *)
(***************************************************************************)
EXTENDS Naturals, Sequences, FiniteSets

CONSTANTS
    Holds, NoHold,    \* ids of action.hold_request
    Copies, NoCopy,   \* ids of asset.copy
    Workers,          \* processes of open-ils.circ and of the targeter
    Scenes,           \* the ways to consider that lenders and requests may be
    MaxAsked          \* a lender refuses more holds than that on one copy

Kinds == {"target", "cancel", "uncancel", "reset", "capture", "fill", "receive"}
CallKinds == {"place", "delete", "checkout", "checkin"}

Scene == [potential : SUBSET Copies,    \* copies that may fill the holds
          expiring : SUBSET Holds,      \* the holds that have an expire_time
          connected : SUBSET Copies,    \* of lenders whose connector is not disabled
          asks : SUBSET Kinds,          \* the kinds of requests that are made
          late : SUBSET Kinds,          \* those whose calls other requests do not wait for
          lost : SUBSET CallKinds,      \* the kinds of calls that may fail
          refusing : BOOLEAN,           \* a lender may refuse a second hold on a copy
          stale : BOOLEAN,              \* Capture may be clicked in an old list
          closed : BOOLEAN]             \* closed holds are reset, too

ASSUME NullsAssumption == NoHold \notin Holds /\ NoCopy \notin Copies /\ IsFiniteSet(Holds)
ASSUME ScenesAssumption == Scenes \subseteq Scene /\ MaxAsked \in Nat

VARIABLES
    scene,      \* which of the scenes: no step changes it
    hold,       \* Holds -> row of action.hold_request
    away,       \* the copies that have left the lender for a borrower
    lender,     \* Copies -> what the lender's system knows of the copy
    work,       \* Workers -> the request served and the calls still to be made
    forgotten   \* history: copies whose lender nobody told that a hold went elsewhere

vars == <<scene, hold, away, lender, work, forgotten>>

Potential == scene.potential
Expiring == scene.expiring
Connected == scene.connected
Late == scene.late
Lost == scene.lost

Row == [current : Copies \cup {NoCopy}, captured : BOOLEAN,
        state : {"open", "cancelled", "filled"}]
Lender == [asked : 0..MaxAsked,   \* holds of FulfILLment's user on the copy
           lent : BOOLEAN]        \* the copy is checked out to that user

Call(k, c) == [kind |-> k, copy |-> c]
Retarget(h) == [kind |-> "target", hold |-> h]
Todo == [kind : CallKinds, copy : Copies] \cup [kind : {"target"}, hold : Holds]
\* hold and old: the hold a targeter has found, with the copy it had.
Idle == [kind |-> "none", hold |-> NoHold, old |-> NoCopy, todo |-> <<>>]

\* Type correctness of the rows, the lenders and the work under way: a call that
\* is still to be made is about a copy, a targeting about a hold.
TypeOK ==
    /\ scene \in Scenes
    /\ hold \in [Holds -> Row]
    /\ away \subseteq Copies /\ forgotten \subseteq Copies
    /\ lender \in [Copies -> Lender]
    /\ \A w \in Workers :
          /\ work[w].kind \in Kinds \cup {"none"} /\ work[w].hold \in Holds \cup {NoHold}
          /\ work[w].old \in Copies \cup {NoCopy} /\ work[w].todo \in Seq(Todo)

Init ==
    /\ scene \in Scenes
    /\ hold = [h \in Holds |-> [current |-> NoCopy, captured |-> FALSE, state |-> "open"]]
    /\ away = {} /\ forgotten = {}
    /\ lender = [c \in Copies |-> [asked |-> 0, lent |-> FALSE]]
    /\ work = [w \in Workers |-> Idle]

Waiting(h) == hold[h].state = "open" /\ ~hold[h].captured
Claims(c) == {h \in Holds : hold[h].state = "open" /\ hold[h].current = c}
Rest == \A w \in Workers : work[w] = Idle

\* A worker takes a request, and what is left of those others serve are calls
\* nobody waits for.
Take(w, k) ==
    /\ k \in scene.asks /\ work[w] = Idle
    /\ \A u \in Workers : work[u] = Idle \/ work[u].kind \in Late
Then(w, k, todo) ==
    work' = [work EXCEPT ![w] = IF todo = <<>> THEN Idle ELSE [Idle EXCEPT !.kind = k, !.todo = todo]]
\* The first of its calls is done.
Rid(w) ==
    LET r == work[w] IN
    [work EXCEPT ![w] = IF Tail(r.todo) = <<>> THEN Idle ELSE [r EXCEPT !.todo = Tail(@)]]

-----------------------------------------------------------------------------
(* copy_targeter                                                           *)

\* The batch comes to a hold, or somebody asks for it to be targeted.
BeginTarget(w, h) ==
    /\ Take(w, "target") /\ Waiting(h)
    /\ Then(w, "target", <<Retarget(h)>>)
    /\ UNCHANGED <<hold, away, lender, forgotten>>

\* The search: $old_current_copy is what the hold targets now.
FindTarget(w) ==
    LET r == work[w] IN
    /\ r.hold = NoHold /\ r.todo # <<>> /\ Head(r.todo).kind = "target"
    /\ LET h == Head(r.todo).hold IN
       work' = IF hold[h].state # "open" THEN Rid(w)
               ELSE [work EXCEPT ![w].hold = h, ![w].old = hold[h].current]
    /\ UNCHANGED <<hold, away, lender, forgotten>>

\* Copies at hand that no open hold claims, and the target there was.
Good == {c \in Potential : c \notin away /\ Claims(c) = {}}
OldBest(h) == Potential \cap {hold[h].current}

\* The lender of the old copy is told, and that of the new one asked, but not when
\* "old copy and new copy are the same".
FarCalls(old, best) ==
    IF best \notin Connected \/ best = old THEN <<>>
    ELSE (IF old = NoCopy THEN <<>> ELSE <<Call("delete", old)>>) \o <<Call("place", best)>>

\* The re-fetch of the hold, the choice and the commit.
WriteTarget(w) ==
    LET r == work[w]
        h == r.hold
        done(todo) == work' = [work EXCEPT ![w] =
            IF todo = <<>> THEN Idle ELSE [r EXCEPT !.hold = NoHold, !.old = NoCopy, !.todo = todo]]
    IN
    /\ h # NoHold
    /\ UNCHANGED <<away, lender>>
    /\ \/ ~Waiting(h) /\ done(Tail(r.todo)) /\ UNCHANGED <<hold, forgotten>>
       \* expired: cancelled with its target, and no calls
       \/ /\ Waiting(h) /\ h \in Expiring
          /\ hold' = [hold EXCEPT ![h].state = "cancelled"]
          /\ forgotten' = forgotten \cup ({hold[h].current} \ {NoCopy})
          /\ done(Tail(r.todo))
       \* no copy, and perhaps too often: $best->circ_lib of nothing dies
       \/ /\ Waiting(h)
          /\ \E s \in {"open", "cancelled"} :
                hold' = [hold EXCEPT ![h].current = NoCopy, ![h].state = s]
          /\ forgotten' = forgotten \cup ({hold[h].current} \ {NoCopy})
          /\ done(Tail(r.todo))
       \/ /\ Waiting(h)
          /\ \E c \in Good \cup OldBest(h) :
                /\ hold' = [hold EXCEPT ![h].current = c]
                /\ forgotten' = IF c \in Connected THEN forgotten
                                ELSE forgotten \cup ({hold[h].current} \ {NoCopy, c})
                /\ \/ done(FarCalls(r.old, c) \o Tail(r.todo))
                   \* the target there was, kept for want of a $best
                   \/ c \in OldBest(h) /\ done(Tail(r.todo))

-----------------------------------------------------------------------------
(* open-ils.circ                                                           *)

\* cancel_hold; the target stays in the row.
Cancel(w, h) ==
    /\ Take(w, "cancel") /\ hold[h].state = "open"
    /\ hold' = [hold EXCEPT ![h].state = "cancelled"]
    /\ Then(w, "cancel", IF hold[h].current # NoCopy /\ ~hold[h].captured
                         THEN <<Call("delete", hold[h].current)>> ELSE <<>>)
    /\ UNCHANGED <<away, lender, forgotten>>

Uncancel(w, h) ==
    /\ Take(w, "uncancel") /\ hold[h].state = "cancelled"
    /\ hold' = [hold EXCEPT ![h] = [current |-> NoCopy, captured |-> FALSE, state |-> "open"]]
    /\ Then(w, "uncancel", <<Retarget(h)>>)
    /\ UNCHANGED <<away, lender, forgotten>>

\* _reset_hold ("Retarget Request"), with the delete whether captured or not.
MutantResetSilent(w, h) ==   \* the lender is not told
    /\ Take(w, "reset") /\ (hold[h].state = "open" \/ scene.closed)
    /\ hold' = [hold EXCEPT ![h].current = NoCopy, ![h].captured = FALSE]
    /\ Then(w, "reset", <<Retarget(h)>>)
    /\ UNCHANGED <<away, lender, forgotten>>

MutantReset(w, h) ==   \* the row keeps its target
    /\ Take(w, "reset") /\ (hold[h].state = "open" \/ scene.closed)
    /\ hold' = [hold EXCEPT ![h].captured = FALSE]
    /\ Then(w, "reset", (IF hold[h].current = NoCopy THEN <<>>
                         ELSE <<Call("delete", hold[h].current)>>) \o <<Retarget(h)>>)
    /\ UNCHANGED <<away, lender, forgotten>>

Reset(w, h) ==
    /\ Take(w, "reset") /\ (hold[h].state = "open" \/ scene.closed)
    /\ hold' = [hold EXCEPT ![h].current = NoCopy, ![h].captured = FALSE]
    /\ Then(w, "reset", (IF hold[h].current = NoCopy THEN <<>>
                         ELSE <<Call("delete", hold[h].current)>>) \o <<Retarget(h)>>)
    /\ UNCHANGED <<away, lender, forgotten>>

\* find_nearest_permitted_hold: the holds that could take the copy.
Candidates(c) == {h \in Holds : Waiting(h) /\ (c \in Potential \/ hold[h].current = c)}

\* A check-in at the lender's desk captures a hold, maybe another than the one the
\* copy was targeted for; that one is targeted again.
CaptureFor(w, k, h, c, call) ==
    LET others == {g \in Holds \ {h} : Waiting(g) /\ hold[g].current = c}
        order == CHOOSE s \in [1..Cardinality(others) -> others] :
                    \A i, j \in 1..Cardinality(others) : s[i] = s[j] => i = j
    IN
    /\ hold' = [g \in Holds |->
          IF g = h THEN [hold[g] EXCEPT !.current = c, !.captured = TRUE]
          ELSE IF g \in others THEN [hold[g] EXCEPT !.current = NoCopy] ELSE hold[g]]
    /\ away' = away \cup {c}
    \* the lender of the copy the hold had; and this one, who is not told of a loan
    /\ forgotten' = forgotten \cup ({hold[h].current} \ {NoCopy, c})
                              \cup (IF call = "checkout" THEN {} ELSE {c})
    /\ Then(w, k, <<Call(call, c)>> \o [i \in DOMAIN order |-> Retarget(order[i])])

InHand(c) == \E w \in Workers : \E i \in DOMAIN work[w].todo :
    work[w].todo[i].kind \in {"checkout", "checkin"} /\ work[w].todo[i].copy = c

\* ff_action "ill-home-capture", as the page has it from when it was loaded: it is
\* done whatever the check-in found.
Capture(w, c) ==
    /\ Take(w, "capture") /\ c \notin away /\ ~InHand(c)
    /\ \/ \E h \in Candidates(c) : CaptureFor(w, "capture", h, c, "checkout")
       \/ /\ scene.stale /\ Candidates(c) = {}
          /\ Then(w, "capture", <<Call("checkout", c)>>)
          /\ UNCHANGED <<hold, away, forgotten>>
    /\ UNCHANGED lender

\* The borrower's patron has the copy.
Fill(w, h) ==
    /\ Take(w, "fill") /\ hold[h].state = "open" /\ hold[h].captured
    /\ hold' = [hold EXCEPT ![h].state = "filled"]
    /\ UNCHANGED <<away, lender, work, forgotten>>

\* ff_action "transit-home-receive": the copy is back, and may be captured at once.
MutantReceive(w, c) ==   \* a copy that is captured again is not checked in
    /\ Take(w, "receive") /\ c \in away /\ ~InHand(c)
    /\ \A h \in Claims(c) : ~hold[h].captured
    /\ \/ \E h \in Candidates(c) : CaptureFor(w, "receive", h, c, "checkout")
       \/ /\ Candidates(c) = {}
          /\ away' = away \ {c}
          /\ UNCHANGED <<hold, forgotten, work>>
    /\ UNCHANGED lender

Receive(w, c) ==
    /\ Take(w, "receive") /\ c \in away /\ ~InHand(c)
    /\ \A h \in Claims(c) : ~hold[h].captured
    /\ \/ \E h \in Candidates(c) : CaptureFor(w, "receive", h, c, "checkin")
       \/ /\ Candidates(c) = {}
          /\ away' = away \ {c}
          /\ Then(w, "receive", <<Call("checkin", c)>>)
          /\ UNCHANGED <<hold, forgotten>>
    /\ UNCHANGED lender

-----------------------------------------------------------------------------
(* fulfillment.laicore and the lenders' systems                            *)

\* What a call does at the lender: lending the copy to the user that holds it fills
\* the hold, and "delete_earliest" takes any one of them.
Placed(l) == (IF l.asked < MaxAsked THEN {[l EXCEPT !.asked = @ + 1]} ELSE {l})
             \cup (IF scene.refusing /\ l.asked > 0 THEN {l} ELSE {})
Less(n) == IF n = 0 THEN 0 ELSE n - 1
Answers(k, l) ==
    IF k = "place" THEN Placed(l)
    ELSE IF k = "delete" THEN {[l EXCEPT !.asked = Less(@)]}
    ELSE IF k = "checkout" THEN {[asked |-> Less(l.asked), lent |-> TRUE]}
    ELSE {[l EXCEPT !.lent = FALSE]}

MakeCall(w) ==
    LET r == work[w] IN
    /\ r.hold = NoHold /\ r.todo # <<>> /\ Head(r.todo).kind \in CallKinds
    /\ LET k == Head(r.todo).kind
           c == Head(r.todo).copy
       IN \E l \in (IF c \in Connected THEN Answers(k, lender[c]) ELSE {lender[c]})
                   \cup (IF k \in Lost THEN {lender[c]} ELSE {}) :
             lender' = [lender EXCEPT ![c] = l]
    /\ work' = Rid(w)
    /\ UNCHANGED <<hold, away, forgotten>>

Next == UNCHANGED scene /\ \E w \in Workers :
    \/ \E h \in Holds : BeginTarget(w, h) \/ Cancel(w, h) \/ Uncancel(w, h) \/ Reset(w, h) \/ Fill(w, h)
    \/ \E c \in Copies : Capture(w, c) \/ Receive(w, c)
    \/ FindTarget(w) \/ WriteTarget(w) \/ MakeCall(w)

Spec == Init /\ [][Next]_vars

-----------------------------------------------------------------------------
(* Properties                                                              *)

Wants(h) == Waiting(h) /\ hold[h].current \in Connected

\* Requests wait for the calls of the one before, but for a cancel's.
InTurn == Late \subseteq {"cancel"}

\* Once all calls are made, a waiting hold that has a target is held at the lender: no
\* delete and no loan, late, lost or for another hold, has used up what it asked for
\* ("the hold within the lender ILS is fulfilled the moment the FF hold is captured").
\* Two targetings of one hold at a time may each take the other's target for unchanged,
\* and a reset of a closed hold takes back what the next hold on its copy asked for.
Asked == Rest /\ InTurn /\ ~scene.closed => \A h \in Holds : Wants(h) => lender[hold[h].current].asked > 0

\* A lender has no holds on a copy that no waiting hold of FulfILLment targets, but for
\* those that the targeter and captures leave without telling anybody.
StraysExplained ==
    Rest /\ InTurn /\ ~scene.closed /\ Lost = {} => \A c \in Connected \ forgotten :
        lender[c].asked <= Cardinality({h \in Holds : Wants(h) /\ hold[h].current = c})

\* A copy is on loan at the lender only while it is away, however the requests and their
\* calls overlap, but check-ins of one copy.
LentIsAway ==
    Rest /\ Lost = {} /\ ~scene.stale => \A c \in Copies : lender[c].lent => c \in away

\* At rest no lender has a copy on loan that is home.
LenderInv == TypeOK /\ LentIsAway

=============================================================================
