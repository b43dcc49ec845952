---------------------------- MODULE ShelfClearing ----------------------------
(***************************************************************************)
(* Clearing the holds shelf of one library: clear_shelf_process, from the  *)
(* page of the holds shelf for all copies, or from a check-in with the     *)
(* modifier Clear Holds Shelf for one.  The list of expired holds is read  *)
(* first; then one transaction goes through it, fetching and writing back  *)
(* each hold and its copy, row by row, while desks lend, return and reset. *)
(*                                                                         *)
(* Requests of the desks are one transaction each and one step here        *)
(* (module HoldRequests has their insides).  All holds are for this        *)
(* library, and a hold may be filled by any copy; a checkout fills no hold *)
(* but the copy's own (circ.checkout_fills_related_hold is not set).       *)
(***************************************************************************)
EXTENDS Naturals

CONSTANTS
    Holds, NoHold,    \* ids of action.hold_request
    Copies, NoCopy,   \* ids of asset.copy
    Shelved,          \* Copies -> the expired hold it is on the shelf for at first
    Clearers,         \* processes that run clear_shelf_process
    Scenes,           \* the libraries to consider
    MaxCaptures       \* how many captures there are, the first included

Scene == [clearers : SUBSET Clearers, placed : SUBSET Holds,
          clearStatus : BOOLEAN,   \* circ.holds.clear_shelf.copy_status is set
          overlap : SUBSET {"clear", "checkin", "checkout", "reset", "cancel"}]
                                   \* requests made while a clearing runs

ASSUME ShelfAssumption ==
    /\ NoHold \notin Holds /\ NoCopy \notin Copies
    /\ Shelved \in [Copies -> Holds \cup {NoHold}]
    /\ Scenes \subseteq Scene
    /\ \A s \in Scenes, c \in Copies : Shelved[c] \in s.placed \cup {NoHold}
    /\ \A c, d \in Copies : Shelved[c] = Shelved[d] /\ c # d => Shelved[c] = NoHold
    /\ MaxCaptures \in Nat \ {0}

VARIABLES
    scene,     \* which of the libraries: no step changes it
    hold,      \* Holds -> row of action.hold_request
    copy,      \* Copies -> status of the row of asset.copy
    lent,      \* the copies with an open circulation
    work,      \* Clearers -> the run of clear_shelf_process
    now,       \* capture times
    told,      \* Holds -> events of hold_request.cancel.expire_holds_shelf
    taken      \* history: the holds that were picked up

vars == <<scene, hold, copy, lent, work, now, told, taken>>
deskVars == <<work, told>>

ClearStatus == scene.clearStatus
Overlap == scene.overlap

Row == [current : Copies \cup {NoCopy}, captured : 0..MaxCaptures, expired : BOOLEAN,
        cancelled : BOOLEAN, filled : BOOLEAN]
Status == {"home", "shelf", "out", "cleared"}

Idle == [st |-> "idle", todo |-> {}, hold |-> NoHold, row |-> [current |-> NoCopy],
         stat |-> "home", holds |-> <<>>, copies |-> <<>>, newly |-> {}]

Waits(h) == h \in scene.placed /\ ~hold[h].cancelled /\ ~hold[h].filled
OnShelf(h) == Waits(h) /\ hold[h].captured > 0

Clearing == {w \in Clearers : work[w].st # "idle"}
May(kind) == Clearing = {} \/ kind \in Overlap

\* Rows written by a transaction that has not been committed
HoldLocked(h) == \E w \in Clearers : h \in DOMAIN work[w].holds
CopyLocked(c) == \E w \in Clearers : c \in DOMAIN work[w].copies

Put(f, x, y) == [z \in DOMAIN f \cup {x} |-> IF z = x THEN y ELSE f[z]]
Merge(f, g) == [x \in DOMAIN f |-> IF x \in DOMAIN g THEN g[x] ELSE f[x]]
--------------------------------------------------------------------------
(* clear_shelf_process *)

\* alhr: the last captured hold of a copy that was not filled
LastCaptured(h) ==
    hold[h].captured > 0 /\ ~hold[h].filled
    /\ \A g \in Holds : hold[g].current = hold[h].current /\ ~hold[g].filled
                            => hold[g].captured <= hold[h].captured

MutantExpired(cs) ==   \* not only the last one
    {h \in Holds : /\ hold[h].current \in cs /\ copy[hold[h].current] = "shelf"
                   /\ hold[h].captured > 0
                   /\ hold[h].expired \/ hold[h].cancelled}

\* fetch_captured_holds, id_list.expired_on_shelf
Expired(cs) ==
    {h \in Holds : /\ hold[h].current \in cs /\ copy[hold[h].current] = "shelf"
                   /\ LastCaptured(h)
                   /\ hold[h].expired \/ hold[h].cancelled}

List(w, cs) ==
    /\ w \in scene.clearers /\ work[w].st = "idle" /\ May("clear")
    /\ work' = [work EXCEPT ![w].st = "next", ![w].todo = Expired(cs)]
    /\ UNCHANGED <<hold, copy, lent, now, told, taken>>

MutantFetch(w, h) ==   \* the list is not advanced
    /\ work[w].st = "next" /\ h \in work[w].todo
    /\ work' = [work EXCEPT ![w].st = "fetched", ![w].hold = h, ![w].row = hold[h],
                    ![w].stat = IF hold[h].current = NoCopy THEN "home"
                                ELSE copy[hold[h].current]]
    /\ UNCHANGED <<hold, copy, lent, now, told, taken>>

Fetch(w, h) ==
    /\ work[w].st = "next" /\ h \in work[w].todo
    /\ work' = [work EXCEPT ![w].st = "fetched", ![w].todo = @ \ {h}, ![w].hold = h,
                    ![w].row = hold[h],
                    ![w].stat = IF hold[h].current = NoCopy THEN "home"
                                ELSE copy[hold[h].current]]
    /\ UNCHANGED <<hold, copy, lent, now, told, taken>>

MutantWriteHold(w) ==   \* every hold counts as newly cancelled
    LET h == work[w].hold IN
    /\ work[w].st = "fetched" /\ ~HoldLocked(h)
    /\ work' = [work EXCEPT ![w].st = "copy", ![w].newly = @ \cup {h},
                    ![w].holds = IF work[w].row.cancelled THEN @
                                 ELSE Put(@, h, [work[w].row EXCEPT !.cancelled = TRUE])]
    /\ UNCHANGED <<hold, copy, lent, now, told, taken>>

\* The hold is written back whole, if it was not cancelled.
WriteHold(w) ==
    LET h == work[w].hold IN
    /\ work[w].st = "fetched"
    /\ \/ /\ ~work[w].row.cancelled /\ ~HoldLocked(h)
          /\ work' = [work EXCEPT ![w].st = "copy", ![w].newly = @ \cup {h},
                          ![w].holds = Put(@, h, [work[w].row EXCEPT !.cancelled = TRUE])]
       \/ /\ work[w].row.cancelled
          /\ work' = [work EXCEPT ![w].st = "copy"]
    /\ UNCHANGED <<hold, copy, lent, now, told, taken>>

\* And so is the copy: "$copy_status == 0" is true of a setting that is not set,
\* and setting a field to undef leaves it.  Without a copy the process dies.
WriteCopy(w) ==
    LET c == work[w].row.current
        status == IF ClearStatus THEN "cleared" ELSE work[w].stat IN
    /\ work[w].st = "copy"
    /\ \/ /\ c # NoCopy /\ ~CopyLocked(c)
          /\ work' = [work EXCEPT ![w].st = "next", ![w].copies = Put(@, c, status)]
       \/ /\ c = NoCopy
          /\ work' = [work EXCEPT ![w] = Idle]
    /\ UNCHANGED <<hold, copy, lent, now, told, taken>>

\* Two clearings wait for each other's rows: the database ends one.
WaitsFor(w, v) ==
    \/ /\ work[w].st = "fetched" /\ ~work[w].row.cancelled
       /\ work[w].hold \in DOMAIN work[v].holds
    \/ work[w].st = "copy" /\ work[w].row.current \in DOMAIN work[v].copies

Deadlock(w) ==
    /\ \E v \in Clearers \ {w} : WaitsFor(w, v) /\ WaitsFor(v, w)
    /\ work' = [work EXCEPT ![w] = Idle]
    /\ UNCHANGED <<hold, copy, lent, now, told, taken>>

\* The commit, and the events for the holds that this process has cancelled.
Commit(w) ==
    /\ work[w].st = "next" /\ work[w].todo = {}
    /\ hold' = Merge(hold, work[w].holds)
    /\ copy' = Merge(copy, work[w].copies)
    /\ told' = [h \in Holds |-> told[h] + IF h \in work[w].newly THEN 1 ELSE 0]
    /\ work' = [work EXCEPT ![w] = Idle]
    /\ UNCHANGED <<lent, now, taken>>
--------------------------------------------------------------------------
(* The desks *)

Claims(c) == {h \in Holds : hold[h].current = c /\ OnShelf(h)}

\* do_checkin: a copy on the shelf for a hold stays there; any other one is
\* captured for a hold or goes home.
Checkin(c) ==
    /\ May("checkin") /\ ~CopyLocked(c)
    /\ copy[c] # "shelf" \/ Claims(c) = {}
    /\ lent' = lent \ {c}
    /\ \/ \E h \in Holds :
            /\ Waits(h) /\ hold[h].captured = 0 /\ ~HoldLocked(h) /\ now < MaxCaptures
            /\ now' = now + 1
            /\ hold' = [hold EXCEPT ![h] = [@ EXCEPT !.current = c, !.captured = now + 1,
                                                     !.expired = FALSE]]
            /\ copy' = [copy EXCEPT ![c] = "shelf"]
       \/ /\ \/ now = MaxCaptures
             \/ \A h \in Holds : ~(Waits(h) /\ hold[h].captured = 0)
          /\ copy' = [copy EXCEPT ![c] = "home"]
          /\ UNCHANGED <<hold, now>>
    /\ UNCHANGED <<deskVars, taken>>

Unset(row) == [row EXCEPT !.current = NoCopy, !.captured = 0, !.expired = FALSE]

\* handle_checkout_holds: the hold of this patron is filled, another's is reset.
Checkout(c) ==
    /\ May("checkout") /\ ~CopyLocked(c) /\ copy[c] # "out"
    /\ copy' = [copy EXCEPT ![c] = "out"]
    /\ lent' = lent \cup {c}
    /\ \/ /\ Claims(c) = {}
          /\ UNCHANGED <<hold, taken>>
       \/ \E h \in Claims(c) :
            /\ ~HoldLocked(h)
            /\ \/ /\ hold' = [hold EXCEPT ![h].filled = TRUE]
                  /\ taken' = taken \cup {h}
               \/ /\ hold' = [hold EXCEPT ![h] = Unset(@)]
                  /\ UNCHANGED taken
    /\ UNCHANGED <<deskVars, now>>

\* _reset_hold
Reset(h) ==
    LET c == hold[h].current IN
    /\ May("reset") /\ OnShelf(h) /\ ~HoldLocked(h) /\ ~CopyLocked(c)
    /\ hold' = [hold EXCEPT ![h] = Unset(@)]
    /\ copy' = IF copy[c] = "shelf" THEN [copy EXCEPT ![c] = "home"] ELSE copy
    /\ UNCHANGED <<deskVars, lent, now, taken>>

\* cancel_hold: the copy stays on the shelf.
Cancel(h) ==
    /\ May("cancel") /\ Waits(h) /\ ~HoldLocked(h)
    /\ hold' = [hold EXCEPT ![h].cancelled = TRUE]
    /\ UNCHANGED <<deskVars, copy, lent, now, taken>>

\* shelf_expire_time is before today.
Expire(h) ==
    /\ OnShelf(h) /\ ~hold[h].expired
    /\ hold' = [hold EXCEPT ![h].expired = TRUE]
    /\ UNCHANGED <<deskVars, copy, lent, now, taken>>
--------------------------------------------------------------------------
First(h) ==
    LET cs == {c \in Copies : Shelved[c] = h} IN
    [current |-> IF cs = {} THEN NoCopy ELSE CHOOSE c \in cs : TRUE,
     captured |-> IF cs = {} THEN 0 ELSE 1, expired |-> cs # {},
     cancelled |-> FALSE, filled |-> FALSE]

Init ==
    /\ scene \in Scenes
    /\ hold = [h \in Holds |-> First(h)]
    /\ copy = [c \in Copies |-> IF Shelved[c] = NoHold THEN "home" ELSE "shelf"]
    /\ lent = {}
    /\ work = [w \in Clearers |-> Idle]
    /\ now = 1
    /\ told = [h \in Holds |-> 0]
    /\ taken = {}

ListSome(w) == List(w, Copies) \/ \E c \in Copies : List(w, {c})
ClearStep(w) == (\E h \in Holds : Fetch(w, h)) \/ WriteHold(w) \/ WriteCopy(w)
                \/ Deadlock(w) \/ Commit(w)
DeskStep == \/ \E c \in Copies : Checkin(c) \/ Checkout(c)
            \/ \E h \in Holds : Reset(h) \/ Cancel(h) \/ Expire(h)

Next ==
    /\ (\E w \in Clearers : ListSome(w) \/ ClearStep(w)) \/ DeskStep
    /\ UNCHANGED scene

Spec == Init /\ [][Next]_vars

\* A clearing that has begun goes on, and gets a row that becomes free again and
\* again: the database grants a row to those who wait in turn.
FairSpec == Spec /\ \A w \in Clearers : SF_vars(ClearStep(w) /\ UNCHANGED scene)
--------------------------------------------------------------------------
(* Properties *)

\* Type correctness of the rows and of the clearings; the holds a clearing counts
\* as newly cancelled are those it writes.
TypeOK ==
    /\ scene \in Scenes
    /\ hold \in [Holds -> Row] /\ copy \in [Copies -> Status]
    /\ lent \subseteq Copies /\ taken \subseteq Holds /\ now \in 0..MaxCaptures
    /\ DOMAIN told = Holds /\ \A h \in Holds : told[h] \in Nat
    /\ \A w \in Clearers :
         /\ work[w].st \in {"idle", "next", "fetched", "copy"}
         /\ work[w].newly = DOMAIN work[w].holds /\ work[w].todo \subseteq Holds
         /\ \A h \in DOMAIN work[w].holds : work[w].holds[h] \in Row
         /\ \A c \in DOMAIN work[w].copies : work[w].copies[c] \in Status

\* No copy is lent or returned while a clearing, which writes whole rows that it
\* read before, is under way.
DesksPause == Overlap \cap {"checkin", "checkout"} = {}

\* A hold that was picked up is filled for good, and nobody cancels it.
PickedUpStays == DesksPause => \A h \in taken : hold[h].filled /\ ~hold[h].cancelled

\* A copy that is lent shows as checked out.
LentIsOut == DesksPause => \A c \in lent : copy[c] = "out"

\* A copy that waits on the shelf for a patron shows as being there, though cancelled
\* holds keep the copy they had.
WaitingIsThere ==
    DesksPause => \A h \in Holds : OnShelf(h) => copy[hold[h].current] = "shelf"

\* The patron hears once that the hold has expired on the shelf, while one process
\* at a time clears it.
ToldOnce == "clear" \notin Overlap => \A h \in Holds : told[h] <= 1

\* Every clearing ends, though two may want each other's rows.
ClearingEnds == \A w \in Clearers : work[w].st # "idle" ~> work[w].st = "idle"

\* Holds, copies and loans agree while the shelf is cleared.
ShelfInv == TypeOK /\ LentIsOut /\ WaitingIsThere /\ PickedUpStays
=============================================================================
