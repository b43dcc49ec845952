---------------------------- MODULE HoldRequests ----------------------------
(***************************************************************************)
(* Holds and the copies that fill them: the rows of action.hold_request,   *)
(* asset.copy, action.transit_copy and action.circulation, and the two     *)
(* services that work on them.  A targeter picks the copy a waiting hold    *)
(* should be filled with: open-ils.hold-targeter lists the holds of a      *)
(* parallel slot, or takes those it is asked for, and has copy_targeter of *)
(* open-ils.storage target each.  A desk (open-ils.circ) checks copies in  *)
(* and out, and cancels, uncancels, resets and freezes holds; holds that   *)
(* it puts back to waiting it asks to be targeted at once.                 *)
(*                                                                         *)
(* A database transaction reads rows, then writes whole rows back from     *)
(* what it read (cstore sets every column of an UPDATE).  A row it has     *)
(* written stays locked until it commits, so the writes of a transaction   *)
(* take effect together; but a row may change between the moment it is     *)
(* read and that commit.  Here a transaction is a reading step or two and  *)
(* a commit, with the rows it read kept in between.  copy_targeter alone   *)
(* writes only the columns it changes.                                     *)
(*                                                                         *)
(* A copy is one physical object: two desks do not handle it at once.      *)
(***************************************************************************)
EXTENDS Naturals, FiniteSets

CONSTANTS
    Holds, NoHold,    \* ids of action.hold_request, each of its own patron
    Copies, NoCopy,   \* ids of asset.copy
    Libs, NoLib,      \* ids of actor.org_unit
    PickupLib,        \* Holds -> Libs
    HomeLib,          \* Copies -> Libs: circ_lib
    Potential,        \* Holds -> copies that may fill the hold (its copy map)
    Expiring,         \* the holds that have an expire_time
    Targeters,        \* targeter processes
    OnDemand,         \* those that target the holds they are asked for
    SlotOf,           \* Holds -> the process whose parallel slot it is in
    Desks,            \* requests being served by open-ils.circ
    MaxTransits,      \* bound on the rows of action.transit_copy
    FillsRelated,     \* setting circ.checkout_fills_related_hold
    GoHome            \* setting ff.ill.return.go_home

ASSUME NullsAssumption == NoHold \notin Holds /\ NoCopy \notin Copies /\ NoLib \notin Libs
ASSUME RowsAssumption ==
    /\ PickupLib \in [Holds -> Libs] /\ HomeLib \in [Copies -> Libs]
    /\ Potential \in [Holds -> SUBSET Copies] /\ Expiring \subseteq Holds
    /\ MaxTransits \in Nat /\ FillsRelated \in BOOLEAN /\ GoHome \in BOOLEAN
\* find_holds_to_target: "no 2 processes will be operating on the same
\* potential copy sets".
ASSUME SlotAssumption ==
    /\ OnDemand \subseteq Targeters /\ SlotOf \in [Holds -> Targeters]
    /\ \A h, g \in Holds : Potential[h] \cap Potential[g] # {} => SlotOf[h] = SlotOf[g]

VARIABLES
    hold,      \* Holds -> row of action.hold_request
    copy,      \* Copies -> status
    out,       \* the copies with an open circulation
    transit,   \* TransitIds -> row of action.(hold_)transit_copy
    tgt,       \* Targeters -> the transaction of a targeter
    asked,     \* the holds that open-ils.hold-targeter has been asked to target
    desk,      \* Desks -> the request a desk is serving
    alone,     \* history: the desks no other transaction has overlapped with
    crossed,   \* history: the copies whose transit a reset of another copy ended
    overtaken, \* history: the holds a targeter wrote when they were no longer to be targeted
    contested  \* history: the copies picked for a hold while another had a claim on them

rows == <<hold, copy, out, transit>>
marks == <<overtaken, contested>>
vars == <<hold, copy, out, transit, tgt, asked, desk, alone, crossed, overtaken, contested>>

-----------------------------------------------------------------------------
\* config.copy_status; Available and Reshelving (0 and 7) are one.
Status == {"available", "checked_out", "on_shelf", "in_transit", "canceled_transit"}

Row == [current : Copies \cup {NoCopy},   \* current_copy
        captured : BOOLEAN,               \* capture_time
        shelf : Libs \cup {NoLib},        \* current_shelf_lib, set with shelf_time
        frozen : BOOLEAN,
        cancelled : BOOLEAN,              \* cancel_time
        fulfilled : BOOLEAN]              \* fulfillment_time

NewRow == [current |-> NoCopy, captured |-> FALSE, shelf |-> NoLib,
           frozen |-> FALSE, cancelled |-> FALSE, fulfilled |-> FALSE]

\* dest_recv_time and cancel_time make a transit received or cancelled; "to" is
\* its copy_status, the status the copy takes when it arrives.
TransitIds == 1..MaxTransits
Leg == [state : {"open", "received", "cancelled"}, copy : Copies,
        hold : Holds \cup {NoHold}, dest : Libs, to : Status \ {"in_transit"}]
NoLeg == [state |-> "none", copy |-> NoCopy, hold |-> NoHold, dest |-> NoLib,
          to |-> "available"]

Open(r) == ~r.cancelled /\ ~r.fulfilled
Waiting(r) == Open(r) /\ ~r.captured
\* The holds a copy is captured for, and those that target it.
Holding(c) == {h \in Holds : Open(hold[h]) /\ hold[h].captured /\ hold[h].current = c}
Targeting(c) == {h \in Holds : ~hold[h].cancelled /\ ~hold[h].captured /\ hold[h].current = c}
OnTheWay(c) == {i \in TransitIds : transit[i].state = "open" /\ transit[i].copy = c}
\* search_action_hold_transit_copy({hold, cancel_time => undef}): received
\* transits are found, too.
LegsOf(h) == {i \in TransitIds : transit[i].state \in {"open", "received"}
                                 /\ transit[i].hold = h}
\* The first row of a search result; 0 when there is none.
First(S) == IF S = {} THEN {0} ELSE S
LegAt(i) == IF i = 0 THEN NoLeg ELSE transit[i]

\* "old" is the target the hold had when it was read, pick the one it is to get.
IdleTargeter == [pc |-> "idle", hold |-> NoHold, old |-> NoCopy, pick |-> NoCopy]
Targeter == {IdleTargeter} \cup
    [pc : {"read", "chosen"}, hold : Holds, old : Copies \cup {NoCopy},
     pick : Copies \cup {NoCopy}]

Ops == {"none", "cancel", "uncancel", "reset", "freeze", "thaw", "abort",
        "checkin", "checkout"}
DeskPc == {"idle", "scanned", "ready", "forward", "arrive", "capture", "shelve"}
\* "who" is the hold or the patron a request is about (NoHold: a patron without
\* holds); status, leg and held are what it read: the status of the copy, the
\* transit with id via (0: none) and the hold rows it will write back.
IdleDesk == [op |-> "none", pc |-> "idle", who |-> NoHold, copy |-> NoCopy,
             lib |-> NoLib, status |-> "available", via |-> 0, leg |-> NoLeg,
             held |-> [h \in {} |-> NewRow]]

Read(S) == [h \in S |-> hold[h]]
\* hold_request_capture_protect_idx
CaptureProtect(f) ==
    \A g, h \in Holds :
        /\ g # h /\ Open(f[g]) /\ Open(f[h]) /\ f[g].captured /\ f[h].captured
        /\ f[g].current # NoCopy
        => f[g].current # f[h].current
\* Rows are written whole: every column as it was read, but for the changes.
WriteHolds(f) ==
    LET after == [h \in Holds |-> IF h \in DOMAIN f THEN f[h] ELSE hold[h]]
    IN CaptureProtect(after) /\ hold' = after
WriteLeg(i, l) == transit' = [transit EXCEPT ![i] = l]

IsRequest(q) ==
    /\ q \in [op : Ops, pc : DeskPc, who : Holds \cup {NoHold}, copy : Copies \cup {NoCopy},
              lib : Libs \cup {NoLib}, status : Status, via : 0..MaxTransits, leg : Leg \cup {NoLeg},
              held : {q.held}]
    /\ DOMAIN q.held \subseteq Holds
    /\ q.held \in [DOMAIN q.held -> Row]
    /\ q.op = "reset" \/ q.pc \in {"forward", "arrive", "capture"} => q.who \in Holds
    /\ q.op \in {"checkin", "checkout"} => q.copy \in Copies
    /\ (q.op = "abort" => q.via # 0) /\ (q.via # 0 => q.leg \in Leg)
    /\ q.pc \in {"forward", "arrive", "capture", "shelve"} => q.op = "checkin"
    /\ q.op \in {"uncancel", "thaw"} \/ q.pc = "arrive" => q.who \in DOMAIN q.held

\* Type correctness.
HoldTypeOK ==
    /\ hold \in [Holds -> Row]
    /\ copy \in [Copies -> Status]
    /\ out \subseteq Copies
    /\ transit \in [TransitIds -> Leg \cup {NoLeg}]
    /\ tgt \in [Targeters -> Targeter]
    /\ DOMAIN desk = Desks /\ \A d \in Desks : IsRequest(desk[d])
    /\ asked \subseteq Holds
    /\ alone \subseteq Desks /\ crossed \subseteq Copies
    /\ overtaken \subseteq Holds /\ contested \subseteq Copies

Busy == {t \in Targeters : tgt[t].pc # "idle"} \cup {d \in Desks : desk[d].pc # "idle"}

\* The holds were placed, which asks for their targets; the copies are at home.
Init ==
    /\ hold = [h \in Holds |-> NewRow]
    /\ copy = [c \in Copies |-> "available"]
    /\ out = {}
    /\ transit = [i \in TransitIds |-> NoLeg]
    /\ tgt = [t \in Targeters |-> IdleTargeter]
    /\ desk = [d \in Desks |-> IdleDesk]
    /\ asked = Holds
    /\ alone = {} /\ crossed = {} /\ overtaken = {} /\ contested = {}

-----------------------------------------------------------------------------
(* open-ils.hold-targeter, and copy_targeter, whose search and re-fetch of *)
(* the hold are one step here.                                             *)

ToBeTargeted(h) == Waiting(hold[h]) /\ ~hold[h].frozen

Takes(t, h) ==
    tgt' = [tgt EXCEPT ![t] = [pc |-> "read", hold |-> h, old |-> hold[h].current, pick |-> NoCopy]]

\* A run of the cron job comes to a hold of its slot.
TargetRead(t, h) ==
    /\ tgt[t].pc = "idle"
    /\ SlotOf[h] = t
    /\ ToBeTargeted(h) /\ Takes(t, h)
    /\ alone' = {}
    /\ UNCHANGED <<rows, asked, desk, crossed, marks>>

\* A hold is targeted because a request has asked for it.
TargetAsked(t, h) ==
    /\ tgt[t].pc = "idle"
    /\ t \in OnDemand /\ h \in asked
    /\ asked' = asked \ {h}
    /\ IF ToBeTargeted(h) THEN Takes(t, h) /\ alone' = {} ELSE UNCHANGED <<tgt, alone>>
    /\ UNCHANGED <<rows, desk, crossed, marks>>

\* "target of another hold"
Taken(h, c) == \E g \in Holds \ {h} : Open(hold[g]) /\ hold[g].current = c

MutantUsable(h) ==   \* copies that other holds wait for are not passed over
    {c \in Potential[h] : copy[c] = "available"}

\* The good copies at open libraries, that are available or reshelving.
Usable(h) == {c \in Potential[h] : copy[c] = "available" /\ ~Taken(h, c)}

\* The old target: put back on the list when the libraries of all others are closed,
\* even if another hold targets it by then, or kept, in whatever status, if none does.
OldBest(t) ==
    {c \in Potential[tgt[t].hold] \cap {tgt[t].old} :
        copy[c] = "available" \/ ~Taken(tgt[t].hold, c)}

\* The old target has been given to another hold, or a targeter is about to give the
\* copy to one; the slots keep two runs of the cron job from that.
Contested(t, c) ==
    \/ c = tgt[t].old /\ Taken(tgt[t].hold, c)
    \/ \E u \in Targeters \ {t} : /\ tgt[u].pc = "chosen" /\ tgt[u].pick = c
                                  /\ {t, u} \cap OnDemand # {}

\* The map of a hold's copies is rebuilt, which fails while another transaction has
\* done so (copy_once_per_hold).  Of the usable copies the permit test may refuse any.
TargetChoose(t) ==
    /\ tgt[t].pc = "read"
    /\ \A u \in Targeters : tgt[u].pc = "chosen" => tgt[u].hold # tgt[t].hold
    /\ \E c \in Usable(tgt[t].hold) \cup OldBest(t) \cup {NoCopy} :
          /\ tgt' = [tgt EXCEPT ![t].pc = "chosen", ![t].pick = c]
          /\ contested' = contested \cup (IF c # NoCopy /\ Contested(t, c) THEN {c} ELSE {})
    /\ UNCHANGED <<rows, asked, desk, alone, crossed, overtaken>>

\* Only columns that change are written: into what the hold is by now.
WriteColumns(t, r) ==
    LET h == tgt[t].hold IN
    /\ WriteHolds([k \in {h} |-> r])
    /\ overtaken' = overtaken \cup IF ToBeTargeted(h) THEN {} ELSE {h}
    /\ tgt' = [tgt EXCEPT ![t] = IdleTargeter]
    /\ UNCHANGED <<copy, out, transit, asked, desk, alone, crossed, contested>>

\* With no target before and after, the column need not be written at all.
Written(t) ==
    IF tgt[t].pick # NoCopy \/ tgt[t].old # NoCopy THEN {tgt[t].pick}
    ELSE {NoCopy, hold[tgt[t].hold].current}

TargetWrite(t) ==
    /\ tgt[t].pc = "chosen"
    /\ \E c \in Written(t) : WriteColumns(t, [hold[tgt[t].hold] EXCEPT !.current = c])

\* The hold has expired, or has been round its libraries too often; by then the target
\* has been taken away.
TargetCancel(t) ==
    /\ \/ tgt[t].pc = "read" /\ tgt[t].hold \in Expiring
       \/ tgt[t].pc = "chosen" /\ tgt[t].pick = NoCopy
    /\ WriteColumns(t, [hold[tgt[t].hold] EXCEPT !.cancelled = TRUE,
            !.current = IF tgt[t].pc = "read" \/ tgt[t].old = NoCopy THEN @ ELSE NoCopy])

\* An error or a crash.
TargetExit(t) ==
    /\ tgt[t].pc \in {"read", "chosen"}
    /\ tgt' = [tgt EXCEPT ![t] = IdleTargeter]
    /\ UNCHANGED <<rows, asked, desk, alone, crossed, marks>>

-----------------------------------------------------------------------------
(* open-ils.circ: the requests about a hold.                               *)

\* A desk takes up a request.
Serve(d, q) ==
    /\ desk[d].pc = "idle"
    /\ desk' = [desk EXCEPT ![d] = q]
    /\ alone' = IF Busy = {} THEN {d} ELSE {}
    /\ UNCHANGED <<rows, tgt, asked, crossed, marks>>

Finish(d) == desk' = [desk EXCEPT ![d] = IdleDesk]

\* cancel_hold: a transit is kept, but will put the copy back on its shelf.
BeginCancel(d, h) ==
    LET r == hold[h]
        moving == r.captured /\ r.current # NoCopy /\ copy[r.current] = "in_transit"
    IN /\ ~r.cancelled
       /\ \E i \in IF moving THEN First(LegsOf(h)) ELSE {0} :
             Serve(d, [IdleDesk EXCEPT !.op = "cancel", !.pc = "ready", !.who = h,
                                       !.via = i, !.leg = LegAt(i), !.held = Read({h})])

CommitCancel(d) ==
    LET q == desk[d] IN
    /\ q.op = "cancel" /\ q.pc = "ready"
    /\ WriteHolds([q.held EXCEPT ![q.who].cancelled = TRUE])
    /\ IF q.via = 0 THEN UNCHANGED transit
       ELSE WriteLeg(q.via, [q.leg EXCEPT !.to = "available"])
    /\ Finish(d)
    /\ UNCHANGED <<copy, out, tgt, asked, alone, crossed, marks>>

Untargeted(r) == [r EXCEPT !.current = NoCopy, !.captured = FALSE, !.shelf = NoLib]

BeginUncancel(d, h) ==
    /\ hold[h].cancelled /\ ~hold[h].fulfilled
    /\ Serve(d, [IdleDesk EXCEPT !.op = "uncancel", !.pc = "ready", !.who = h,
                                 !.held = Read({h})])

CommitUncancel(d) ==
    LET q == desk[d] IN
    /\ q.op = "uncancel" /\ q.pc = "ready"
    /\ WriteHolds([q.held EXCEPT ![q.who] = [Untargeted(@) EXCEPT !.cancelled = FALSE]])
    /\ asked' = asked \cup {q.who}
    /\ Finish(d)
    /\ UNCHANGED <<copy, out, transit, tgt, alone, crossed, marks>>

\* update_hold_impl: suspending a hold.  _hold_status lets a captured hold pass
\* when its copy is neither in transit nor on the shelf.
MutantMayFreeze(r, h) ==   \* a filled hold may be frozen
    /\ ~r.cancelled /\ ~r.frozen
    /\ r.captured => /\ r.shelf \in {NoLib, PickupLib[h]}
                     /\ r.current # NoCopy => copy[r.current] \notin {"in_transit", "on_shelf"}

MayFreeze(r, h) ==
    /\ ~r.cancelled /\ ~r.frozen
    /\ r.captured => /\ ~r.fulfilled
                     /\ r.shelf \in {NoLib, PickupLib[h]}
                     /\ r.current # NoCopy => copy[r.current] \notin {"in_transit", "on_shelf"}

BeginFreeze(d, h) ==
    /\ MayFreeze(hold[h], h)
    /\ Serve(d, [IdleDesk EXCEPT !.op = "freeze", !.pc = "ready", !.who = h, !.held = Read({h})])

BeginThaw(d, h) ==
    /\ hold[h].frozen
    /\ Serve(d, [IdleDesk EXCEPT !.op = "thaw", !.pc = "ready", !.who = h, !.held = Read({h})])

\* The target that a request writes back into a hold that waits.
WrittenBack(q) == IF Waiting(q.held[q.who]) THEN {q.held[q.who].current} \ {NoCopy} ELSE {}

MutantCommitFreeze(d) ==   \* the target is left
    LET q == desk[d] IN
    /\ q.op \in {"freeze", "thaw"} /\ q.pc = "ready"
    /\ WriteHolds([q.held EXCEPT ![q.who].frozen = (q.op = "freeze")])
    /\ asked' = asked \cup (IF q.op = "thaw" THEN {q.who} ELSE {})
    /\ contested' = contested \cup (IF q.op = "thaw" THEN WrittenBack(q) ELSE {})
    /\ Finish(d)
    /\ UNCHANGED <<copy, out, transit, tgt, alone, crossed, overtaken>>

CommitFreeze(d) ==
    LET q == desk[d] IN
    /\ q.op \in {"freeze", "thaw"} /\ q.pc = "ready"
    /\ WriteHolds([q.held EXCEPT ![q.who] =
          IF q.op = "thaw" THEN [@ EXCEPT !.frozen = FALSE]
          ELSE [@ EXCEPT !.frozen = TRUE, !.current = NoCopy]])
    /\ asked' = asked \cup (IF q.op = "thaw" THEN {q.who} ELSE {})
    /\ contested' = contested \cup (IF q.op = "thaw" THEN WrittenBack(q) ELSE {})
    /\ Finish(d)
    /\ UNCHANGED <<copy, out, transit, tgt, alone, crossed, overtaken>>

\* _reset_hold, asked for by staff or by abort_transit.
BeginReset(d, h) ==
    Serve(d, [IdleDesk EXCEPT !.op = "reset", !.pc = "scanned", !.who = h])

ReadReset(d) ==
    LET q == desk[d]
        r == hold[q.who]
        has == r.captured /\ r.current # NoCopy
        moving == has /\ copy[r.current] = "in_transit"
    IN /\ q.op = "reset" /\ q.pc = "scanned"
       /\ \E i \in IF moving THEN First(LegsOf(q.who)) ELSE {0} :
             desk' = [desk EXCEPT ![d] =
                [q EXCEPT !.pc = "ready", !.copy = IF has THEN r.current ELSE NoCopy,
                          !.status = IF has THEN copy[r.current] ELSE "available",
                          !.via = i, !.leg = LegAt(i), !.held = Read({q.who})]]
       /\ UNCHANGED <<rows, tgt, asked, alone, crossed, marks>>

MutantCommitReset(d) ==   \* the copy keeps its status when its transit is aborted
    LET q == desk[d] IN
    /\ q.op = "reset" /\ q.pc = "ready"
    /\ WriteHolds([q.held EXCEPT ![q.who] = Untargeted(@)])
    /\ IF q.via = 0 THEN UNCHANGED transit
       ELSE WriteLeg(q.via, [q.leg EXCEPT !.state = "cancelled"])
    /\ copy' = IF q.status = "on_shelf" THEN [copy EXCEPT ![q.copy] = "available"] ELSE copy
    /\ Finish(d)
    /\ asked' = asked \cup {q.who}
    /\ crossed' = crossed \cup IF q.via # 0 /\ q.leg.copy # q.copy THEN {q.leg.copy} ELSE {}
    /\ UNCHANGED <<out, tgt, alone, marks>>

CommitReset(d) ==
    LET q == desk[d] IN
    /\ q.op = "reset" /\ q.pc = "ready"
    /\ WriteHolds([q.held EXCEPT ![q.who] = Untargeted(@)])
    /\ IF q.via = 0 THEN UNCHANGED transit
       ELSE WriteLeg(q.via, [q.leg EXCEPT !.state = "cancelled"])
    /\ copy' = CASE q.status = "on_shelf" -> [copy EXCEPT ![q.copy] = "available"]
                 [] q.via # 0 -> [copy EXCEPT ![q.copy] = "canceled_transit"]
                 [] OTHER -> copy
    /\ Finish(d)
    /\ asked' = asked \cup {q.who}
    /\ crossed' = crossed \cup IF q.via # 0 /\ q.leg.copy # q.copy THEN {q.leg.copy} ELSE {}
    /\ UNCHANGED <<out, tgt, alone, marks>>

\* abort_transit, then a reset of the hold the copy was travelling for.  A transit
\* asked for by its id is aborted even if it was received or cancelled before.
BeginAbort(d, i) ==
    /\ transit[i].state # "none"
    /\ Serve(d, [IdleDesk EXCEPT !.op = "abort", !.pc = "ready", !.copy = transit[i].copy,
                                 !.status = copy[transit[i].copy], !.via = i, !.leg = transit[i]])

CommitAbort(d) ==
    LET q == desk[d] IN
    /\ q.op = "abort" /\ q.pc = "ready"
    /\ WriteLeg(q.via, [q.leg EXCEPT !.state = "cancelled"])
    /\ copy' = IF q.status = "in_transit" THEN [copy EXCEPT ![q.copy] = "canceled_transit"]
               ELSE copy
    /\ IF q.leg.hold = NoHold THEN Finish(d)
       ELSE desk' = [desk EXCEPT ![d] = [IdleDesk EXCEPT !.op = "reset", !.pc = "scanned",
                                                         !.who = q.leg.hold]]
    /\ UNCHANGED <<hold, out, tgt, asked, alone, crossed, marks>>

-----------------------------------------------------------------------------
(* open-ils.circ: checkin.                                                 *)

\* A copy is in the hands of one desk at a time.
InHand(c) == \E d \in Desks : desk[d].op \in {"checkin", "checkout"} /\ desk[d].copy = c

\* mk_env and fix_broken_transit_status: a copy with an open transit counts as
\* in transit, whatever its status.
MutantScanIn(d, c, l) ==   \* transits are looked for by the status
    /\ ~InHand(c)
    /\ \E i \in IF copy[c] = "in_transit" THEN First(OnTheWay(c)) ELSE {0} :
          Serve(d, [IdleDesk EXCEPT !.op = "checkin", !.pc = "scanned", !.copy = c, !.lib = l,
                        !.status = copy[c], !.via = i, !.leg = LegAt(i)])

ScanIn(d, c, l) ==
    /\ ~InHand(c)
    /\ \E i \in First(OnTheWay(c)) :
          Serve(d, [IdleDesk EXCEPT !.op = "checkin", !.pc = "scanned", !.copy = c, !.lib = l,
                        !.status = IF i = 0 THEN copy[c] ELSE "in_transit",
                        !.via = i, !.leg = LegAt(i)])

\* cancel_transit_if_circ_exists has aborted a transit and waits for the reset of its hold.
Resetting(d) == desk[d].via = 0 /\ desk[d].leg.hold # NoHold
Scanned(d) == desk[d].op = "checkin" /\ desk[d].pc = "scanned" /\ ~Resetting(d)

\* Another transaction aborts the transit of a copy that circulates.
AbortForCirc(d) ==
    LET q == desk[d] IN
    /\ Scanned(d) /\ q.copy \in out /\ q.via # 0
    /\ WriteLeg(q.via, [transit[q.via] EXCEPT !.state = "cancelled"])
    /\ copy' = IF copy[q.copy] = "in_transit" THEN [copy EXCEPT ![q.copy] = "canceled_transit"]
               ELSE copy
    /\ desk' = [desk EXCEPT ![d].via = 0, ![d].leg = IF @.hold = NoHold THEN NoLeg ELSE @]
    /\ UNCHANGED <<hold, out, tgt, asked, alone, crossed, marks>>

\* A third one resets the hold, with the copy it has by now.
ResetForCirc(d) ==
    LET h == desk[d].leg.hold
        r == hold[h]
        c == IF r.captured THEN r.current ELSE NoCopy
    IN /\ desk[d].op = "checkin" /\ desk[d].pc = "scanned" /\ Resetting(d)
       /\ \E i \in IF c # NoCopy /\ copy[c] = "in_transit" THEN First(LegsOf(h)) ELSE {0} :
             /\ IF i = 0 THEN UNCHANGED transit
                ELSE WriteLeg(i, [transit[i] EXCEPT !.state = "cancelled"])
             /\ copy' = IF i # 0 THEN [copy EXCEPT ![c] = "canceled_transit"]
                        ELSE IF c # NoCopy /\ copy[c] = "on_shelf" THEN [copy EXCEPT ![c] = "available"]
                        ELSE copy
             /\ crossed' = crossed \cup IF i # 0 /\ transit[i].copy # c THEN {transit[i].copy} ELSE {}
       /\ hold' = [hold EXCEPT ![h] = Untargeted(@)]
       /\ asked' = asked \cup {h}
       /\ desk' = [desk EXCEPT ![d].leg = NoLeg]
       /\ UNCHANGED <<out, tgt, alone, marks>>

\* checkin_check_holds_shelf: the hold the copy is on the shelf for.
Shelved(d) == IF desk[d].status = "on_shelf" THEN Holding(desk[d].copy) ELSE {}

\* A copy on the shelf it belongs on, or in transit to another library:
\* NO_CHANGE and ROUTE_ITEM roll the transaction back.
NothingToDo(d) ==
    LET q == desk[d] IN
    /\ Scanned(d)
    /\ \/ \E h \in Shelved(d) : PickupLib[h] = q.lib
       \/ q.copy \notin out /\ q.via # 0 /\ q.leg.dest # q.lib
    /\ Finish(d)
    /\ UNCHANGED <<rows, tgt, asked, alone, crossed, marks>>

\* Its hold waits at another library.
FindRemoteHold(d) ==
    LET q == desk[d] IN
    /\ Scanned(d)
    /\ \E h \in Shelved(d) :
          /\ PickupLib[h] # q.lib
          /\ desk' = [desk EXCEPT ![d] = [q EXCEPT !.pc = "forward", !.who = h, !.held = Read({h})]]
    /\ UNCHANGED <<rows, tgt, asked, alone, crossed, marks>>

\* process_received_transit finds the hold the copy has come for, still open.
Arrived(d) == desk[d].copy \notin out /\ desk[d].via # 0 /\ desk[d].leg.dest = desk[d].lib

FindArrivedHold(d) ==
    LET q == desk[d] IN
    /\ Scanned(d) /\ Arrived(d)
    /\ q.leg.hold # NoHold /\ Open(hold[q.leg.hold])
    /\ desk' = [desk EXCEPT ![d] = [q EXCEPT !.pc = "arrive", !.who = q.leg.hold,
                                             !.held = Read({q.leg.hold})]]
    /\ UNCHANGED <<rows, tgt, asked, alone, crossed, marks>>

\* find_nearest_permitted_hold: the holds the copy is mapped to (nearest_hold)
\* and those that target it; the permit test may refuse any.
Candidates(c) ==
    {h \in Holds : Waiting(hold[h]) /\ ~hold[h].frozen /\ c \in Potential[h]} \cup Targeting(c)

\* The hold a received copy came for, when it was cancelled or filled meanwhile.
GoneHold(d) == IF Arrived(d) /\ desk[d].leg.hold # NoHold THEN {desk[d].leg.hold} ELSE {}

Unneeded(d) ==
    /\ Scanned(d) /\ Shelved(d) = {}
    /\ desk[d].via # 0 => Arrived(d)
    /\ \A h \in GoneHold(d) : ~Open(hold[h])

FindHold(d) ==
    LET q == desk[d] IN
    /\ Unneeded(d)
    /\ GoHome => HomeLib[q.copy] = q.lib
    /\ \E h \in Candidates(q.copy) :
          desk' = [desk EXCEPT ![d] = [q EXCEPT !.pc = "capture", !.who = h,
                       !.held = Read({h} \cup Targeting(q.copy) \cup GoneHold(d))]]
    /\ UNCHANGED <<rows, tgt, asked, alone, crossed, marks>>

FindNoHold(d) ==
    LET q == desk[d] IN
    /\ Unneeded(d)
    /\ desk' = [desk EXCEPT ![d] = [q EXCEPT !.pc = "shelve", !.held = Read(GoneHold(d))]]
    /\ UNCHANGED <<rows, tgt, asked, alone, crossed, marks>>

\* The status once circulation, transit and shelf are dealt with: what the copy
\* was received as, or reshelving.
Settling(q) ==
    IF q.copy \in out THEN "available"
    ELSE IF q.via # 0 /\ q.leg.hold = NoHold THEN q.leg.to
    ELSE IF q.pc = "forward" THEN "on_shelf"
    ELSE IF q.status \in {"canceled_transit", "checked_out"} THEN q.status
    ELSE "available"

Received(q) == IF q.via = 0 THEN transit
               ELSE [transit EXCEPT ![q.via] = [q.leg EXCEPT !.state = "received"]]

\* Creating a transit; copy_transit_is_unique refuses a second open one.
Depart(q, legs, h, l, s) ==
    /\ \A i \in TransitIds : legs[i].state = "open" => legs[i].copy # q.copy
    /\ \E i \in TransitIds :
          /\ legs[i].state = "none"
          /\ \A j \in TransitIds : j < i => legs[j].state # "none"
          /\ transit' = [legs EXCEPT ![i] = [state |-> "open", copy |-> q.copy, hold |-> h,
                                             dest |-> l, to |-> s]]
    /\ copy' = [copy EXCEPT ![q.copy] = "in_transit"]

\* checkin_build_copy_transit for a remote hold.
CommitForward(d) ==
    LET q == desk[d] IN
    /\ q.pc = "forward"
    /\ WriteHolds([q.held EXCEPT ![q.who].shelf = NoLib])
    /\ Depart(q, transit, q.who, PickupLib[q.who], Settling(q))
    /\ out' = out \ {q.copy}
    /\ Finish(d)
    /\ UNCHANGED <<tgt, asked, alone, crossed, marks>>

CommitArrive(d) ==
    LET q == desk[d] IN
    /\ q.pc = "arrive"
    /\ transit' = Received(q)
    /\ copy' = [copy EXCEPT ![q.copy] = q.leg.to]
    /\ WriteHolds([q.held EXCEPT ![q.who].shelf = q.lib])
    /\ contested' = contested \cup WrittenBack(q)
    /\ Finish(d)
    /\ UNCHANGED <<out, tgt, asked, alone, crossed, overtaken>>

\* put_hold_on_shelf for a received copy, whatever became of its hold.
Settled(q) == [h \in DOMAIN q.held |->
    IF q.via # 0 /\ h = q.leg.hold THEN [q.held[h] EXCEPT !.shelf = q.lib] ELSE q.held[h]]

\* The old holds of find_nearest_permitted_hold: those that wait for the copy.
Losing(q) == {h \in DOMAIN q.held \ {q.who} :
    ~q.held[h].cancelled /\ ~q.held[h].captured /\ q.held[h].current = q.copy}

\* attempt_checkin_hold_capture: the hold is captured and the old holds lose the copy.
MutantCaptured(q) == [h \in DOMAIN q.held |->   \* the old holds keep their target
    IF h = q.who
    THEN [Settled(q)[h] EXCEPT !.current = q.copy, !.captured = TRUE,
                !.cancelled = FALSE, !.fulfilled = FALSE,
                !.shelf = IF PickupLib[h] = q.lib THEN q.lib ELSE @]
    ELSE Settled(q)[h]]

Captured(q) == [h \in DOMAIN q.held |->
    IF h = q.who
    THEN [Settled(q)[h] EXCEPT !.current = q.copy, !.captured = TRUE,
                !.cancelled = FALSE, !.fulfilled = FALSE,
                !.shelf = IF PickupLib[h] = q.lib THEN q.lib ELSE @]
    ELSE IF h \in Losing(q) THEN [Settled(q)[h] EXCEPT !.current = NoCopy]
    ELSE Settled(q)[h]]

CommitCapture(d) ==
    LET q == desk[d] IN
    /\ q.pc = "capture"
    /\ WriteHolds(Captured(q))
    /\ IF PickupLib[q.who] = q.lib
       THEN /\ copy' = [copy EXCEPT ![q.copy] = "on_shelf"]
            /\ transit' = Received(q)
       ELSE Depart(q, Received(q), q.who, PickupLib[q.who], "on_shelf")
    /\ out' = out \ {q.copy}
    /\ asked' = asked \cup Losing(q)
    /\ Finish(d)
    /\ UNCHANGED <<tgt, alone, crossed, marks>>

\* The copy goes home, or back on its shelf.
CommitShelve(d) ==
    LET q == desk[d] IN
    /\ q.pc = "shelve"
    /\ WriteHolds(Settled(q))
    /\ IF HomeLib[q.copy] # q.lib
       THEN Depart(q, Received(q), NoHold, HomeLib[q.copy], Settling(q))
       ELSE /\ transit' = Received(q)
            \* a check-in of a reshelving copy is rolled back
            /\ \/ q.status = "available" /\ q.copy \notin out /\ UNCHANGED copy
               \/ copy' = [copy EXCEPT ![q.copy] = "available"]
    /\ out' = out \ {q.copy}
    /\ Finish(d)
    /\ UNCHANGED <<tgt, asked, alone, crossed, marks>>

\* bail_out: a constraint of the database or an event nobody overrides.
Bail(d) ==
    /\ desk[d].pc # "idle"
    /\ Finish(d)
    /\ UNCHANGED <<rows, tgt, asked, alone, crossed, marks>>

-----------------------------------------------------------------------------
(* open-ils.circ: checkout.                                                *)

\* do_copy_checks
ScanOut(d, c, w) ==
    /\ ~InHand(c)
    /\ copy[c] # "in_transit" /\ c \notin out
    /\ Serve(d, [IdleDesk EXCEPT !.op = "checkout", !.pc = "scanned", !.copy = c, !.who = w,
                                 !.status = copy[c]])

\* find_related_user_hold
Related(w, c) ==
    IF FillsRelated /\ w # NoHold /\ Open(hold[w]) /\ c \in Potential[w]
       /\ (hold[w].current # NoCopy => copy[hold[w].current] # "on_shelf")
    THEN {w} ELSE {}

\* handle_checkout_holds: one of the open holds with the copy, and the hold of
\* the patron that the checkout fills.
FindOpenHold(d) ==
    LET q == desk[d]
        claims == {h \in Holds : Open(hold[h]) /\ hold[h].current = q.copy}
    IN /\ q.op = "checkout" /\ q.pc = "scanned"
       /\ \E S \in IF claims = {} THEN {{}} ELSE {{h} : h \in claims} :
             LET fills == IF q.who \in S THEN S ELSE Related(q.who, q.copy) IN
             desk' = [desk EXCEPT ![d] = [q EXCEPT !.pc = "ready", !.held = Read(S \cup fills)]]
       /\ UNCHANGED <<rows, tgt, asked, alone, crossed, marks>>

CommitCheckout(d) ==
    LET q == desk[d] IN
    /\ q.op = "checkout" /\ q.pc = "ready"
    /\ out' = out \cup {q.copy}
    /\ copy' = [copy EXCEPT ![q.copy] = "checked_out"]
    /\ WriteHolds([h \in DOMAIN q.held |->
          IF h = q.who THEN [q.held[h] EXCEPT !.current = q.copy, !.captured = TRUE,
                                              !.fulfilled = TRUE]
          ELSE Untargeted(q.held[h])])
    /\ Finish(d)
    /\ UNCHANGED <<transit, tgt, asked, alone, crossed, marks>>

-----------------------------------------------------------------------------
Target(t) ==
    \/ \E h \in Holds : TargetRead(t, h) \/ TargetAsked(t, h)
    \/ TargetChoose(t) \/ TargetWrite(t) \/ TargetCancel(t) \/ TargetExit(t)

HoldRequest(d) ==
    \/ \E h \in Holds : BeginCancel(d, h) \/ BeginUncancel(d, h) \/ BeginFreeze(d, h)
                        \/ BeginThaw(d, h) \/ BeginReset(d, h)
    \/ \E i \in TransitIds : BeginAbort(d, i)
    \/ CommitCancel(d) \/ CommitUncancel(d) \/ CommitFreeze(d)
    \/ ReadReset(d) \/ CommitReset(d) \/ CommitAbort(d)

Checkin(d) ==
    \/ \E c \in Copies, l \in Libs : ScanIn(d, c, l)
    \/ AbortForCirc(d) \/ ResetForCirc(d) \/ NothingToDo(d)
    \/ FindRemoteHold(d) \/ FindArrivedHold(d) \/ FindHold(d) \/ FindNoHold(d)
    \/ CommitForward(d) \/ CommitArrive(d) \/ CommitCapture(d) \/ CommitShelve(d)

Checkout(d) ==
    \/ \E c \in Copies, w \in Holds \cup {NoHold} : ScanOut(d, c, w)
    \/ FindOpenHold(d) \/ CommitCheckout(d)

Next ==
    \/ \E t \in Targeters : Target(t)
    \/ \E d \in Desks : HoldRequest(d) \/ Checkin(d) \/ Checkout(d) \/ Bail(d)

Spec == Init /\ [][Next]_vars

-----------------------------------------------------------------------------
(* Properties that hold whatever interleaves                               *)

\* A copy that is marked as in transit has an open transit: no abort, cancel or
\* check-in that works from rows read earlier strands it.  Only a reset does: it
\* looks for the transits of its hold, and may end that of a copy the hold had
\* before.  (do_checkin has a branch for stranded copies: "in-transit, but there
\* is no transit.. repairing".)
InTransitHasTransit ==
    \A c \in Copies : copy[c] = "in_transit" => OnTheWay(c) # {} \/ c \in crossed

\* What a request has read of its transit: the row is there, and belongs to the
\* copy the request is about, except that a hold may have had other copies.
KnowsTransit(q) ==
    q.via # 0 =>
        /\ q.op \in {"cancel", "reset", "abort", "checkin"}
        /\ transit[q.via].state # "none" /\ transit[q.via].copy = q.leg.copy
        /\ q.op \in {"abort", "checkin"} => q.leg.copy = q.copy
        /\ q.op \in {"reset", "checkin"} => q.status = "in_transit"

\* The requests that may end their transit and leave the copy as it is: they read
\* the transit when it was closed, or the copy when it was elsewhere.
Closes(q) ==
    \/ q.op = "cancel" /\ q.leg.state # "open"
    \/ q.op = "abort" /\ q.status # "in_transit"

\* InTransitHasTransit in a form every step preserves: one of the open transits is
\* not about to be closed by a request that read it earlier.
TransitInv ==
    /\ HoldTypeOK
    /\ \A d \in Desks : KnowsTransit(desk[d])
    /\ \A c \in Copies : copy[c] = "in_transit" =>
          \/ c \in crossed
          \/ \E i \in OnTheWay(c) : \A d \in Desks : desk[d].via = i => ~Closes(desk[d])

\* A suspended hold that is not captured has no target (update_hold_if_frozen: "ensures
\* that the hold is not targeted"), unless a targeter that had read it before has
\* overtaken the suspension; the rows that check-ins, cancels and the request that
\* suspended it write back over one another give it none.
FrozenUntargeted ==
    \A h \in Holds :
        hold[h].frozen /\ Waiting(hold[h]) => hold[h].current = NoCopy \/ h \in overtaken

\* A suspended hold is not captured until it is activated ("the hold will be
\* suspended and not be captured until you activate it"), unless a targeter has
\* overtaken a request about it.
SuspendedWaits ==
    [][\A h \in Holds :
        hold[h].frozen /\ Waiting(hold[h]) /\ hold'[h].frozen /\ Open(hold'[h])
            => ~hold'[h].captured \/ h \in overtaken]_vars

\* A filled hold keeps the record of the copy that filled it, unless it was
\* reset or uncancelled afterwards, or a targeter wrote its old choice into it,
\* whatever rows counter and office overwrite.
FilledHasCopy ==
    \A h \in Holds :
        hold[h].fulfilled /\ hold[h].captured => hold[h].current # NoCopy \/ h \in overtaken

\* FrozenUntargeted and FilledHasCopy in a form every step preserves: they hold of
\* the rows that a transaction will write back, too, and who freezes a hold has
\* not read that of a filled one.
Sound(h, r) ==
    \/ h \in overtaken
    \/ /\ r.frozen /\ Waiting(r) => r.current = NoCopy
       /\ r.fulfilled /\ r.captured => r.current # NoCopy
Writable(q) ==
    \A h \in DOMAIN q.held :
        /\ Sound(h, q.held[h])
        /\ q.op = "freeze" => ~(q.held[h].fulfilled /\ q.held[h].captured)
RowsInv ==
    /\ \A h \in Holds : Sound(h, hold[h])
    /\ \A d \in Desks : Writable(desk[d])

\* Two waiting holds have the same target only if the copy was contested when it was
\* given to one of them: a targeter that was asked for a hold raced another, or one went
\* back to a target that had been given away, or a row was written back with the target of
\* a hold that waits, by the request that activates it or by a check-in whose copy has come
\* for a hold that waits again (process_received_transit).  Runs of the cron job, desks and
\* the rows they overwrite never share a copy out twice otherwise.
DistinctTargets ==
    \A g, h \in Holds :
        /\ g # h /\ Waiting(hold[g]) /\ Waiting(hold[h])
        /\ hold[g].current # NoCopy /\ hold[g].current \notin contested
        => hold[g].current # hold[h].current

-----------------------------------------------------------------------------
(* Properties of requests that do not overlap                              *)

\* A copy is the target of one open hold, captured or waiting, at most.
OneClaimPerCopy ==
    \A g, h \in Holds :
        g # h /\ Open(hold[g]) /\ Open(hold[h]) /\ hold[g].current # NoCopy
        => hold[g].current # hold[h].current

\* A copy a patron has borrowed is marked so, and no open hold still claims it:
\* handle_checkout_holds takes it from one hold, and there is no second.
BorrowedIsFree ==
    \A c \in out :
        /\ copy[c] = "checked_out"
        /\ \A h \in Holds : Open(hold[h]) => hold[h].current # c

\* Between requests that do not overlap, the rows of holds, copies and loans
\* agree on who has a claim on a copy.
SerialInv == HoldTypeOK /\ OneClaimPerCopy /\ BorrowedIsFree

\* Why: without overlap the rows that a request or a targeter will write back are
\* still those of the tables, it knows all holds that claim its copy, and a copy it
\* takes for returned, or has chosen as a target, still is returned or free.
NoOverlap ==
    /\ \A t, u \in Targeters : tgt[t].pc # "idle" /\ tgt[u].pc # "idle" => t = u
    /\ \A d, e \in Desks : desk[d].pc # "idle" /\ desk[e].pc # "idle" => d = e
    /\ \A t \in Targeters, d \in Desks : tgt[t].pc = "idle" \/ desk[d].pc = "idle"

TargetTrue(x) ==
    x.pc # "idle" =>
        /\ ToBeTargeted(x.hold) /\ x.old = hold[x.hold].current
        /\ x.pc = "chosen" => x.pick \in Usable(x.hold) \cup {x.old, NoCopy}
ReadsTrue(q) ==
    q.pc # "idle" =>
        /\ \A h \in DOMAIN q.held : q.held[h] = hold[h]
        /\ q.pc = "scanned" => DOMAIN q.held = {}
        /\ q.op \in {"reset", "abort"} /\ q.pc = "ready" /\ q.copy # NoCopy
               => q.status = copy[q.copy]
        /\ q.pc = "arrive" => q.copy \notin out
        /\ q.pc = "capture" => q.who \in DOMAIN q.held /\ Targeting(q.copy) \subseteq DOMAIN q.held
        /\ q.op = "checkout" /\ q.pc = "ready" => \A h \in Holds :
               Open(hold[h]) /\ hold[h].current = q.copy => h \in DOMAIN q.held

SerialIInv ==
    /\ SerialInv
    /\ \A t \in Targeters : TargetTrue(tgt[t])
    /\ \A d \in Desks : ReadsTrue(desk[d])

Settles(d) == CommitForward(d) \/ CommitArrive(d) \/ CommitCapture(d) \/ CommitShelve(d)
Tracked(c) == copy[c] = "in_transit" <=> OnTheWay(c) # {}

\* A check-in that no other transaction overlaps leaves status and transits of its
\* copy in agreement, whatever aborted transits, cancelled holds and resets of
\* another copy's hold have left behind (do_checkin, "repairing").
CheckinRepairs ==
    [][\A d \in Desks, c \in Copies :
         d \in alone /\ desk[d].copy = c /\ Settles(d)
         => Tracked(c)' /\ Cardinality(OnTheWay(c)') <= 1]_vars
=============================================================================
