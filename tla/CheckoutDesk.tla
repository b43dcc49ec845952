---------------------------- MODULE CheckoutDesk ----------------------------
(***************************************************************************)
(* The checkout page of the staff client: controller PatronCheckoutCtrl    *)
(* (circ/patron/checkout.js) with the services egCirc and patronSvc that   *)
(* all pages of the circulation application share.  Every scan is an       *)
(* attempt of its own that completes the barcode, asks the server, asks    *)
(* the staff and the server again, while the page may go on to the next    *)
(* scan or to the next patron; opening a patron's page loads the patron    *)
(* and the patron's counts in two more requests.                           *)
(*                                                                         *)
(* The server's part is open-ils.circ.checkout.full, renew and checkin,    *)
(* each one transaction.  Staff may override every event that can be.      *)
(***************************************************************************)
EXTENDS Naturals, Sequences, FiniteSets, SequencesExt

CONSTANTS
    Patrons, Nobody,
    Copies,         \* a copy stands for its full barcode too
    Shorts,         \* barcodes as staff type them, to be completed
    Matches,        \* Shorts -> the copies a typed barcode may stand for
    Scenes,         \* the desks to consider
    MaxScans, MaxOpens

Codes == Copies \cup Shorts

\* One desk: the barcodes at hand, how patrons and copies are, the settings,
\* and what staff do without waiting for answers.
Scene == [codes : SUBSET Codes,
          owing : SUBSET Patrons,       \* with PATRON_EXCEEDS_FINES
          missing : SUBSET Copies,      \* at first with COPY_NOT_AVAILABLE
          alerted : SUBSET Copies,      \* with a COPY_ALERT_MESSAGE
          lent : [Copies -> Patrons \cup {Nobody}],   \* at first
          renews : BOOLEAN,             \* circ.checkout_auto_renew_age is passed
          optsOut : BOOLEAN,            \* a patron may be refused (checkOptIn)
          hurries : SUBSET {"scan", "leave", "load"}]

ASSUME DeskAssumption ==
    /\ IsFiniteSet(Patrons) /\ IsFiniteSet(Copies)
    /\ Nobody \notin Patrons \cup Codes /\ Shorts \cap Copies = {}
    /\ Matches \in [Shorts -> (SUBSET Copies) \ {{}}]
    /\ Scenes \subseteq Scene
    /\ MaxScans \in Nat /\ MaxOpens \in Nat

VARIABLES
    scene,      \* which of the desks: no step changes it
    page,       \* whose record is open, and which visit of a page this is
    current,    \* patronSvc.current
    stats,      \* patronSvc.patron_stats.checkouts.out, or NoStats
    loads,      \* running getPrimary calls
    primary,    \* patronSvc.primaryUserId, while there is a primaryUserPromise
    rows,       \* patronSvc.checkouts, which the page shows
    list,       \* how often that list was replaced
    pending,    \* pending_barcodes of the page's controller
    auto,       \* egCirc.auto_override_checkout_events
    att,        \* Attempts -> one call of egCirc.checkout
    dialogs,    \* the attempts that wait for the staff, last one on top
    lent,       \* server: Copies -> who has the copy
    missing,    \* server: copies that give COPY_NOT_AVAILABLE
    confirmed   \* history: events overridden for a patron by "override" dialogs

patronVars == <<current, stats, loads, primary>>
serverVars == <<lent, missing>>
vars == <<scene, page, patronVars, rows, list, pending, auto, att, dialogs, serverVars,
          confirmed>>

Owing == scene.owing
Alerted == scene.alerted
AutoRenews == scene.renews
OptsOut == scene.optsOut
Hurries == scene.hurries

Attempts == 1..MaxScans
NoStats == MaxScans + Cardinality(Copies) + 1

Unavailable == "COPY_NOT_AVAILABLE"
Fines == "PATRON_EXCEEDS_FINES"
Alert == "COPY_ALERT_MESSAGE"
Overridable == {Unavailable, Fines, Alert}
\* checkout_auto_override_after_first
AutoAfterFirst == {Fines}

\* The events the server collects.
Events(p, c, action) ==
    {e \in Overridable : \/ e = Unavailable /\ action = "checkout" /\ c \in missing
                         \/ e = Fines /\ p \in Owing
                         \/ e = Alert /\ c \in Alerted}
--------------------------------------------------------------------------
(* Attempts *)

\* "status", "override", "alert" and "exists" are the dialogs.
Asking == {"status", "override", "alert", "exists"}
InFlight == {"typed", "sent", "served", "returning"} \cup Asking
Running == {i \in Attempts : att[i].st \in InFlight}
Waiting == {i \in Attempts : att[i].st = "unused"}

Attempt == [st : {"unused", "done", "rejected"} \cup InFlight,
            patron : Patrons \cup {Nobody}, typed : Codes \cup {Nobody},
            copy : Copies \cup {Nobody},
            visit : 0..MaxOpens, list : 0..MaxOpens, index : 0..MaxScans,
            action : {"checkout", "renew"},
            override : BOOLEAN,
            answer : {"none", "ok", "events", "own", "other", "auto", "refused"},
            evts : SUBSET Overridable,   \* of the last answer
            seen : SUBSET Overridable,   \* shown to the staff for this attempt
            over : SUBSET Overridable]   \* overridden by the server

Unused == [st |-> "unused", patron |-> Nobody, typed |-> Nobody, copy |-> Nobody,
           visit |-> 0, list |-> 0, index |-> 0, action |-> "checkout",
           override |-> FALSE, answer |-> "none", evts |-> {}, seen |-> {}, over |-> {}]

Row == [of : Attempts, index : 0..MaxScans, filled : BOOLEAN]

\* params.copy_barcode: completion replaces what was typed
CodeOf(i) == IF att[i].copy = Nobody THEN att[i].typed ELSE att[i].copy

\* "finally": only the controller that sent the attempt has its barcode
Unlisted(i) == IF att[i].visit = page.visit THEN pending \ {CodeOf(i)} ELSE pending

MutantWithout(index) ==   \* the index taken for the position
    IF rows = <<>> THEN rows
    ELSE RemoveAt(rows, IF index < Len(rows) THEN index + 1 ELSE Len(rows))

\* splice(pos, 1) with the last position of the index, and -1 if there is none
Without(index) ==
    LET at == {k \in DOMAIN rows : rows[k].index = index}
    IN  IF rows = <<>> THEN rows
        ELSE RemoveAt(rows, IF at = {} THEN Len(rows)
                            ELSE CHOOSE k \in at : \A j \in at : j <= k)

MutantReject(i) ==   \* the barcode stays listed
    /\ att' = [att EXCEPT ![i].st = "rejected"]
    /\ rows' = IF att[i].list = list THEN Without(att[i].index) ELSE rows
    /\ UNCHANGED pending

Reject(i) ==
    /\ att' = [att EXCEPT ![i].st = "rejected"]
    /\ rows' = IF att[i].list = list THEN Without(att[i].index) ELSE rows
    /\ pending' = Unlisted(i)

Filled(i) == [k \in DOMAIN rows |->
                IF rows[k].of = i
                THEN [rows[k] EXCEPT !.filled = TRUE] ELSE rows[k]]

Resend(i, a) == att' = [att EXCEPT ![i] = [a EXCEPT !.st = "sent"]]
--------------------------------------------------------------------------
(* Opening pages *)

MayLeave ==
    /\ dialogs = <<>>
    /\ page.visit < MaxOpens
    /\ Running = {} \/ "leave" \in Hurries
    /\ loads = {} \/ "load" \in Hurries

MutantNewList ==   \* the old rows stay
    list' = list + 1 /\ UNCHANGED rows

\* resetPatronLists
NewList == list' = list + 1 /\ rows' = <<>>

NewController(p) == page' = [at |-> p, visit |-> page.visit + 1] /\ pending' = {}

Load(p, step) == [of |-> p, visit |-> page.visit + 1, step |-> step, out |-> 0]

\* initTab: setPrimary(p) and getPrimary(p)
Open(p) ==
    /\ MayLeave
    /\ NewController(p)
    /\ \/ /\ primary = p                         \* the running promise is returned
          /\ UNCHANGED <<patronVars, rows, list>>
       \/ /\ primary # p /\ current = p /\ stats # NoStats
          /\ primary' = Nobody
          /\ UNCHANGED <<current, stats, loads, rows, list>>
       \/ /\ primary # p /\ current = p /\ stats = NoStats
          /\ primary' = p
          /\ loads' = loads \cup {Load(p, "stats")}
          /\ UNCHANGED <<current, stats, rows, list>>
       \/ /\ primary # p /\ current # p
          /\ NewList
          /\ stats' = NoStats
          /\ primary' = p
          /\ loads' = loads \cup {Load(p, "user")}
          /\ UNCHANGED current
    /\ UNCHANGED <<auto, att, dialogs, serverVars, confirmed>>

\* PatronBarcodeSearchCtrl: clearPrimary
Search ==
    /\ MayLeave
    /\ page.at # Nobody
    /\ NewController(Nobody)
    /\ NewList
    /\ current' = Nobody
    /\ stats' = NoStats
    /\ UNCHANGED <<loads, primary, auto, att, dialogs, serverVars, confirmed>>

UserArrives(l) ==
    /\ l.step = "user"
    /\ current' = l.of
    /\ loads' = (loads \ {l}) \cup {[l EXCEPT !.step = "stats"]}
    /\ UNCHANGED <<page, stats, primary, rows, list, pending, auto, att, dialogs,
                   serverVars, confirmed>>

\* Rejection of getPrimary is not handled: primaryUserPromise stays.
UserRefused(l) ==
    /\ OptsOut
    /\ l.step = "user"
    /\ loads' = loads \ {l}
    /\ UNCHANGED <<page, current, stats, primary, rows, list, pending, auto, att,
                   dialogs, serverVars, confirmed>>

OutOf(p) == Cardinality({c \in Copies : lent[c] = p})

StatsServed(l) ==
    /\ l.step = "stats"
    /\ loads' = (loads \ {l}) \cup {[l EXCEPT !.step = "served", !.out = OutOf(l.of)]}
    /\ UNCHANGED <<page, current, stats, primary, rows, list, pending, auto, att,
                   dialogs, serverVars, confirmed>>

\* fetchUserStats goes on with current, and fails when that is null: then
\* primaryUserPromise stays.
StatsArrive(l) ==
    /\ l.step = "served"
    /\ loads' = (loads \ {l}) \cup
                   IF current = Nobody THEN {} ELSE {[l EXCEPT !.step = "extras"]}
    /\ stats' = l.out
    /\ UNCHANGED <<page, current, primary, rows, list, pending, auto, att, dialogs,
                   serverVars, confirmed>>

\* getUserNonCats and fetchGroupFines write into the counts, and fail when these
\* are gone: then primaryUserPromise stays.
ExtrasArrive(l) ==
    /\ l.step = "extras"
    /\ loads' = loads \ {l}
    /\ primary' = IF stats = NoStats THEN primary ELSE Nobody
    /\ UNCHANGED <<page, current, stats, rows, list, pending, auto, att, dialogs,
                   serverVars, confirmed>>
--------------------------------------------------------------------------
(* The page *)

\* $scope.checkout and send_checkout
Scan(b) ==
    /\ page.at # Nobody
    /\ current # Nobody                          \* disable_checkout
    /\ dialogs = <<>>
    /\ Running = {} \/ "scan" \in Hurries
    /\ loads = {} \/ "load" \in Hurries
    /\ b \notin pending
    /\ \E i \in Waiting :
         /\ \A j \in Waiting : i <= j
         /\ att' = [att EXCEPT ![i] =
                      [Unused EXCEPT !.st = "typed", !.typed = b, !.patron = current,
                         !.visit = page.visit, !.list = list, !.index = Len(rows)]]
         /\ rows' = <<[of |-> i, index |-> Len(rows), filled |-> FALSE]>> \o rows
    /\ pending' = pending \cup {b}
    /\ UNCHANGED <<page, patronVars, list, auto, dialogs, serverVars, confirmed>>

\* handle_barcode_completion; staff choose when there are more matches
Complete(i) ==
    /\ att[i].st = "typed"
    /\ LET found == IF att[i].typed \in Shorts THEN Matches[att[i].typed]
                    ELSE {att[i].typed}
       IN  \/ /\ \E c \in found : Resend(i, [att[i] EXCEPT !.copy = c])
              /\ UNCHANGED <<rows, pending>>
           \/ /\ Cardinality(found) > 1
              /\ Reject(i)
    /\ UNCHANGED <<page, patronVars, list, auto, dialogs, serverVars, confirmed>>

\* The answers of open-ils.circ.checkout.full and renew
Answer(i) ==
    LET a == att[i]
        evts == Events(a.patron, a.copy, a.action)
    IN  IF a.action = "renew" /\ lent[a.copy] # a.patron THEN "refused"
        ELSE IF a.action = "checkout" /\ lent[a.copy] = a.patron
             THEN IF AutoRenews THEN "auto" ELSE "own"
        ELSE IF a.action = "checkout" /\ lent[a.copy] # Nobody THEN "other"
        ELSE IF evts # {} /\ ~a.override THEN "events"
        ELSE "ok"

Serve(i) ==
    /\ att[i].st = "sent"
    /\ LET a == att[i]
           evts == Events(a.patron, a.copy, a.action)
           ok == Answer(i) = "ok"
       IN  /\ att' = [att EXCEPT ![i].st = "served", ![i].answer = Answer(i),
                        ![i].evts = IF Answer(i) = "events" THEN evts ELSE {},
                        ![i].over = IF ok THEN evts ELSE @]
           /\ lent' = IF ok THEN [lent EXCEPT ![a.copy] = a.patron] ELSE lent
           /\ missing' = IF ok THEN missing \ {a.copy} ELSE missing
    /\ UNCHANGED <<page, patronVars, rows, list, pending, auto, dialogs, confirmed>>

\* "ok": handle_checkout_resp or handle_renew_resp, then the page.  A checkout
\* that did not become a renewal is counted first, and that fails without counts.
Finish(i) ==
    /\ att[i].st = "served" /\ att[i].answer = "ok"
    /\ att' = [att EXCEPT ![i].st = "done"]
    /\ pending' = Unlisted(i)
    /\ LET counted == att[i].action = "checkout"
       IN  /\ rows' = IF counted /\ stats = NoStats THEN rows ELSE Filled(i)
           /\ stats' = IF counted /\ stats # NoStats THEN stats + 1 ELSE stats
    /\ UNCHANGED <<page, current, loads, primary, list, auto, dialogs, serverVars,
                   confirmed>>

\* handle_overridable_checkout_event, handle_overridable_renew_event
Ask(i) ==
    LET evts == att[i].evts IN
    /\ att[i].st = "served" /\ att[i].answer = "events"
    /\ \/ /\ evts \subseteq auto
          /\ Resend(i, [att[i] EXCEPT !.override = TRUE])
          /\ UNCHANGED dialogs
       \/ /\ ~(evts \subseteq auto)
          /\ att' = [att EXCEPT ![i].st =
                       CASE Unavailable \in evts -> "status"
                         [] evts = {Alert} -> "alert"
                         [] OTHER -> "override"]
          /\ dialogs' = Append(dialogs, i)
    /\ UNCHANGED <<page, patronVars, rows, list, pending, auto, serverVars, confirmed>>

\* OPEN_CIRCULATION_EXISTS
AskOpen(i) ==
    /\ att[i].st = "served"
    /\ \/ /\ att[i].answer = "auto"
          /\ Resend(i, [att[i] EXCEPT !.action = "renew"])
          /\ UNCHANGED dialogs
       \/ /\ att[i].answer \in {"own", "other"}
          /\ att' = [att EXCEPT ![i].st = "exists"]
          /\ dialogs' = Append(dialogs, i)
    /\ UNCHANGED <<page, patronVars, rows, list, pending, auto, serverVars, confirmed>>

\* exit_alert
Refused(i) ==
    /\ att[i].st = "served" /\ att[i].answer = "refused"
    /\ Reject(i)
    /\ UNCHANGED <<page, patronVars, list, auto, dialogs, serverVars, confirmed>>
--------------------------------------------------------------------------
(* The dialogs: staff answer the one on top *)

OnTop(i) == dialogs # <<>> /\ Last(dialogs) = i

\* What a dialog shows of the events
Shown(i) == CASE att[i].st = "status" -> {Unavailable}
              [] att[i].st = "alert" -> {Alert}
              [] OTHER -> att[i].evts \ {Alert}

MutantConfirmEvents(i) ==   \* the alert has no dialog of its own
    /\ OnTop(i) /\ att[i].st \in {"status", "override", "alert"}
    /\ Resend(i, [att[i] EXCEPT !.override = TRUE, !.seen = @ \cup Shown(i)])
    /\ dialogs' = Front(dialogs)
    /\ UNCHANGED <<page, patronVars, rows, list, pending, auto, serverVars, confirmed>>

\* copy_not_avail_dialog, override_dialog and copy_alert_dialog.  An alert among
\* the events has its dialog next, and then nothing is registered.
ConfirmEvents(i) ==
    LET a == [att[i] EXCEPT !.override = TRUE, !.seen = @ \cup Shown(i)]
        toAlert == att[i].st # "alert" /\ Alert \in att[i].evts
        first == Shown(i) \cap AutoAfterFirst
    IN  /\ OnTop(i) /\ att[i].st \in {"status", "override", "alert"}
        /\ \/ /\ toAlert
              /\ att' = [att EXCEPT ![i] = [a EXCEPT !.st = "alert"]]
              /\ UNCHANGED <<dialogs, auto, confirmed>>
           \/ /\ ~toAlert
              /\ Resend(i, a)
              /\ dialogs' = Front(dialogs)
              /\ IF att[i].st = "override"
                 THEN /\ auto' = auto \cup first
                      /\ confirmed' = confirmed \cup ({a.patron} \X first)
                 ELSE UNCHANGED <<auto, confirmed>>
        /\ UNCHANGED <<page, patronVars, rows, list, pending, serverVars>>

\* circ_exists_dialog_impl: renew the patron's own loan, or return the other's.
\* The check-in is sent without copy_barcode: in_flight_checkins takes all of
\* them for one barcode, and lets one be in flight.
ConfirmOpen(i) ==
    /\ OnTop(i) /\ att[i].st = "exists"
    /\ dialogs' = Front(dialogs)
    /\ \/ /\ att[i].answer = "own"
          /\ Resend(i, [att[i] EXCEPT !.action = "renew"])
          /\ UNCHANGED <<rows, pending>>
       \/ /\ att[i].answer = "other"
          /\ \A j \in Attempts : att[j].st # "returning"
          /\ att' = [att EXCEPT ![i].st = "returning"]
          /\ UNCHANGED <<rows, pending>>
       \/ /\ att[i].answer = "other"
          /\ \E j \in Attempts : att[j].st = "returning"
          /\ Reject(i)
    /\ UNCHANGED <<page, patronVars, list, auto, serverVars, confirmed>>

Cancel(i) ==
    /\ OnTop(i)
    /\ dialogs' = Front(dialogs)
    /\ Reject(i)
    /\ UNCHANGED <<page, patronVars, list, auto, serverVars, confirmed>>

\* checkin with noop, and its answer, which sends the checkout again.  An alert of
\* the copy stops the check-in, unless staff override that in its dialog.
Return(i) ==
    LET c == att[i].copy IN
    /\ att[i].st = "returning"
    /\ \/ /\ lent[c] # Nobody
          /\ lent' = [lent EXCEPT ![c] = Nobody]
          /\ Resend(i, att[i])
          /\ UNCHANGED <<rows, pending>>
       \/ /\ lent[c] = Nobody                    \* NO_CHANGE
          /\ Reject(i)
          /\ UNCHANGED lent
       \/ /\ lent[c] # Nobody /\ c \in Alerted   \* COPY_ALERT_MESSAGE
          /\ Reject(i)
          /\ UNCHANGED lent
    /\ UNCHANGED <<page, patronVars, list, auto, dialogs, missing, confirmed>>
--------------------------------------------------------------------------
Init ==
    /\ page = [at |-> Nobody, visit |-> 0]
    /\ current = Nobody
    /\ stats = NoStats
    /\ loads = {}
    /\ primary = Nobody
    /\ rows = <<>>
    /\ list = 0
    /\ pending = {}
    /\ auto = {}
    /\ att = [i \in Attempts |-> Unused]
    /\ dialogs = <<>>
    /\ scene \in Scenes
    /\ lent = scene.lent
    /\ missing = scene.missing
    /\ confirmed = {}

OpenSome == \E p \in Patrons : Open(p)
ScanSome == \E b \in scene.codes : Scan(b)
LoadStep(l) ==
    UserArrives(l) \/ UserRefused(l) \/ StatsServed(l) \/ StatsArrive(l) \/ ExtrasArrive(l)
Hear(i) == Finish(i) \/ Ask(i) \/ AskOpen(i) \/ Refused(i)
Decide(i) == ConfirmEvents(i) \/ ConfirmOpen(i) \/ Cancel(i)
AttemptStep(i) == Complete(i) \/ Serve(i) \/ Return(i) \/ Hear(i) \/ Decide(i)

\* Everything has been answered; staff may do nothing more.
Resting == Running = {} /\ loads = {}

Next ==
    /\ \/ OpenSome \/ Search \/ ScanSome
       \/ \E l \in loads : LoadStep(l)
       \/ \E i \in Attempts : AttemptStep(i)
    /\ UNCHANGED scene

Spec == Init /\ [][Next]_vars
--------------------------------------------------------------------------
(* Properties *)

\* Staff wait for the patron and the counts, and no patron is refused.
Loaded == "load" \notin Hurries /\ ~OptsOut

\* Every barcode at hand is scanned in full.
InFull == scene.codes \cap Shorts = {}

\* Type correctness of the page, the services and the server; a dialog is open
\* for each attempt that waits for the staff, and for no other.
TypeOK ==
    /\ scene \in Scenes
    /\ page \in [at : Patrons \cup {Nobody}, visit : 0..MaxOpens]
    /\ current \in Patrons \cup {Nobody} /\ primary \in Patrons \cup {Nobody}
    /\ stats \in 0..NoStats
    /\ loads \subseteq [of : Patrons, visit : 1..MaxOpens,
                        step : {"user", "stats", "served", "extras"}, out : 0..Cardinality(Copies)]
    /\ rows \in Seq(Row) /\ list \in 0..MaxOpens
    /\ pending \subseteq Codes /\ auto \subseteq Overridable
    /\ att \in [Attempts -> Attempt]
    /\ dialogs \in Seq(Attempts) /\ IsInjective(dialogs)
    /\ ToSet(dialogs) = {i \in Attempts : att[i].st \in Asking}
    /\ lent \in [Copies -> Patrons \cup {Nobody}] /\ missing \subseteq Copies
    /\ confirmed \subseteq Patrons \X Overridable

\* The list shows the attempts made for it that were not rejected, each once:
\* the row of a rejected attempt goes, and no other one.  send_checkout finds it
\* by an index that is the length of the list at the scan, which two rows can
\* share when scans are not waited for.
RowsTrue ==
    "scan" \notin Hurries =>
        /\ {rows[k].of : k \in DOMAIN rows} =
             {i \in Attempts : att[i].list = list /\ att[i].st \in InFlight \cup {"done"}}
        /\ \A j, k \in DOMAIN rows : rows[j].of = rows[k].of => j = k

\* The row of a checkout that succeeded is filled, also when its answer came
\* after the page was left and opened again, so that it is on the receipt
\* (print_receipt takes the rows with a circulation).
RowsFilled ==
    Loaded => \A k \in DOMAIN rows : rows[k].filled <=> att[rows[k].of].st = "done"

\* What the list shows as checked out is lent to the patron of the page.
RowsLent ==
    Hurries = {} /\ Running = {} /\ Loaded =>
        \A k \in DOMAIN rows : rows[k].filled => lent[att[rows[k].of].copy] = page.at

\* Checkouts that a page shows are for the patron whose page it is, though
\* checkout takes the patron from the shared service.
RightPatron ==
    Loaded => \A k \in DOMAIN rows : att[rows[k].of].patron = page.at

\* A barcode in the list of pending ones is that of an attempt in flight: any
\* other would never be taken again.  A short barcode is taken off the list as
\* it was completed.
PendingUnderWay ==
    InFull => \A b \in pending :
        \E i \in Running : att[i].typed = b /\ att[i].visit = page.visit

\* While the page stays, no two attempts on one copy are in flight.
OneAttempt ==
    InFull => \A i, j \in Running :
        i # j /\ att[i].visit = att[j].visit => CodeOf(i) # CodeOf(j)

\* An event the server passed over was shown to the staff for this checkout, or
\* is of a kind they overrode before for this patron: events overridden once
\* are not asked about again, and that is for one patron while only one has any.
\* But fines that come with a missing copy are not in the dialog about the copy,
\* whose override is for both (copy_not_avail_dialog).
Passed(a, e) ==
    \/ e \in a.seen
    \/ <<a.patron, e>> \in confirmed
    \/ e = Fines /\ Unavailable \in a.seen

ShownFirst ==
    Cardinality(Owing) <= 1 => \A i \in Attempts : \A e \in att[i].over : Passed(att[i], e)

\* When nothing is under way, the number of items out that the page shows is
\* the one the server has for the patron.  (Of two scans of one copy, with one of
\* its barcodes short, the second may return it from the patron the first lent it to.)
Steady == "leave" \notin Hurries /\ "load" \notin Hurries /\ (InFull \/ "scan" \notin Hurries)
CountTrue ==
    Steady /\ Resting /\ page.at # Nobody /\ current # Nobody /\ stats # NoStats
        => stats = OutOf(current)

\* The promise setPrimary returns to the next caller is that of a load that runs.
LoadRuns ==
    Loaded /\ primary # Nobody => \E l \in loads : l.of = primary

\* The list on the page, row by row: whose attempts it shows, which of them are
\* done, and who has their copies.
DeskInv == TypeOK /\ RowsTrue /\ RowsFilled /\ RowsLent

\* What the page shows of the patron is of the patron whose page it is: the
\* checkouts, the counts and the load that is waited for.
PatronInv == RightPatron /\ CountTrue /\ LoadRuns

\* The pending barcodes keep attempts on one copy apart, and keep none out for good.
BarcodeInv == PendingUnderWay /\ OneAttempt
=============================================================================
