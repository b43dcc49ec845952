# Fulfillment: a verification project

This directory holds TLA+ models of parts of the Fulfillment library system
(Evergreen ILS with the FulfILLment resource-sharing extensions), the TLC
configurations that check them, and TLAPS proofs about them.

On the server:

* **Action/Trigger**: events (overdue notices, hold notices, ...) that are created,
  validated, reacted to and closed by requests of the `open-ils.trigger` service,
  and the cron script that drives it under a lock file.
* **Holds and circulation**: holds, the copies that fill them, and the transits
  that carry copies between libraries, as the hold targeter and the
  `open-ils.circ` service change them; the clearing of the holds shelf.
* **Lenders**: what the systems of other libraries hold and lend for FulfILLment,
  against what FulfILLment believes.

In the browser, with the part of the server each one talks to:

* **Offline circulation**: entering, saving, uploading and processing transactions
  during and after an outage, the list of blocked patrons, and the shared worker that
  keeps both for all tabs.
* **The pcrud services**: saving a list of objects in one transaction of a session.
* **The checkout page**: scans, dialogs and changes of patron that overtake each other.

The server keeps its state in PostgreSQL rows, worked on by processes that read a
row, decide, and write it back in a transaction, or in several. The browser keeps its
state in variables that callbacks change in the order in which answers arrive. That is
where both are hard to test.

Paths below are relative to `src/Open-ILS/src/`, Perl modules to its
`perlmods/lib/OpenILS/`, and JavaScript to `src/Open-ILS/web/js/ui/default/staff/`.

## 1. Inventory

### The system

Perl and C services speak OpenSRF (a message bus, one worker process per request,
drones that may be killed) and reach PostgreSQL through `open-ils.cstore`. Scripts
started by cron and web clients call the services. Concurrency is between worker
processes; there is no memory they share, only rows (and a few lock files and
memcached entries). A `CStoreEditor` opens a transaction with `xact_begin`; cstore
uses PostgreSQL's default isolation, and an `UPDATE` of cstore sets every column from
the object it is handed (`c-apps/oils_sql.c`, `doUpdate`), so a writer overwrites what
others have changed since it read the row.

| component | state | operations | interacts with |
|---|---|---|---|
| trigger service (`Application/Trigger.pm`, `Trigger/Event.pm`, `Trigger/EventGroup.pm`) | `action_trigger.event` (column `state`); Perl objects with the flags `valid`, `reacted`, `cleanedup` | autocreate, autocreate.batch, run_all_pending, event.fire, event_group.fire | runner; AppUtils' `fire_object_event`; circ and holds create events; plug-ins validate and react |
| runner (`support-scripts/action_trigger_runner.pl.in`) | lock file | take the lock, process hooks, run pending, give the lock up | trigger service, cron |
| hold targeter (`Application/HoldTargeter.pm`, `Utils/HoldTargeter.pm`; `copy_targeter` of `Application/Storage/Publisher/action.pm`) | `hold_request.current_copy`, `prev_check_time`, `hold_copy_map` | target the holds of a parallel slot, or those it is asked for | holds API and check-in (which ask for it), LAI core |
| holds API (`Application/Circ/Holds.pm`) | `hold_request`; transits and copies of captured holds | place, update, suspend, cancel, uncancel, reset, clear the shelf | transits, targeter, trigger |
| transits (`Application/Circ/Transit.pm`) | `transit_copy`, `hold_transit_copy`, copy status | create, receive, abort | holds API (reset), check-in (abort) |
| circulation (`Application/Circ/Circulate.pm`) | `circulation`, copy status, all of the above | checkout, checkin, renew | holds, transits, fines, booking, trigger |
| LAI core and connectors (`../FulfILLment/`) | remote systems | place and delete holds at lenders, check out and in there | targeter, cancel, reset; the fulfillment page (`ffstaff/fulfillment/app.js`) through check-in |
| offline page (`offline.js`, `services/lovefield.js`, `services/ui.js`) | `all_xact`, `pending_xacts`, forms, the unload prompt | add, save, register, export, import, upload, process, clear, download blocks | shared worker, `offline.pl` |
| shared worker (`offline-db-worker.js`) | tables of transactions, dates and blocks; which schemas are connected | create and connect schemas, queries, rebuilding the block list | all tabs of the browser |
| `offline.pl` (`offline/offline.pl`) | log files of sessions, `offline.script`, forked children | load, execute | offline page, circulation |
| pcrud services (`services/pcrud.js`, eg2 `core/pcrud.service.ts`) | a promise, `cud_idx`, a session | create, update, remove, apply, authoritative reads | `open-ils.pcrud` (`c-apps/oils_pcrud.c`, `oils_sql.c`) |
| checkout page (`circ/patron/checkout.js`, `circ/services/circ.js`, `services/patron_search.js`) | rows, pending barcodes, the current patron and counts, overridden events | open a patron, scan, dialogs, checkout, renew | `open-ils.circ` |
| fines and payments, booking, reporter daemon, pbx daemon, authentication, acquisitions, serials, Vandelay, search, SIP, web clients | see `PROJECT.json` | | |

`PROJECT.json` lists every component with what is and is not modelled of it, and why.

### What is hard, and what makes each component correct

* **Trigger service.** Several requests may hold Perl objects of the same event, and
  each writes its next state over whatever is there. Workers are killed; reactors
  die half-way. Correct means: a reactor runs only for an event some validator
  approved; a closed event was reacted to; an event leaves `pending` once.
* **Runner.** The lock is given up at the *first answer* of a request that goes on
  for hours, timeouts give it up as well, and a killed runner keeps it. Correct means:
  while the lock works no event is created or reacted to twice, and none is left
  pending for ever.
* **Targeter.** It reads a hold, looks at many copies, and writes its choice into whatever
  the hold is by then; holds are targeted by a cron job in slots, and on request in none.
  Correct means: two waiting holds do not have one target; a suspended hold has none and
  is not captured; a filled one keeps its copy.
* **Clearing the shelf.** A list is read, then each row is read and written back whole,
  in one long transaction beside the desks. Correct means: a hold that was picked up is
  not cancelled; what waits is shown as being there; a patron is told once.
* **Lenders.** A request commits and then makes calls that may fail, come late or be
  overtaken. Correct means: a waiting hold is held at its lender, a lender holds nothing
  for nobody, and a copy is on loan there only while it is away.
* **Offline circulation.** Tabs, worker and server exchange messages; tabs are closed,
  staff click twice and do not wait. Correct means: no transaction is lost or run twice,
  and a patron who is on the list is found.
* **pcrud services.** Requests are sent one by one in answer to answers. Correct
  means: all or nothing is saved, and the caller hears which.
* **Checkout page.** Every scan is a chain of callbacks over variables that all pages
  share. Correct means: a row is that of its checkout, an attempt belongs to the patron on
  the screen, nothing is overridden that was not shown.
* **Circulation, holds, transits.** Every request touches several tables from rows it
  read before. Correct means: copy status and transits agree (or are brought in
  agreement by the next check-in); a copy has one claim at most; a borrowed copy none.

The hazards, each with its line and the properties that watch it, are in
`PROJECT.json`.

## 2. Modules

| module | models |
|---|---|
| `EventPromise` | abstract: what Action/Trigger promises about one event |
| `TriggerEvent` | rows of `action_trigger.event` and the requests that drive them |
| `TriggerRunner` | extends `TriggerEvent` by runners, lock file, event creation, failures |
| `TriggerProofs` | theorems about `TriggerEvent` and `TriggerRunner` |
| `HoldRequests` | holds, copies, circulations, transits; targeter and desks |
| `HoldRequestsProofs` | theorems about `HoldRequests` |
| `ShelfClearing` | `clear_shelf_process` beside the desks |
| `ShelfClearingProofs` | theorems about `ShelfClearing` |
| `LenderHolds` | calls to lenders' systems after the commits of the targeter and of `open-ils.circ` |
| `LenderHoldsProofs` | theorems about `LenderHolds` |
| `OfflineLedger` | abstract: where an offline transaction may be, and where it may go |
| `OfflineXacts` | offline page, worker and `offline.pl`: from the page to the server |
| `OfflineXactsProofs` | theorems about `OfflineXacts`, and that it implements `OfflineLedger` |
| `OfflineEntry` | offline page and worker: the entry form and the block list |
| `WorkerSchemas` | how tabs create and connect the schemas of the worker |
| `OfflinePage` | composes the last two: tabs that connect, then staff who enter |
| `OfflinePageProofs` | theorems about `OfflinePage` and its two parts |
| `AtomicBatch` | abstract: saving a list of objects at once |
| `PcrudSession` | one call of a pcrud service and the session it opens |
| `PcrudSessionProofs` | theorems about `PcrudSession` |
| `CheckoutDesk` | the checkout page, its services and what they ask of `open-ils.circ` |
| `CheckoutDeskProofs` | theorems about `CheckoutDesk` |
| `MC...` | constants, symmetry and constraints for TLC |

The requests of the desks, several steps in `HoldRequests`, are one step each in
`ShelfClearing` and `LenderHolds`: what those modules add is what happens between such
requests. `OfflinePage` extends `OfflineEntry` and instantiates `WorkerSchemas`: what its
staff do begins when every tab has been served. `OfflineXacts` is about the same page
and worker, and shares with it only that requests are answered.

Where one module is checked in several circumstances (how staff work, which requests
overlap, what may be lost), a variable that no step changes holds the one of the
behaviour, chosen in `Init` from a constant set: `scene` from `Scenes` (`ShelfClearing`,
`LenderHolds`, `CheckoutDesk`), `ways` from `Ways` (`OfflineXacts`), `manner` from `Manners`
(`OfflineEntry`), `client` from `Clients` (`PcrudSession`). A property that needs a circumstance
names it as its premise, so that one reads in the property when it holds.

A definition called `Mutant...` is never used by a specification. It is a changed
form of the definition that follows it, a plausible bug, kept to show that a property
notices it.

### TriggerEvent

`state` is the state column; a row that does not exist yet is `absent`. A request
(`req`) is one service call. `obj[r][e]` is the `Event` object request `r` has of event
`e`: how far loading has come, its three flags (undefined, false or true, as in Perl)
and whether its environment is complete. `unit[r][u]` is the firing of a lone event or
of an `EventGroup`: its members and *its own* flags. `approved`, `reactions` and
`completed` are history.

Every transaction of the code is one action: `update_state` commits, so each state
change is a step, and other requests come in between.

| code | actions |
|---|---|
| `create_*event*` | `CreateEvents` |
| `pending_events`, `grouped_events`, `gather_events` | `FindPending`, `ReadEvent`, `MarkFound`, `RetrieveTarget`, `StartCollect`, `EndCollect`, `Dispatch` |
| `fire_single_event`, `fire_event_group` | `CallFire`, the same loading, or `LoadGroup` (one editor for all members) |
| `Event::validate`, `EventGroup::validate` | `SkipValidate`, `StartBuild`, `EndBuild`, `StartValidate`, `EndValidate` |
| `react` | `SkipReact`, `StartReact`, `RunReactor`, `ReactorThrew`, `EndReact` |
| `cleanup` | `SkipCleanup`, `StartCleanup`, `EndCleanup` |
| `die` of a failed update, killed workers | `GatherFails`, `CollectFails`, `ValidateFails`, `FireDies`, `RequestDies` |

Peculiarities of the code that the model keeps: `react` sets `reacted` to whatever the
reactor returns, and *any defined value*, false included, leads to `reacted`; an exception
after the result was stored writes `error` and then `reacted` over it; loading a row writes
`found` even over `complete`; a row that was `reacting` when loaded counts as valid, so
its reactor runs again, and one that was `validating` is validated again; a group starts
with undefined flags whatever its members' were; delegated work (parallel collect and
react) survives the death of its parent.

### TriggerRunner

`lock` holds the pid in the lock file or `Free`. A runner goes `Check` (sees no file),
`TakeLock` (writes it), `HooksDone`, `RunPending`, `Found` (first answer, unlinks its
own lock), `Exit`. The `autocreate.batch` call is `SearchDue`, `CreateDue`. `TimeOut` is
the runner's `recv` giving up while the service goes on; `Kill` leaves the lock file.
`slips` records that the lock failed (two runners between test and write, or a
timeout during a search); the safety properties speak of the behaviours in which it has
not, because the code itself says that it may ("there's a tiny race condition here").

### HoldRequests

| state | code |
|---|---|
| `hold[h]` | `current_copy`, `capture_time`, `current_shelf_lib` (with `shelf_time`), `frozen`, `cancel_time`, `fulfillment_time` |
| `copy[c]` | `asset.copy.status`; Available and Reshelving are one value |
| `out` | copies with an open circulation |
| `transit[i]` | a row of `transit_copy` or `hold_transit_copy`: open, received or cancelled, its copy, hold, destination and the status the copy takes on arrival |
| `tgt[t]`, `desk[d]` | a transaction in progress: where it is and the rows it has read |
| `asked` | the requests `open-ils.hold-targeter` has received for single holds |
| `alone`, `crossed` | history: undisturbed requests; copies whose transit a reset of another copy ended |
| `overtaken` | history: holds a targeter has written when they were no longer to be targeted |
| `contested` | history: copies given to a hold while another had a claim on them |

A transaction is one or two reading steps and a commit that writes whole rows from what
was read (`WriteHolds`, `WriteLeg`); `copy_targeter` alone writes only the columns it
changes (`WriteColumns`). Two constraints of the schema are
part of the commits: the unique index on the copy of captured holds (`CaptureProtect`)
and the trigger against a second open transit (`Depart`). `Bail` is any roll-back.

| code | actions |
|---|---|
| `hold_targeter`, `find_holds_to_target`, `copy_targeter` | `TargetRead` (a hold of the slot) or `TargetAsked` (one it is asked for), `TargetChoose`, then `TargetWrite`, `TargetCancel` or `TargetExit` |
| `cancel_hold`, `uncancel_hold` | `BeginCancel`/`CommitCancel`, `BeginUncancel`/`CommitUncancel` |
| `update_hold_impl` (suspend, activate) | `BeginFreeze`, `BeginThaw`, `CommitFreeze` |
| `reset_hold`, `_reset_hold` | `BeginReset`, `ReadReset`, `CommitReset` |
| `abort_transit`, `__abort_transit` | `BeginAbort`, `CommitAbort`, followed by `ReadReset`, `CommitReset` for its hold |
| `do_checkin` | `ScanIn`, `AbortForCirc` and `ResetForCirc` for a copy that circulates, then one of `NothingToDo`, `FindRemoteHold`, `FindArrivedHold`, `FindHold`, `FindNoHold`, then `CommitForward`, `CommitArrive`, `CommitCapture` or `CommitShelve` |
| `do_checkout` | `ScanOut`, `FindOpenHold`, `CommitCheckout` |

`OpenILS::Utils::HoldTargeter` has a class `Single` that targets one hold, but its only call
is commented out (`Application/HoldTargeter.pm:89`); for each hold of the list
`hold_targeter` calls `copy_targeter` of `open-ils.storage`, and that is what the module
models. A run of the cron job takes holds of its own slot (`SlotOf`); a process in `OnDemand`
takes holds from `asked`, into which go the holds that were placed, activated, uncancelled or
reset, and those that lost their target to a capture (`retarget_holds`), in whatever slot they
are. The requests are not waited for, in the model, so a targeting on request comes at any time
later, or never.

What a targeter does after the hold has changed is the subject of two history variables, which
no action reads. `overtaken` has the holds that were captured, suspended or closed when their
targeter wrote. `contested` has the copies that a targeter picks while another has picked
the same one, one of the two on request; the old target that a targeter goes back to although
another hold has got it since; and the target of a hold that waits when a check-in (`arrive`)
or the request that activates it writes its row back.

A search whose first row is taken (`->[0]`) is a choice of any matching row. Permit
tests (hold and circulation policy) may refuse anything. A copy is one object, so at most
one desk checks it in or out at a time (`InHand`).

### ShelfClearing

`work[w]` is a run of `clear_shelf_process`: the ids of its list, the hold and copy it
has fetched, and the rows it has written and not committed. A written row is locked, so
that desks and other clearings wait for it; two that wait for each other are found by
the database, which ends one (`Deadlock`). `List` is `fetch_captured_holds` over the view
`alhr`, `Fetch`, `WriteHold`, `WriteCopy` are the body of the loop, `Commit` the commit with the
events. Setting a column to `undef` through Fieldmapper leaves it, and
`$copy_status == 0` is true of a setting that is not set: the copy is then written back with
the status it was read with. The grouping of copies after the commit only reads.

### LenderHolds

A lender's system is, for each copy, how many holds of FulfILLment's user are on it and
whether that user has it on loan. `work[w]` is a request of `open-ils.circ` or a run of the
targeter: what it found, and the calls that it will make after its commit.

| code | actions |
|---|---|
| `copy_targeter` | `BeginTarget`, `FindTarget`, `WriteTarget`; its calls are `FarCalls` (delete at the old lender, place at the new one) |
| `cancel_hold`, `uncancel_hold`, `_reset_hold` | `Cancel`, `Uncancel`, `Reset` |
| check-in for capture, checkout, check-in at home from the fulfillment page | `Capture`, `Fill`, `Receive` |
| `hold.lender.place`, `hold.lender.delete_earliest`, `circ.lender.checkout`, `circ.lender.checkin` | `MakeCall` |

Not modelled here: frozen holds, blocks, and the borrower's side (temporary copies and
their holds and loans).

### OfflineXacts and OfflineLedger

Page and worker exchange messages: `mail[t]` is the queue of requests of tab `t`, which
the worker carries out (`Work`) and whose answers the tab then reads (`Inserted`, `Dated`,
`Wiped`, `Undated`, `Listed`, `Refused`). `saving` holds the promises of `save()`.

| code | actions |
|---|---|
| `add`, `save`, the registration form | `Add`, `Save` (`StartSave`, `SaveSettled`), `Register` |
| `addOfflineXact`, `clear_pending`, `retrieve_pending` | two requests for the first two, the rows and then the date; one for the last |
| `egLineExporter`, the watch of `imported_pending_xacts` | `Export`, `Import` |
| `uploadPending` | `AskUpload`, `Select`, `GotExceptions`, `LoadCheck`, `LoadAppend`, `Loaded`, `NotLoaded` |
| `processSession`; `ol_execute` and its child | `Process`; `ChildRuns` |
| the unload prompt; closing and reloading | `Stay`; `Close`, `Reload` |

`Hurries` lists what staff do without waiting for the answer: work in two tabs at once
(`tabs`), add after Save (`add`), press Save again (`save`), click a row during an upload
(`click`), process again (`process`). It is one part of `ways`; the others say whether patrons
are registered, tabs may be closed, staff stay when asked, answers be lost and inserts be
refused. An upload whose rows the worker cannot read leaves the progress dialog open, so that the
tab is of no more use until it is loaded again (`Refused`); one whose session's exceptions
cannot be fetched does not begin (`NotLoaded`). A page that is closed leaves its requests with the worker, which carries them out and
answers nobody (`Orphans`). Receipts and printing are left out.

`OfflineLedger` is the promise: page, store, server, or dropped by the staff, and no move
to "lost". `Fate` reads a transaction's place off the state, and `KeepsLedger` is
`OfflineLedger` with `fate <- Fate`.

### OfflineEntry

The form, the page's list, the lookups under way and the dialogs; and in the worker the
table of blocked patrons with the builds of it (`Start`, `Fetched`, `Cleared`, `Filled`,
`Stored`: one transaction each). `manner.patient` staff wait for each answer,
`manner.apart` ones also for a rebuild. `Add` is `add`, `Tested` the answer of `testOfflineBlock`,
`Allow` and `Reject` the dialogs. `known`, a history variable, is the list downloaded last.

### WorkerSchemas

`step[t][s]` is `connectToSchema` of a tab, `job` its requests, `out` and `back` the messages
of its port, `db` the databases in the worker. A connect while another one is under way is
refused, as Lovefield does. Each page of the staff client but the offline page uses the
cache alone.

### PcrudSession and AtomicBatch

`reqs` are the requests the client has sent, `ans` the server's answers in the same
order, `heard` how many of them have arrived. `client` is the AngularJS or the
Angular service; they differ in what they do with an object that needs no writing, and
`Autos` are the requests the latter sends by mistake. The server's part is
`ServeConnect`, `ServeBegin`, `ServeWrite`, `ServeRead`, `ServeClose`, `ServeError`,
`ServeDisconnect`, `Refuse` (which of them may be refused is `Refusals`), `TimeOut` and
`ServeElsewhere`, a request after the session has gone. The client's is `Connected`,
`Begun`, `Advance` (nextCudRequest), `Wrote`, `HaveRead`, `BodyFails`, `Closed`, `NotClosed`.

### CheckoutDesk

`att[i]` is one call of `egCirc.checkout`: typed, sent, served, in a dialog, sent again, done
or rejected. `rows`, `pending`, `current`, `stats` and `auto` are the variables of page and
services; `page.visit` tells one instance of the controller from the next, because
a callback of the old one keeps its own `pending_barcodes` but shares `patronSvc`. A load
of a patron is three answers, `UserArrives`, `StatsArrive` and `ExtrasArrive` (group fines and
noncataloged items, which the promise waits for as well). The server's part is one step,
`Serve`.

| code | actions |
|---|---|
| `setPrimary`, `getPrimary` | `Open`, `Search`, `UserArrives`, `UserRefused`, `StatsServed`, `StatsArrive`, `ExtrasArrive` |
| `$scope.checkout` | `Scan`, `Finish`, `Refused` |
| `egCirc.checkout`, `renew`, `test_barcode`, `handle_checkout_resp` | `Complete`, `Answer`, `Serve`, `Ask`, `AskOpen` |
| override, alert and exists dialogs | `ConfirmEvents`, `ConfirmOpen`, `Cancel`, `Return` |

`Hurries` says what staff do without waiting: `scan` the next item, `leave` the page,
or go on while a page is being loaded (`load`). Dialogs are answered top first, staff may
override every event that can be. Folded or left out: the second completion of a
barcode, exit alerts, the steps of the check-in that precedes a checkout from another patron
(`Return`: it succeeds, changes nothing, or is stopped by an alert of the copy); precat and
noncat items, copies in transit or on the shelf, claims, due dates, receipts.

## 3. Runs

| run | instance | properties |
|---|---|---|
| `trigger_event` | 2 requests race over a lone event, or one drives a group of 2 events again and again, with parallel workers | `ReactedOnlyIfApproved`, `ProcessedMeansReacted`, `NeverPendingAgain`, `PromiseKept` |
| `trigger_runner` | 2 runners with hooks, 2 requests, 3 events for 2 targets, at most 2 failures | `RunnerInv`, `ReactedOnce` |
| `trigger_settles` | 2 runners (1 with hooks), 1 request, 2 events, at most 1 failure, fairness | `TakenUp`, `Settles` |
| `holds_serial` | 2 holds, 2 copies, 2 transits, one transaction at a time | `SerialInv`, `CheckinRepairs` |
| `holds_targeting` | 2 holds, 1 copy, 1 transit; the cron job, a targeter on request and 1 desk, any two at a time | `FrozenUntargeted`, `SuspendedWaits`, `DistinctTargets`, `FilledHasCopy` |
| `holds_office` | 1 hold, 2 copies, 2 transits; the counter and the office overlap | `InTransitHasTransit` |
| `shelf` | 3 holds, 2 copies, up to 2 clearings, 3 scenes, fairness | `ShelfInv`, `ToldOnce`, `ClearingEnds` |
| `lender` | 2 holds, 2 copies, 2 processes, 4 scenes | `LenderInv`, `Asked`, `StraysExplained` |
| `offline` | 3 transactions (1 a registration), 2 sessions, 2 uploads, 5 ways of working | `OfflineInv`, `DateTells`, `KeepsLedger` |
| `offline_page` | 2 tabs with 2 schemas; 3 patrons, 2 items, 4 lists, patient or hasty staff, fairness | `PageInv`, `Recorded`, `BlockedAreFound`, `DownloadsEnd`, `RequestsEnd` |
| `pcrud` | both clients, 5 objects, any refusal, sessions that time out, fairness | `AllOrNothing`, `ToldTrue`, `KeepsBatch`, `CallEnds` |
| `checkout` | 2 patrons, 3 copies, a short barcode, 3 scans, 3 scenes | `DeskInv`, `PatronInv`, `BarcodeInv`, `ShownFirst` |

The invariants that end in `Inv` are conjunctions of named parts, stated and commented one
by one:

| invariant | parts besides the type invariant |
|---|---|
| `RunnerInv` | `OneSearcher` (one search for due objects at a time), `OneEventPerTarget` |
| `SerialInv` | `OneClaimPerCopy`, `BorrowedIsFree` |
| `ShelfInv` | `LentIsOut`, `WaitingIsThere`, `PickedUpStays` |
| `LenderInv` | `LentIsAway` |
| `OfflineInv` | `NothingLost`, `RunOnce`, `SentWhereAsked` |
| `PageInv` | `ConnectedIsOpen` of `WorkerSchemas`, `ListWhole` |
| `DeskInv` | `RowsTrue`, `RowsFilled`, `RowsLent` |
| `PatronInv` | `RightPatron`, `CountTrue`, `LoadRuns` |
| `BarcodeInv` | `PendingUnderWay`, `OneAttempt` |

`CallEnds` is `Settles` (the caller hears something) and `Disconnects` (the session ends).

### Scenes

* `offline`: *Desk* presses Save twice, closes tabs and loses answers; *Form* registers a
  patron, which saves the page and reloads it, and clicks rows during uploads; *Refusing* has
  inserts that the database refuses; *Careless* staff wait for nothing, stay
  when asked whether to leave, and import what they exported; *TwoTabs* enter in one tab
  while the other uploads.
* `offline_page`: staff who wait enter three transactions with one download, hasty ones one
  transaction with two. Before that the tabs start together, with a worker that may fail to
  open a database.
* `shelf`: *Alone*, one clearing and desks that pause for it; *Twice*, two clearings and
  resets at any time; *Cancels*, patrons cancel during a clearing, and no status is set for
  cleared copies, so that the same rows are listed again.
* `lender`: *Strays*, all requests one after the other with one of two lenders
  connected; *Unsure*, both connected, a hold that expires, lost calls and captures
  clicked in an old list; *LateDeletes*, the delete of a cancel comes later than other requests;
  *Loans*, two requests of any kind at a time about one copy, with resets of closed holds.
* `checkout`: *Waits*, staff wait, one barcode is typed short, and one copy is missing beside
  patrons who owe; *Scans*, they scan on, two
  copies are missing, and a patron may be refused; *Leaves*, they leave a page during a checkout
  and come back, and loans are renewed.

### Bounds, and why they are enough

* *Requests, runners, desks: two.* Every hazard listed is a race of one request with
  another. `MaxFaults` counts failures of any kind; with two, a killed runner and a
  failing service, or two successive failures, occur in one behaviour.
* *Events: three for two targets* lets the same target get two events, which is what
  `OneEventPerTarget` forbids, and leaves one for another target.
* *A group of two* has every mixture of passing, failing and lost members. `RaceOrGroup`
  has either the lone event with both requests or the group with one.
* *Holds, copies: two* of the kind a property compares. `OneClaimPerCopy` needs two holds,
  a crossing reset two copies of one hold. One library is home to all copies, the other
  is where the holds are picked up: that makes a copy travel there and home again.
* *Transits: rows are used up*, never freed, so `MaxTransits` bounds how often copies
  travel: once is a trip to the pick-up library, twice includes the way home or a
  second copy. When they are used up a departure is impossible and the request rolls back.
* Symmetry on holds, copies, runners, requests, sessions and uploads is sound: the constants
  that distinguish them are constant functions in these instances. It is not used for liveness.
* The views leave out what no action of the run reads and no property of it mentions:
  `Present` the records `alone` and `crossed`; `Serial` the records `overtaken` and `contested`,
  and `asked`, since its one process targets by slot as well and may take any hold;
  `Office` all of these but `crossed`, and the targeters, which do nothing in that run.
* State constraints say which transactions may overlap: none (`NoOverlap`), those
  of a counter that handles copies with those of an office that handles holds
  (`CounterAndOffice`), or any two of two targeters and a desk (`Racing`). `SmallSerial` has
  two holds and a copy, or a hold and two copies, in use at a time, and a second trip for one
  row only. `CounterAndAborts` leaves out uncancels, activations, loans to patrons
  without a hold and loans during an office request, and has suspended holds for one trip and one copy.
  `Racing` goes on after one hold has been overtaken or the copy contested only while both
  holds are open, since what follows is excused for that hold or copy. It leaves out aborts, what comes after
  the arrival of a copy, both holds being closed, and loans to patrons without a hold.
* Holds that may have a copy in common are in one slot (`SlotAssumption`), so one process
  stands for the cron job; the other of `holds_targeting` targets both holds on request.
* *ShelfClearing.* Three holds for two copies let a copy have an old, cancelled hold
  beside the one it is now on the shelf for; with two clearings, two
  holds do, and each clearing can hold the copy that the other wants. `MaxCaptures` is 2,
  the first of them standing for the captures before.
* *LenderHolds.* Two copies let a target move away and back; two holds let a call for one
  take what the other asked for. `MaxAsked` is what a lender accepts on one copy.
* *OfflineXacts.* `MaxSaves` (2) is the second press of Save, `Uploads` the calls of
  `uploadPending` (two, to two sessions), `MaxImports` one import of an exported file, and
  `MaxKids` two children the server has forked for a session. `Small` leaves a
  transaction out of *Form*, gives imports to *Careless*, and one upload to *Careless* and
  *Refusing*.
* *OfflinePage.* `ChunkSize` 2 for lists of up to three lines, one of them with a patron
  twice, gives rebuilds of none, one and two chunks; `MaxAdds` and `MaxBuilds` bound what staff
  do. The start of the worker is explored in full before one initial state of the page, which it
  does not read; before the others the tabs start one by one.
* *PcrudSession.* Five objects with every choice of those that need no writing; the proofs
  are for any number.
* *CheckoutDesk.* Three scans are needed for a row to get the index of another;
  three visits for a page that is left and come back to, or refused in between, and four
  for staff who leave early (`FewPages`). `MaxScans` and `MaxOpens` count them.
* `LockHeld` of `trigger_runner` leaves out what
  follows a slip of the lock, about which the properties say nothing.

Deadlock is checked in `trigger_event` and in the runs of `HoldRequests`.
It is not in those of the runner, where every runner may have been killed with the lock file
left behind or all failures used up, nor in the other modules: a call of a
pcrud service ends, and staff at a desk, an offline page or a checkout page may have
no more to do within the bounds.

### What the runs show

`trigger_runner` shows that giving the lock up at the first answer is right: by then every
pending event is `found`, so the next runner finds none of them. This breaks if unlinking
does not look at the pid, or if searches also took rows in later states (the mutants).

`holds_serial` checks what holds when requests do not overlap, and **fails when they do**: with
overlapping requests two open holds may claim a copy, a
loan may lose its status `checked_out` to a reset that read the copy on the shelf, and
a transit may be reopened. What holds under overlap is in the other runs, and is proved
where section 5 says so: no copy is stranded in transit but by a crossing reset, suspended
holds have no target and filled ones a copy but for what a targeter has overtaken, and targets
are apart but for contested copies.

`shelf` shows what may safely overlap a clearing: cancels; and, but for the patron being told
twice, resets and another clearing. A checkout may not, and a check-in beside a second clearing
may put a copy on the shelf whose status the clearing overwrites.

`lender` shows that lost deletes and loans do no harm to waiting holds; a lost *place* is
never repeated, so losses of it are left out. A delete made later than
the next request's calls is harmless too, captures apart: a delete that
a capture's checkout overtakes finds the next patron's hold.

The desk and page runs show with how much haste of the staff each property holds. That the
premise of a property is needed can be seen by removing it:

* `RunOnce` fails when staff save or process again before the answer, click a row during an
  upload (another upload begins), press Upload again after a lost answer, close a tab during an
  upload or import what they exported (`Orderly`); `SentWhereAsked` with clicks; `NothingLost`
  with additions after Save, with two tabs, and with tabs closed during a registration, whose
  prompt is taken off before the transaction is stored (`Careful`).
* `RowsTrue` fails with scans not waited for, `CountTrue` when the page is left,
  `RightPatron`, `CountTrue`, `RowsFilled` and `LoadRuns` when a page is used or
  left while it loads or when a patron is refused, `PendingUnderWay` and `OneAttempt` with short
  barcodes, and `ShownFirst` with two patrons who owe.

Some sentences one might expect are not true of the code even without overlap, and are
not stated: an open transit does not imply the status *In transit*; a copy on the holds
shelf need not have a captured hold; a captured hold may have no copy (suspended while
its copy was Canceled Transit); a hold that was cancelled and uncancelled while its copy
travelled gets a shelf library when the copy arrives, without being captured.

### Where the properties end

What the premises and exceptions of the properties leave out, as the code behaves there:

Holds and transits:

* **A transit is reopened.** `cancel_hold` reads a hold's
  transit, a check-in receives it, the cancel writes the whole row back and
  `dest_recv_time` is NULL again (`Holds.pm:858`). The check-in may have sent the copy
  on, so it has two open transits, which the schema means to exclude
  (`sql/Pg/090.schema.action.sql:578`); its trigger looks at inserts only.
* **A copy is stranded**, with no overlap at all (`crossed` in `InTransitHasTransit`). A hold's first
  copy is in transit, its patron borrows a second copy, which fills the hold; that copy
  comes back elsewhere and is in transit home. A reset of the hold finds *the hold's*
  transit (`Holds.pm:2116`), that of the first copy, cancels it, and gives the second
  copy the status Canceled Transit. The first remains In transit without a transit until
  a check-in repairs it.
* **A suspended hold is captured** (`overtaken`). `copy_targeter` tests `frozen` when it reads
  the hold; suspended in between, the hold gets a target (`action.pm:1599`), and the check-in
  of that copy does not ask whether it is suspended. In the same way the record of the copy that
  filled a hold is replaced, or taken away when no copy is found.
* **Two holds want one copy** (`contested`). A hold that is activated, uncancelled or reset is
  targeted at once (`Holds.pm:1130`, `787`, `2152`), in no slot, beside the cron job: both
  find the copy free and choose it. Or a targeter finds no other copy and goes back to the one
  it read as the hold's target, given to another hold since; that is asked about only when the copy is
  not available (`action.pm:1454`, `1603`). Or a row that was read with its old target is
  written back.
* **A picked-up hold is cancelled.** A clearing writes back a hold it
  read before the checkout that filled it (`DesksPause` in the properties of `ShelfClearing`).
* **Told twice.** Of two clearings the second tests a `cancel_time` it
  read before the first committed (the premise of `ToldOnce`).

Lenders (the premises of `Asked` and `StraysExplained`):

* **Back to the same copy.** Two overlapping targetings of a hold: one moves the
  target away, the other back to the copy it read in its list and takes for unchanged, so
  the lender has been told to drop the hold and is not asked again.
* **Deleted for another.** A cancelled hold keeps its target; a reset
  of it deletes at the lender the earliest hold on the copy, that of the next patron
  (`scene.closed`, which *Loans* has and the two properties exclude).
* **Captured on return.** A check-in that receives a copy at home
  and captures it for the next hold tells the lender only of the first.

Offline circulation:

* **Added while saving**: `save()` empties the list that was added to after the click.
* **Asked once**: who stays on the page is not asked the next time.
* **Saved while uploading**: the table is cleared after an
  upload, including what another tab has saved since it was read.
* **A date without transactions**: row and date are two requests.
* **Scanned ahead**: what is recorded is the form as it is when the
  lookup of the patron comes back.
* **Not found**: the block list is emptied before it is filled.
* **The second tab**: a refused connect counts as done, and the
  request is sent before the database is open.

pcrud services:

* **False alarm** (Angular only): an object that needs no writing is
  passed over and a request sent for it all the same.
* **Left open** (both): after a refused write the transaction is not closed.

Checkout page:

* **The wrong row**: indexes are lengths of a list that shrinks.
* **Never again**: a short barcode is listed as typed and
  unlisted as completed.
* **Miscounted**: the answer counts for whoever is on the page.
* **The next patron's fines**: overridden events are kept for all.
* **The last patron**: after a refused patron the page checks out to the one before.
* **A dead promise**: a failed load is kept and waited for.

## 4. Fairness

The specifications used for liveness assume no more than that machines go on. People are
assumed to act only where they have a dialog before them.

`TriggerRunner!RunnerFairSpec`, all of it weak:

* cron starts runners for ever: some runner's `Check`, when no lock file is there;
* a running script goes on, and so does the batch it asked for (`RunnerStep`, `BatchStep`);
* a service request is worked on until it is complete (`ServiceWorks`).

Failures and timeouts are not fair. A single runner never has to be started, since cron
only starts *some* runner. `TakenUp` excepts a stale lock file, because then the script
exits every time ("I'm already running with lockfile"). `Settles` is about behaviours
without failures: a failed event is never retried by the code.

Elsewhere:

* `ShelfClearing!FairSpec`: a clearing that has begun goes on. Its fairness is strong, because
  a row lock that a clearing waits for may become free and be taken by the other one; the
  database serves waiting transactions in turn. Nobody need ask for a clearing.
* `OfflinePage!PageSpec`: the browser runs the pages and the worker, messages are delivered, and
  queries and downloads end (weak). Staff need not enter anything or ask for a list. A
  database that refuses to open does answer.
* `PcrudSession!FairSpec`: the server serves what it was sent and answers arrive (weak). A
  refusal is an answer; a session that times out is no fair step, so that nothing
  relies on it.

`OfflineXacts`, `LenderHolds` and `CheckoutDesk` state no liveness: a tab may be closed, a
call for which nobody waits may be lost, and a dialog waits for the staff.

## 5. Proofs

All theorems are for every value of the constants, under the modules' named assumptions
only: null values are no elements (`NoHold \notin Holds`, ...), parameters have their
types, sets that are counted or folded over are finite (`Patrons`, `Copies`, `Xacts`,
`Schemas`, `Holds` at the lenders), parallel workers and chunk sizes are at least one, and
holds that may have a copy in common are in one slot. Bounds such as `MaxTransits`,
`MaxAsked` or `MaxSaves` are constants like any other, so the theorems hold however far
one goes. Each theorem below follows from an inductive invariant, proved from `Init` and
then step by step, one named step per action; a strengthening that only the proof needs
opens the proof module, under "Why they hold".

**TriggerProofs, the service.** `IInv` is inductive:

* `ColumnInv`: the column promises no more than was done; states from `valid` to
  `complete` only for approved events, those from `reacted` only for events that were
  reacted to;
* `ObjInv`: flags of an object say no more than a column once said, and an
  object that is not known to be valid is not taken for reacted;
* `UnitInv`: a firing past a check has members that pass it.

`ReactedOnlyIfApproved` is not inductive by itself: another request may take up a row in any
state, so the step needs what the column promises, and the column is written from flags.
`approved` and `reactions` only grow, which is why stale flags are harmless.
Theorems: `TypeCorrect`, `Inductive`, `ReactionsApproved`, `ProcessedRowsReacted`,
`NothingPendingAgain`, and `Implementation`, that the service implements
`EventPromise` (initial states and every step, the mapping being the identity on the
history variables).

**TriggerProofs, the runners.** `RunnerIInv` says, while no lock has slipped, who holds it:
a runner that creates or searches does, and so does a killed one whose request still
searches (`LockInv`). Hence what was found to be due still is, and an event is in the hands
of one request, before its reactor has run (`HandsInv`, over `InObject` and `InFiring`,
which follow an event from the search that found it to the end of its firing).
`ReactedOnce` needs the whole of it: the lock is given up at the first answer, when the
request has marked what it found, so that what the next search finds is disjoint from what
earlier requests are still firing. Theorems: `RunnerInductive`, `RunnersKeptApart`,
`NoSecondReaction`, and `RunnersDriveService`: with its runners the service still implements
`EventPromise`, also after the lock has failed.

**HoldRequestsProofs**, for any number of desks, targeters (on-demand ones included),
holds, copies, libraries and transits:

* `TransitsKnown`: `TransitInv` is inductive. `InTransitHasTransit` is not: a cancel
  or an abort that read its transit when closed will close it, or close another's open
  one, without touching the copy. The strengthening says that one of the copy's open
  transits is not the transit of such a request, and that what a request has read of its
  transit is about its copy. `TransitsOpen` and `TypeCorrect` follow.
* `RowsSound`: `RowsInv` says of every row, stored or read and still to be written
  back, that it keeps its copy once filled and has no target while suspended and waiting,
  unless its hold was overtaken. `FrozenHoldsUntargeted` and `FilledHoldsKeepCopy` follow. A
  targeter writes a hold as it is by then, not as it was read, so the proof need not know what
  the targeter has read: either the hold is still to be targeted, neither suspended nor filled,
  or it is overtaken.
* `SerialInductive`, `SerialAgrees`: under `[]NoOverlap` the rows a request will write are
  still those of the tables, it has read every open hold that claims its copy, and the copy
  it takes for returned still is; so a copy has one claim at most, and a borrowed copy
  none. That the premise is needed is shown in section 3.
* `TargetsDistinct`: two waiting holds have one target only if the copy was contested, with
  any number of desks that overlap with each other and with targeters, in slots and on request.
  The invariant is `HeldFor` (which holds a request has read, and why) and `TargetsInv`: the
  hold a targeter is at is of its slot, unless it was asked for it; no other waiting hold has
  the copy it has picked (`KeepsSlot`), and no other targeter has picked it (`PicksApart`),
  unless it is contested. That two runs of the cron job do not need the excuse is what
  `SlotAssumption` is for. Every other write clears a target, ends the waiting, or writes back a
  target that the hold has kept (`NoNewTarget`), but for the two of `WritesBack`.
* `SuspendedHoldsWait`: no step captures a suspended hold that no targeter has overtaken, when
  desks take turns (`DesksInTurn`) and targeters may come between any two steps of theirs: what
  a desk has read then differs from the table only in rows of holds that are not suspended or
  are overtaken (`AsRead`). Of two desks one may write back, captured, what the other has
  suspended.
* `CheckinsRepair`: a check-in that nothing overlapped leaves its copy in transit only
  with an open transit, while transactions before it did not overlap either. The proof goes
  through `OneTrip`, that a copy has one open transit at most, which `TripsOne` proves under
  `[]NoOverlap`; with it alone a single check-in repairs whatever it finds (`AloneRepairs`,
  of the invariant `AloneInv`: what such a check-in knows of its trip is still so).

**ShelfClearingProofs**, for any number of clearings. `RowsInv`: of several holds of one copy
only the last captured is on the shelf. `ClearingInv`: a hold that a clearing means to write,
by its list, by the row it has fetched or by one it has written and not committed, was not
picked up, its copy is not lent, and the copy waits for no other hold; that is how a list
read long ago stays true while desks pause. Theorems: `ShelfInductive`,
`ShelfAgrees`, `PatronToldOnce`.

**LenderHoldsProofs.** `LoansTold`: a lender that believes its copy lent while it is home has
a check-in still to come in some request's calls, and a check-out to come is of a copy that is
away; with `AtTarget` (who has found a hold is about to target it). Theorems: `LenderInductive`,
`LendersKnow`, for any number of requests and any interleaving of their calls.
What a lender has been asked for is counted (`CountsInv`): its holds on a copy and the *place*
to come are as many as the deletes and loans still to come and the one waiting hold
that wants the copy, at least (`Enough`) and, of a lender that was not forgotten, at most
(`NoMore`). That needs `HandsInv`: who is served alone and which calls may be on a list
(`Turns`, `CancelsDelete`, `Shaped`), that a targeter knows the target there was (`KnowsOld`),
and that what a waiting hold targets is no other open hold's (`OneClaim`). Theorems, for any
finite set of processes: `HoldsAccounted`; `NoStrays`, which is `StraysExplained` in every
scene; and `TargetsAsked`, which is `Asked` in the scenes that are `Patient`: no *place*
is lost, `MaxAsked` leaves room for one hold of each process, and cancels whose delete is late
go neither with lenders that refuse a second hold nor with captures. Without each of these
`Asked` is false: a refused *place* leaves the copy with the hold that the late
delete then takes, and a loan uses up the hold a late delete was for, so that the delete
takes the next one's. The scenes of the run that meet the premises of `Asked` are all `Patient`.

**OfflineXactsProofs**, for any number of tabs, transactions, sessions and uploads. The
invariant `OfflineIInv` is proved in three parts:

* `KeptIInv`, about where transactions are. `Known`: which requests a tab may have posted and
  what an upload may know. `OneBusy`, `StaysCurrent`: staff who do not hurry have one tab busy,
  and the clicked session stays clicked. `CarefulTrue`: a transaction is safe (on the
  server, in the store, on its way, refused or dropped) or on a page; a page that is being
  saved has only safe ones; an upload has read the list after the last insert, so whatever a
  later wipe takes is on the server or was in it. `PagesFresh`: what is on a page and not
  being saved is nowhere else. It gives `SentRight`, `NoneLost`, and `Implementation`: every
  step moves the fate of each transaction as `OfflineLedger` allows.
* `DateTrue`: a date is written after its row and deleted after the rows; with one tab no
  insert is between the two, so the date and the rows disagree only while the request
  that mends it is under way. It gives `DateRight`.
* `RunTrue`: a transaction is on its way, in the store, or in one line of one
  session's file, with one exception, the time between the server's answer and the wipe; a session
  has one script and one child at most, and what ran has ended. It gives `OfflineSafe`.

None of the properties is inductive: what a wipe deletes was decided by a list read two
messages and two answers earlier, and the three parts say what each of those messages still
stands for.

**OfflinePageProofs**, theorems of `PageSpec`, the tabs' start included. `SchemasInv` of
`WorkerSchemas`: an answer that a schema is connected is under way only when its database is
open. `EntryIInv`: patient staff have one entry under way, the one in the form
(`OneUnderWay`); what was stored of a list and its chunks to come make up the list
(`ListInParts`); lookups are answered in turn (`InTurn`). Theorems: `PageInductive`, `PageKept`,
`EntriesRecorded`, and the action property `BlockedFound`.

**PcrudSessionProofs**, for lists of any length, every set of refusals and both clients. The
invariant `IInv` relates the requests sent, the answers given, the answers heard, and the
server's transaction:

* `OpeningInv`, `WriteInv`, `ReadInv`, `CloseInv`: which requests are among those sent, and in
  which order; each object up to `cud_idx` that needs writing was sent once, and one
  write at most is not answered yet;
* `BodyInv`: what the promise of the main body says of the answers heard; a body that is complete
  has every object written, and a close is not sent before;
* `ServerInv`: what the server has written in its transaction is what it has answered
  with success, and what is saved is nothing or all that was to be written.

`AllOrNothing` is not inductive: that a commit saves everything follows from what the
client sends only after it has heard the answers, so the invariant has to follow every
request from its sending to its answer's arrival, past the requests that the Angular
client sends by mistake. Theorems: `Inductive`, `Atomic`, `Honest`, `NoAlarm` (from
`AlarmInv`: the AngularJS service sends nothing by mistake, and fails only on an error it has
heard), and `Implementation`: the session implements `AtomicBatch` (`Save` is the serving
of the close, `Tell` the settling of the caller's promise).

**CheckoutDeskProofs**, for any number of patrons, copies, barcodes, scans and visits, and
all ways of hurrying at once. The parts of `DeskIInv` beside the properties:

* `InOrder`: attempts are numbered as they are made, for the visit and the list of then, and rows
  are in that order;
* `OneByOne`: when scans are waited for, the attempt in flight is the first row's, under the
  index by which its answer looks for it;
* `LoadsTrue`, `CountsTrue`: one load at a time, for the patron of the page; the counts shown
  and the checkouts not yet counted add up to what the server has;
* `LentTrue`, `PendingTrue`: filled rows' copies stay lent to the patron of the page; pending
  barcodes are those of attempts in flight;
* `ShownTrue`: what an attempt will override was shown, or will be by the dialog it is in.

Theorems: `DeskInductive`, `DeskAgrees`, `RightPatronShown`, `BarcodesComeOff`,
`OverridesShown`.

**Only model-checked**, and why:

* `SuspendedWaits` beside overlapping desks is false, as said above; `holds_targeting` has one
  desk, and needs no premise.
* All liveness (`TakenUp`, `Settles`, `CallEnds`, `ClearingEnds`, `DownloadsEnd`, `RequestsEnd`):
  liveness under fairness is out of the prover's reach, as are `ENABLED` and induction over data.

No module declares a `RECURSIVE` operator.


## 6. Not modelled

In the trigger service: contents of environments and templates, revalidation, purging,
delays, granularities, a grouped event fired by `event.fire`. In the runner: several
definitions, repeat delays, reused pids. In holds and circulation: placing a hold
(it is there, and its targeting asked for, when a behaviour begins), the class
`HoldTargeter::Single`, which nothing calls, changing the pick-up library, recall and force holds, hopeless dates, rebuilding
of the copy map (`Potential` is constant), renewals, lost, claimed,
precat and floating copies, booking, retargeting check-in modes, suppressed transits,
`hold_as_transit`, statuses a transit preserves other than those listed, permissions. In
clearing the shelf: the report of where the copies go next, holds on a wrong shelf,
checkouts that fill another hold of the patron. At the lenders: what section 2 names.
In the browser: what the sections on the modules name, the pages besides the offline
and the checkout page, and what is drawn.

Known hazards that no property covers: a row left in `found` or `collected` by a killed worker
is not looked for again (`Trigger/Event.pm:383`); a list of pending ids is used after another
request may have fired them (`Trigger.pm:688`); `repeat_delay` replaces the filter of a search,
definition included (`Trigger.pm:482`); `fire_object_event` creates an event in one call and
fires it in the next (`AppUtils.pm:1821`). They are in the parts of the code listed above, which the models
leave out, or, the first, in the rows that `Settles` excludes with `faults`.

Most of the repository's JavaScript is the older XUL client, Dojo pages and AngularJS views:
forms and grids over services, whose state ends with the page, with no claim about
order or concurrency to state. Other components and the reasons are in `PROJECT.json`:
batch imports and data transformations (acquisitions, serials, Vandelay, cataloguing),
protocol translation (SIP), relays, and arithmetic within one transaction (money).

## 7. Plan

1. The check-in and the renewal pages, which share rows, pending barcodes and dialogs with
   `CheckoutDesk`; the patron editor (`circ/patron/regctl.js`) with its saves and
   claims of barcodes while lookups are under way.
2. `HoldRequests`: changing the pick-up library, retargeting check-in. `TriggerRunner`: a second definition,
   to check the filter of `repeat_delay`; rows fired right after creation by
   `fire_object_event` beside a runner.
3. Other components in order of their hazards: payments against the fine generator,
   booking reservations captured at check-in, the reporter's schedule queue, the pbx
   allocator's spool.
4. An abstract specification of a hold's life (placed, targeted, captured, on the shelf,
   fulfilled or cancelled) that `HoldRequests` refines step by step.
