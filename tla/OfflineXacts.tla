---------------------------- MODULE OfflineXacts ----------------------------
(***************************************************************************)
(* Offline circulation in the staff client: tabs of one browser enter      *)
(* transactions, save them through a shared worker into the browser's      *)
(* database, and after the outage upload them to a session on the server,  *)
(* clear them and have the session processed.                              *)
(*                                                                         *)
(* offline.js is the page, services/lovefield.js sends its requests, and   *)
(* offline-db-worker.js carries them out: three parties that only exchange *)
(* messages.  Every request is answered; what a tab does with the answer   *)
(* is an action of its own.                                                *)
(***************************************************************************)
EXTENDS Naturals, Sequences, FiniteSetsExt, SequencesExt

CONSTANTS
    EntryTabs,      \* tabs opened logged out: the staff enter transactions
    SessionTabs,    \* tabs opened logged in: uploading and processing
    Xacts,          \* transactions the staff may enter
    Registrations,  \* those that are patron registrations
    Sessions,       \* offline sessions that were created on the server
    Uploads,        \* bound: presses of an Upload button
    None,
    Ways,           \* the ways of working and of failing, see WaysType
    MaxSaves,       \* bound: saves of one tab
    MaxImports      \* bound: imports of an exported file

Tabs == EntryTabs \cup SessionTabs

\* What the staff do without waiting (see MayAct and below), whether they register
\* patrons, whether tabs may be closed or reloaded at any time, whether the staff
\* may start to leave one and then stay, whether the answer to an upload may be
\* lost, and whether the worker may refuse a request.
WaysType == [hurries : SUBSET {"tabs", "add", "save", "click", "process"},
             registers : BOOLEAN, close : BOOLEAN, stay : BOOLEAN,
             lose : BOOLEAN, refuse : BOOLEAN]

ASSUME OfflineAssumption ==
    /\ EntryTabs \cap SessionTabs = {} /\ IsFiniteSet(Xacts)
    /\ Registrations \subseteq Xacts
    /\ None \notin Uploads \cup Sessions \cup Tabs \cup Xacts
    /\ Ways \subseteq WaysType
    /\ MaxSaves \in Nat /\ MaxImports \in Nat

VARIABLES
    page,       \* Tabs -> $scope.all_xact, what was added and not saved
    warns,      \* Tabs -> egUnloadPrompt is attached
    saving,     \* Tabs -> the calls of save() that have not settled
    saves,      \* Tabs -> calls of save() so far, see MaxSaves
    mail,       \* Tabs -> requests to the worker, answered ones still unread
    shown,      \* Tabs -> $scope.pending_xacts
    current,    \* Tabs -> $scope.current_session
    up,         \* Uploads -> a call of uploadPending
    stored,     \* the table OfflineXact: Xacts -> number of rows
    date,       \* the table CacheDate has a row _offlineXact
    disk,       \* the exported file
    imports,    \* imports so far, see MaxImports
    file,       \* Sessions -> the log file the server keeps of the session
    scripts,    \* Sessions -> rows of offline.script
    kids,       \* Sessions -> command lists of forked children
    ended,      \* Sessions -> end_time is set
    ran,        \* Xacts -> how often the server has run it
    ways,       \* how the staff work in this behaviour, and what may fail
    entered,    \* history: transactions the staff have entered
    dropped,    \* history: those they gave up, knowing it
    denied      \* history: those the database refused to store

tabVars == <<page, warns, saving, saves, mail, shown, current, up>>
storeVars == <<stored, date>>
diskVars == <<disk, imports>>
serverVars == <<file, scripts, kids, ended, ran>>
staffVars == <<entered, dropped, denied>>
vars == <<tabVars, storeVars, diskVars, serverVars, staffVars, ways>>

Hurries == ways.hurries
Registers == ways.registers
MayClose == ways.close
MayStay == ways.stay
MayLose == ways.lose
MayRefuse == ways.refuse

Rows == [Xacts -> Nat]
NoRows == [x \in Xacts |-> 0]
In(rows) == {x \in Xacts : rows[x] > 0}
Sum2(r1, r2) == [x \in Xacts |-> r1[x] + r2[x]]

\* A request.  job says which promise waits for the answer: that of a save
\* (and k, of which), an import, a registration, a clear, an upload (k), or
\* retrieve_pending; nobody's when the page that asked is gone.
Req(op, x, job, k) ==
    [op |-> op, x |-> x, job |-> job, k |-> k, st |-> "sent", got |-> NoRows]

ReqType ==
    [op : {"insert", "date", "wipe", "undate", "list"}, x : Xacts \cup {None},
     job : {"save", "import", "register", "clear", "upload", "show", "nobody"},
     k : Nat \cup Uploads \cup {None}, st : {"sent", "ok", "err"}, got : Rows]

Inserts(xs, job, k) ==
    [i \in 1..Len(SetToSeq(xs)) |-> Req("insert", SetToSeq(xs)[i], job, k)]

Show == <<Req("list", None, "show", None)>>

NoUpload == [tab |-> None, asked |-> None, pc |-> "none",
             blob |-> NoRows, to |-> None]

Finished == [NoUpload EXCEPT !.pc = "done"]

UploadPc == {"none", "asked", "blob", "load", "append", "loaded", "refused",
             "done"}

TypeOK ==
    /\ page \in [Tabs -> SUBSET Xacts] /\ warns \in [Tabs -> BOOLEAN]
    /\ saving \in [Tabs -> SUBSET [k : 1..MaxSaves, reload : BOOLEAN,
                                   spoiled : BOOLEAN]]
    /\ saves \in [Tabs -> 0..MaxSaves]
    /\ mail \in [Tabs -> Seq(ReqType)]
    /\ shown \in [Tabs -> Rows]
    /\ current \in [Tabs -> Sessions \cup {None}]
    /\ up \in [Uploads -> [tab : Tabs \cup {None}, asked : Sessions \cup {None},
                           pc : UploadPc, blob : Rows,
                           to : Sessions \cup {None}]]
    /\ stored \in Rows /\ date \in BOOLEAN
    /\ disk \subseteq Xacts /\ imports \in 0..MaxImports
    /\ file \in [Sessions -> Rows] /\ scripts \in [Sessions -> Nat]
    /\ kids \in [Sessions -> Seq(Rows)] /\ ended \in [Sessions -> BOOLEAN]
    /\ ran \in Rows
    /\ ways \in Ways
    /\ entered \subseteq Xacts /\ dropped \subseteq entered
    /\ denied \subseteq entered

Init ==
    /\ page = [t \in Tabs |-> {}] /\ warns = [t \in Tabs |-> FALSE]
    /\ saving = [t \in Tabs |-> {}]
    /\ saves = [t \in Tabs |-> 0] /\ mail = [t \in Tabs |-> <<>>]
    /\ shown = [t \in Tabs |-> NoRows] /\ current = [t \in Tabs |-> None]
    /\ up = [u \in Uploads |-> NoUpload]
    /\ stored = NoRows /\ date = FALSE
    /\ disk = {} /\ imports = 0
    /\ file = [s \in Sessions |-> NoRows] /\ scripts = [s \in Sessions |-> 0]
    /\ kids = [s \in Sessions |-> <<>>] /\ ended = [s \in Sessions |-> FALSE]
    /\ ran = NoRows
    /\ ways \in Ways
    /\ entered = {} /\ dropped = {} /\ denied = {}

-----------------------------------------------------------------------------
(* When the staff act.  The progress dialog is modal: while it is open     *)
(* nothing can be clicked in its tab.                                      *)

Uploading(t) == {u \in Uploads : up[u].tab = t /\ up[u].pc # "done"}
Dialog(t) == \E u \in Uploading(t) : up[u].pc # "asked"
Busy(t) == mail[t] # <<>> \/ saving[t] # {} \/ Uploading(t) # {}
Processing == \E s \in Sessions : kids[s] # <<>>
Quiet == ~Processing /\ \A t \in Tabs : ~Busy(t)

\* Unless they hurry, the staff use one tab at a time, and no tab while the
\* server processes.
MayAct(t) ==
    /\ ~Dialog(t)
    /\ "tabs" \in Hurries \/ \A o \in Tabs \ {t} : ~Busy(o)
    /\ "process" \in Hurries \/ ~Processing

Post(t, reqs) == mail' = [mail EXCEPT ![t] = @ \o reqs]
Read(t, reqs) == mail' = [mail EXCEPT ![t] = Tail(@) \o reqs]

-----------------------------------------------------------------------------
(* Entering and saving.                                                    *)

\* add() and _add_impl2 push the transaction on the page's lists.
Add(t, x) ==
    /\ t \in EntryTabs /\ MayAct(t)
    /\ "add" \in Hurries \/ saving[t] = {}
    /\ x \in Xacts \ (entered \cup Registrations)
    /\ page' = [page EXCEPT ![t] = @ \cup {x}]
    /\ warns' = [warns EXCEPT ![t] = TRUE]
    /\ entered' = entered \cup {x}
    /\ UNCHANGED <<saving, saves, mail, shown, current, up, storeVars,
                   diskVars, serverVars, dropped, denied>>

\* save() sends every transaction of the page at once.
StartSave(t, n, reload) ==
    saving' = [saving EXCEPT ![t] =
                 @ \cup {[k |-> n, reload |-> reload, spoiled |-> FALSE]}]

Registering(t) == \E i \in DOMAIN mail[t] : mail[t][i].job = "register"

Save(t) ==
    /\ t \in EntryTabs /\ MayAct(t)
    /\ page[t] # {}
    /\ "save" \in Hurries \/ (saving[t] = {} /\ ~Registering(t))
    /\ saves[t] < MaxSaves
    /\ saves' = [saves EXCEPT ![t] = @ + 1]
    /\ StartSave(t, saves[t] + 1, FALSE)
    /\ Post(t, Inserts(page[t], "save", saves[t] + 1))
    /\ UNCHANGED <<page, warns, shown, current, up, storeVars, diskVars, serverVars,
                   staffVars>>

\* The registration form stores its own transaction first; then it saves.
Register(t, x) ==
    /\ Registers /\ t \in EntryTabs /\ MayAct(t)
    /\ "save" \in Hurries \/ ~Busy(t)
    /\ x \in Registrations \ entered
    /\ saves[t] < MaxSaves
    /\ saves' = [saves EXCEPT ![t] = @ + 1]
    /\ entered' = entered \cup {x}
    /\ warns' = [warns EXCEPT ![t] = FALSE]
    /\ Post(t, <<Req("insert", x, "register", saves[t] + 1)>>)
    /\ UNCHANGED <<page, saving, shown, current, up, storeVars,
                   diskVars, serverVars, dropped, denied>>

\* The worker has yet to carry these out.
ToDo(t) == {i \in DOMAIN mail[t] : mail[t][i].st = "sent"}
Left(t) == IF ToDo(t) = {} THEN <<>> ELSE SubSeq(mail[t], Min(ToDo(t)), Len(mail[t]))
Orphans(t) == [i \in DOMAIN Left(t) |-> [Left(t)[i] EXCEPT !.job = "nobody"]]

\* A page that goes away leaves its requests with the worker; the page that
\* replaces it asks for the list.
Reload(t) ==
    /\ mail' = [mail EXCEPT ![t] = Orphans(t) \o Show]
    /\ page' = [page EXCEPT ![t] = {}]
    /\ warns' = [warns EXCEPT ![t] = FALSE]
    /\ saving' = [saving EXCEPT ![t] = {}]
    /\ shown' = [shown EXCEPT ![t] = NoRows]
    /\ current' = [current EXCEPT ![t] = None]
    /\ up' = [u \in Uploads |-> IF up[u].tab = t
                                THEN [up[u] EXCEPT !.tab = None] ELSE up[u]]

Outstanding(t, k) ==
    \E i \in DOMAIN mail[t] : mail[t][i].job = "save" /\ mail[t][i].k = k

\* q.all() has settled: all its promises have, or one was rejected.  finally
\* empties the page, whatever it holds by now.
MutantSaveSettled(t, s) ==          \* does not wait for the answers
    /\ page' = [page EXCEPT ![t] = {}]
    /\ warns' = [warns EXCEPT ![t] = FALSE]
    /\ saving' = [saving EXCEPT ![t] = @ \ {s}]
    /\ mail' = [mail EXCEPT ![t] = SelectSeq(@, LAMBDA r : r.st # "sent") \o Show]
    /\ UNCHANGED <<shown, current, up, saves, storeVars, diskVars, serverVars,
                   staffVars>>
SaveSettled(t, s) ==
    /\ ~Outstanding(t, s.k) \/ s.spoiled
    /\ IF s.reload
       THEN Reload(t)
       ELSE /\ page' = [page EXCEPT ![t] = {}]
            /\ warns' = [warns EXCEPT ![t] = FALSE]
            /\ saving' = [saving EXCEPT ![t] = @ \ {s}]
            /\ Post(t, Show)
            /\ UNCHANGED <<shown, current, up>>
    /\ UNCHANGED <<saves, storeVars, diskVars, serverVars, staffVars>>

\* The staff close or reload a tab.  The browser asks them first, if the
\* prompt is attached.  A page that waits for nothing but the list would come
\* back the same.
Close(t) ==
    /\ MayClose
    /\ "tabs" \in Hurries \/ \A o \in Tabs \ {t} : ~Busy(o)
    /\ \/ page[t] # {} \/ saving[t] # {} \/ Uploading(t) # {}
       \/ \E i \in DOMAIN mail[t] : mail[t][i].job \notin {"show", "nobody"}
    /\ Reload(t)
    /\ dropped' = dropped \cup IF warns[t] THEN page[t] ELSE {}
    /\ UNCHANGED <<saves, storeVars, diskVars, serverVars, entered, denied>>

\* Asked whether to leave, they stay.  The handler has detached the prompt.
Stay(t) ==
    /\ MayStay /\ MayAct(t)
    /\ warns[t]
    /\ warns' = [warns EXCEPT ![t] = FALSE]
    /\ UNCHANGED <<page, saving, saves, mail, shown, current, up, storeVars,
                   diskVars, serverVars, staffVars>>

-----------------------------------------------------------------------------
(* The worker and its answers.                                             *)

Perform(r) ==
    /\ stored' = CASE r.op = "insert" -> [stored EXCEPT ![r.x] = @ + 1]
                   [] r.op = "wipe" -> NoRows
                   [] OTHER -> stored
    /\ date' = CASE r.op = "date" -> TRUE
                 [] r.op = "undate" -> FALSE
                 [] OTHER -> date

\* Requests of one port are carried out in the order they were sent.
Work(t) ==
    /\ ToDo(t) # {}
    /\ LET i == Min(ToDo(t))
       IN  \/ /\ Perform(mail[t][i])
              /\ mail' = [mail EXCEPT ![t][i].st = "ok",
                            ![t][i].got = IF mail[t][i].job \in {"show", "upload"}
                                          THEN stored ELSE NoRows]
              /\ UNCHANGED denied
           \/ /\ MayRefuse
              /\ mail' = [mail EXCEPT ![t][i].st = "err"]
              /\ denied' = IF mail[t][i].op = "insert"
                           THEN denied \cup {mail[t][i].x} ELSE denied
              /\ UNCHANGED storeVars
    /\ UNCHANGED <<page, warns, saving, saves, shown, current, up, diskVars,
                   serverVars, entered, dropped>>

Answer(t, op) ==
    /\ mail[t] # <<>>
    /\ Head(mail[t]).op = op
    /\ Head(mail[t]).st = "ok"

\* addOfflineXact records the date once the row is in.
MutantInserted(t) ==                \* records no date
    /\ Answer(t, "insert")
    /\ Read(t, <<>>)
    /\ UNCHANGED <<page, warns, saving, saves, shown, current, up, storeVars,
                   diskVars, serverVars, staffVars>>
Inserted(t) ==
    /\ Answer(t, "insert")
    /\ LET r == Head(mail[t])
       IN  Read(t, IF r.job = "nobody" THEN <<>>
                   ELSE <<Req("date", r.x, r.job, r.k)>>)
    /\ UNCHANGED <<page, warns, saving, saves, shown, current, up, storeVars,
                   diskVars, serverVars, staffVars>>

LastImport(t) ==
    \A i \in 2..Len(mail[t]) : mail[t][i].job # "import"

\* The registration goes on to save the page; the last line of an import to
\* read the list; a save just counts.
Dated(t) ==
    /\ Answer(t, "date")
    /\ LET r == Head(mail[t])
       IN  \/ /\ r.job = "register"
              /\ StartSave(t, r.k, TRUE)
              /\ Read(t, Inserts(page[t], "save", r.k))
           \/ /\ r.job # "register"
              /\ Read(t, IF r.job = "import" /\ LastImport(t)
                         THEN Show ELSE <<>>)
              /\ UNCHANGED saving
    /\ UNCHANGED <<page, warns, saves, shown, current, up, storeVars, diskVars, serverVars,
                   staffVars>>

\* destroyPendingOfflineXacts deletes the date once the rows are deleted.
Wiped(t) ==
    /\ Answer(t, "wipe")
    /\ Read(t, IF Head(mail[t]).job = "nobody" THEN <<>>
               ELSE <<Req("undate", None, "clear", None)>>)
    /\ UNCHANGED <<page, warns, saving, saves, shown, current, up, storeVars,
                   diskVars, serverVars, staffVars>>

Undated(t) ==
    /\ Answer(t, "undate")
    /\ Read(t, IF Head(mail[t]).job = "nobody" THEN <<>> ELSE Show)
    /\ UNCHANGED <<page, warns, saving, saves, shown, current, up, storeVars,
                   diskVars, serverVars, staffVars>>

\* The list: for the page, or for the file an upload sends to what is the
\* current session by now.
Listed(t) ==
    /\ Answer(t, "list")
    /\ LET r == Head(mail[t])
       IN  /\ shown' = IF r.job = "show"
                       THEN [shown EXCEPT ![t] = r.got] ELSE shown
           /\ up' = IF r.job = "upload"
                    THEN [up EXCEPT ![r.k].blob = r.got, ![r.k].pc = "load",
                                    ![r.k].to = current[t]]
                    ELSE up
    /\ Read(t, <<>>)
    /\ UNCHANGED <<page, warns, saving, saves, current, storeVars, diskVars,
                   serverVars, staffVars>>

\* The worker replied ERR: the promise is rejected and what was to follow
\* does not.  Nothing closes the progress dialog of an upload whose list was
\* refused: only reloading the page does.
Refused(t) ==
    /\ mail[t] # <<>>
    /\ Head(mail[t]).st = "err"
    /\ LET r == Head(mail[t])
       IN  saving' = [saving EXCEPT ![t] =
                 {IF r.job = "save" /\ s.k = r.k
                  THEN [s EXCEPT !.spoiled = TRUE] ELSE s : s \in @}]
    /\ Read(t, <<>>)
    /\ UNCHANGED <<page, warns, saves, shown, current, up, storeVars, diskVars,
                   serverVars, staffVars>>

-----------------------------------------------------------------------------
(* Session management: upload, clear, export, import, process.             *)

\* Coming back to Session Management reads the list again.
Look(t) ==
    /\ t \in SessionTabs /\ MayAct(t) /\ ~Busy(t)
    /\ shown[t] # stored
    /\ Post(t, Show)
    /\ UNCHANGED <<page, warns, saving, saves, shown, current, up, storeVars,
                   diskVars, serverVars, staffVars>>

\* uploadPending: setSession, then ask for the session's exceptions.
AskUpload(t, u, s) ==
    /\ t \in SessionTabs /\ MayAct(t)
    /\ "click" \in Hurries \/ ~Busy(t)
    /\ up[u].pc = "none"
    /\ In(shown[t]) # {}
    /\ current' = [current EXCEPT ![t] = s]
    /\ up' = [up EXCEPT ![u] =
                [tab |-> t, asked |-> s, pc |-> "asked", blob |-> NoRows,
                 to |-> None]]
    /\ UNCHANGED <<page, warns, saving, saves, mail, shown, storeVars, diskVars,
                   serverVars, staffVars>>

\* A click on a session's row while an upload waits for the exceptions.
Select(t, s) ==
    /\ "click" \in Hurries
    /\ t \in SessionTabs /\ MayAct(t)
    /\ Uploading(t) # {} /\ current[t] # s
    /\ current' = [current EXCEPT ![t] = s]
    /\ UNCHANGED <<page, warns, saving, saves, mail, shown, up, storeVars, diskVars,
                   serverVars, staffVars>>

Alive(u) == up[u].tab # None

\* The exceptions are there: open the dialog and read the pending list.
GotExceptions(u) ==
    /\ up[u].pc = "asked" /\ Alive(u)
    /\ up' = [up EXCEPT ![u].pc = "blob"]
    /\ Post(up[u].tab, <<Req("list", None, "upload", u)>>)
    /\ UNCHANGED <<page, warns, saving, saves, shown, current, storeVars, diskVars,
                   serverVars, staffVars>>

\* offline.pl, ol_load: refuses a session that has a script or has ended.
\* The request is with the server, whatever becomes of the tab.
MutantLoadCheck(u) ==               \* takes a second file for a session
    /\ up[u].pc = "load"
    /\ up' = [up EXCEPT ![u].pc = "append"]
    /\ UNCHANGED <<page, warns, saving, saves, mail, shown, current, storeVars,
                   diskVars, serverVars, staffVars>>
LoadCheck(u) ==
    /\ up[u].pc = "load"
    /\ up' = [up EXCEPT ![u].pc =
                IF scripts[up[u].to] > 0 \/ ended[up[u].to]
                THEN "refused" ELSE "append"]
    /\ UNCHANGED <<page, warns, saving, saves, mail, shown, current, storeVars,
                   diskVars, serverVars, staffVars>>

\* It appends the lines to the log file and adds a script row.
LoadAppend(u) ==
    /\ up[u].pc = "append"
    /\ LET s == up[u].to
       IN  /\ file' = [file EXCEPT ![s] = Sum2(@, up[u].blob)]
           /\ scripts' = [scripts EXCEPT ![s] = @ + 1]
    /\ up' = [up EXCEPT ![u].pc = "loaded"]
    /\ UNCHANGED <<page, warns, saving, saves, mail, shown, current, storeVars,
                   diskVars, kids, ended, ran, staffVars>>

\* SUCCESS: close the dialog and clear the pending transactions.
Loaded(u) ==
    /\ up[u].pc = "loaded"
    /\ up' = [up EXCEPT ![u] = Finished]
    /\ IF Alive(u) THEN Post(up[u].tab, <<Req("wipe", None, "clear", None)>>)
       ELSE UNCHANGED mail
    /\ UNCHANGED <<page, warns, saving, saves, shown, current, storeVars, diskVars,
                   serverVars, staffVars>>

\* Any other answer, or none: close the dialog.  Without the exceptions there
\* is no upload, and no dialog yet.
NotLoaded(u) ==
    /\ \/ up[u].pc = "refused"
       \/ MayLose /\ up[u].pc = "loaded"
       \/ MayLose /\ up[u].pc = "asked" /\ Alive(u)
    /\ up' = [up EXCEPT ![u] = Finished]
    /\ UNCHANGED <<page, warns, saving, saves, mail, shown, current, storeVars,
                   diskVars, serverVars, staffVars>>

InMail == {x \in Xacts : \E t \in Tabs : \E i \in DOMAIN mail[t] :
              /\ mail[t][i].op = "insert" /\ mail[t][i].x = x
              /\ mail[t][i].st = "sent"}

\* clear_pending, confirmed.
ClearPending(t) ==
    /\ t \in SessionTabs /\ MayAct(t) /\ ~Busy(t)
    /\ In(shown[t]) # {}
    /\ Post(t, <<Req("wipe", None, "clear", None)>>)
    /\ dropped' = dropped \cup In(stored) \cup InMail
    /\ UNCHANGED <<page, warns, saving, saves, shown, current, up, storeVars,
                   diskVars, serverVars, entered, denied>>

\* Export writes the list the page shows.
Export(t) ==
    /\ imports < MaxImports /\ MayAct(t)
    /\ In(shown[t]) # {} /\ disk # In(shown[t])
    /\ disk' = In(shown[t])
    /\ UNCHANGED <<tabVars, storeVars, imports, serverVars, staffVars>>

Import(t) ==
    /\ t \in SessionTabs /\ MayAct(t) /\ ~Busy(t)
    /\ disk # {} /\ imports < MaxImports
    /\ imports' = imports + 1
    /\ Post(t, Inserts(disk, "import", None))
    /\ dropped' = dropped \ disk
    /\ UNCHANGED <<page, warns, saving, saves, shown, current, up, storeVars, disk,
                   serverVars, entered, denied>>

MaxKids == 2        \* bound: children forked and not yet under way

\* offline.pl, ol_execute: every script of the session contributes the lines
\* of its log file; a forked child runs them.  That it runs is recorded by
\* the child, so a second one may be forked before.
Process(t, s) ==
    /\ t \in SessionTabs /\ MayAct(t) /\ ~Busy(t)
    /\ scripts[s] > 0 /\ ~ended[s] /\ Len(kids[s]) < MaxKids
    /\ current' = [current EXCEPT ![t] = s]
    /\ kids' = [kids EXCEPT ![s] =
                    Append(@, [x \in Xacts |-> scripts[s] * file[s][x]])]
    /\ UNCHANGED <<page, warns, saving, saves, mail, shown, up, storeVars, diskVars,
                   file, scripts, ended, ran, staffVars>>

ChildRuns(s) ==
    /\ kids[s] # <<>>
    /\ ran' = Sum2(ran, Head(kids[s]))
    /\ ended' = [ended EXCEPT ![s] = TRUE]
    /\ kids' = [kids EXCEPT ![s] = Tail(@)]
    /\ UNCHANGED <<tabVars, storeVars, diskVars, file, scripts, staffVars>>

-----------------------------------------------------------------------------
Machine(t) ==
    \/ Work(t)
    \/ Inserted(t) \/ Dated(t) \/ Wiped(t) \/ Undated(t) \/ Listed(t)
    \/ Refused(t)
    \/ \E s \in saving[t] : SaveSettled(t, s)

Network(u) ==
    GotExceptions(u) \/ LoadCheck(u) \/ LoadAppend(u) \/ Loaded(u)
        \/ NotLoaded(u)

Staff(t) ==
    \/ \E x \in Xacts : Add(t, x) \/ Register(t, x)
    \/ Save(t) \/ Close(t) \/ Stay(t)
    \/ Look(t) \/ ClearPending(t) \/ Export(t) \/ Import(t)
    \/ \E s \in Sessions : Select(t, s) \/ Process(t, s)
                              \/ \E u \in Uploads : AskUpload(t, u, s)

Next ==
    /\ \/ \E t \in Tabs : Machine(t) \/ Staff(t)
       \/ \E u \in Uploads : Network(u)
       \/ \E s \in Sessions : ChildRuns(s)
    /\ UNCHANGED ways

Spec == Init /\ [][Next]_vars

-----------------------------------------------------------------------------
(* Where a transaction is, for the ledger.                                 *)

Fate(x) ==
    IF x \notin entered THEN "unborn"
    ELSE IF \E s \in Sessions : file[s][x] > 0 THEN "server"
    ELSE IF x \in In(stored) \cup InMail THEN "store"
    ELSE IF x \in dropped THEN "dropped"
    ELSE IF \E t \in Tabs : x \in page[t] THEN "page"
    ELSE IF x \in denied THEN "refused" ELSE "lost"

\* Staff who add nothing while a save is under way, use one tab at a time, leave
\* when they are asked whether to, and close no tab if they register patrons, which
\* takes the prompt off before the page is saved; they may press buttons twice.
Careful ==
    Hurries \subseteq {"save", "click"} /\ ~MayStay /\ ~(MayClose /\ Registers)

Ledger == INSTANCE OfflineLedger
    WITH fate <- [x \in Xacts |-> IF Careful THEN Fate(x) ELSE "unborn"]

\* What careful staff enter goes from the page to the store and from the store
\* to the server, or where they tell it to go, whatever is refused or lost and
\* whenever a tab is closed (save, addOfflineXact, uploadPending,
\* destroyPendingOfflineXacts and ol_load together).
KeepsLedger == Ledger!LedgerSpec

\* No transaction of careful staff is nowhere, but for those whose insert the
\* database itself refused: that one refusal ends a save early loses no other
\* (save, whose finally empties the page).
NothingLost == Careful => \A x \in Xacts : Fate(x) # "lost"

\* Without double clicks, lost answers, closed tabs and imports, uploading and
\* processing run a transaction at most once, though another tab saves at the
\* same time, but none that uploads (uploadPending, clear_pending, ol_load and
\* ol_execute).
Orderly ==
    /\ Hurries \subseteq {"tabs"} /\ ~MayLose /\ ~MayRefuse /\ ~MayClose
    /\ "tabs" \in Hurries => \A t, o \in SessionTabs : t = o
RunOnce ==
    Orderly /\ imports = 0 => \A x \in Xacts : ran[x] <= 1

\* With one tab at a time, none closed and nothing refused, the date the login
\* page looks at is there exactly when transactions are waiting, as soon as
\* nothing is under way (addOfflineXact, destroyPendingOfflineXacts,
\* havePendingOfflineXacts).
DateTells ==
    "tabs" \notin Hurries /\ ~MayClose /\ ~MayRefuse =>
        (Quiet => (date <=> In(stored) # {}))

\* An upload goes to the session whose button was pressed, unless another is
\* clicked meanwhile (setSession and uploadPending share current_session).
SentWhereAsked ==
    "click" \notin Hurries =>
        \A u \in Uploads : up[u].to \in {None, up[u].asked}

\* No transaction is lost, none is run twice and none is sent to a session that was
\* not asked for, however often staff press Save and whichever answers are lost
\* (save, uploadPending, clear_pending, ol_load and ol_execute).
OfflineInv == TypeOK /\ NothingLost /\ RunOnce /\ SentWhereAsked
=============================================================================
