---------------------------- MODULE WorkerSchemas ----------------------------
(***************************************************************************)
(* How the tabs of a browser come to use the databases of the shared       *)
(* worker: egLovefield creates and connects the schemas a page needs       *)
(* before it relays the page's first request, the worker connects each     *)
(* schema once for all tabs.                                               *)
(***************************************************************************)
EXTENDS Integers, Sequences, FiniteSets

CONSTANTS
    Tabs,
    Schemas,        \* activeSchemas
    Jobs,           \* requests of a tab
    MayFail         \* a database may refuse to open

VARIABLES
    step,           \* connectToSchema of each tab and schema
    cannot,         \* tabs with cannotConnect
    job,            \* the requests of each tab
    out,            \* messages to the worker on each port
    back,           \* its answers
    created,        \* schemas created in the worker
    db,             \* their databases
    opener          \* the tab whose connect opens a database

tabVars == <<step, cannot, job>>
workerVars == <<created, db, opener>>
vars == <<tabVars, out, back, workerVars>>

NoJob == [schema |-> "none", state |-> "idle"]
JobType ==
    [schema : Schemas,
     state : {"waiting", "relayed", "ok", "err", "refused"}] \cup {NoJob}

\* A message: to create or connect a schema, or a job's request.
Msg(op, s, j) == [op |-> op, schema |-> s, job |-> j]
MsgType == [op : {"create", "connect"}, schema : Schemas, job : {0}]
            \cup [op : {"request"}, schema : Schemas, job : Jobs]

TypeOK ==
    /\ step \in [Tabs -> [Schemas ->
                    {"none", "creating", "connecting", "connected", "failed"}]]
    /\ cannot \in SUBSET Tabs
    /\ job \in [Tabs -> [Jobs -> JobType]]
    /\ \A t \in Tabs : out[t] \in Seq(MsgType)
    /\ back \in [Tabs -> SUBSET (MsgType \X BOOLEAN)]
    /\ created \in SUBSET Schemas
    /\ db \in [Schemas -> {"closed", "opening", "open"}]
    /\ \A s \in Schemas : db[s] = "opening" <=> opener[s] \in Tabs

Init ==
    /\ step = [t \in Tabs |-> [s \in Schemas |-> "none"]]
    /\ cannot = {}
    /\ job = [t \in Tabs |-> [j \in Jobs |-> NoJob]]
    /\ out = [t \in Tabs |-> <<>>] /\ back = [t \in Tabs |-> {}]
    /\ created = {} /\ db = [s \in Schemas |-> "closed"]
    /\ opener = [s \in Schemas |-> "none"]

-----------------------------------------------------------------------------
(* The tabs.                                                               *)

\* connectToSchemas: with the schemas that were not asked for yet.
Fresh(t) == {s \in Schemas : step[t][s] = "none"}

\* request: refused for good once something could not be connected.
Request(t, j, s) ==
    /\ job[t][j] = NoJob
    /\ IF t \in cannot
       THEN /\ job' = [job EXCEPT ![t][j] = [schema |-> s, state |-> "refused"]]
            /\ UNCHANGED <<step, out>>
       ELSE /\ job' = [job EXCEPT ![t][j] = [schema |-> s, state |-> "waiting"]]
            /\ step' = [step EXCEPT ![t] = [x \in Schemas |->
                            IF x \in Fresh(t) THEN "creating" ELSE @[x]]]
            /\ \E q \in [1..Cardinality(Fresh(t)) -> Fresh(t)] :
                 /\ \A a, b \in DOMAIN q : q[a] = q[b] => a = b
                 /\ out' = [out EXCEPT ![t] = @ \o
                        [k \in DOMAIN q |-> Msg("create", q[k], 0)]]
    /\ UNCHANGED <<cannot, back, workerVars>>

\* The schemas have been waited for; a failure is noted, and the request is
\* relayed like any other.
Relay(t, j) ==
    /\ job[t][j].state = "waiting"
    /\ \/ /\ \A s \in Schemas : step[t][s] = "connected"
          /\ UNCHANGED cannot
       \/ /\ \E s \in Schemas : step[t][s] = "failed"
          /\ cannot' = cannot \cup {t}
    /\ job' = [job EXCEPT ![t][j].state = "relayed"]
    /\ out' = [out EXCEPT ![t] = Append(@, Msg("request", job[t][j].schema, j))]
    /\ UNCHANGED <<step, back, workerVars>>

\* An answer arrives, m[1] the message and m[2] whether it went well.
MutantStepped(t, m) ==              \* does not notice a failure
    /\ m \in back[t] /\ back' = [back EXCEPT ![t] = @ \ {m}]
    /\ m[1].op # "request" /\ m[2]
    /\ IF m[1].op = "create"
       THEN /\ step' = [step EXCEPT ![t][m[1].schema] = "connecting"]
            /\ out' = [out EXCEPT ![t] = Append(@, Msg("connect", m[1].schema, 0))]
       ELSE /\ step' = [step EXCEPT ![t][m[1].schema] = "connected"]
            /\ UNCHANGED out
    /\ UNCHANGED <<cannot, job, workerVars>>
Stepped(t, m) ==
    /\ m \in back[t] /\ back' = [back EXCEPT ![t] = @ \ {m}]
    /\ m[1].op # "request"
    /\ IF m[1].op = "create"
       THEN /\ step' = [step EXCEPT ![t][m[1].schema] = "connecting"]
            /\ out' = [out EXCEPT ![t] = Append(@, Msg("connect", m[1].schema, 0))]
       ELSE /\ step' = [step EXCEPT ![t][m[1].schema] =
                            IF m[2] THEN "connected" ELSE "failed"]
            /\ UNCHANGED out
    /\ UNCHANGED <<cannot, job, workerVars>>

Done(t, m) ==
    /\ m \in back[t] /\ back' = [back EXCEPT ![t] = @ \ {m}]
    /\ m[1].op = "request"
    /\ job' = [job EXCEPT ![t][m[1].job].state = IF m[2] THEN "ok" ELSE "err"]
    /\ UNCHANGED <<step, cannot, out, workerVars>>

-----------------------------------------------------------------------------
(* The worker.                                                             *)

Take(t, op) ==
    /\ out[t] # <<>> /\ Head(out[t]).op = op
    /\ out' = [out EXCEPT ![t] = Tail(@)]
    /\ UNCHANGED tabVars

Reply(t, m, ok) == back' = [back EXCEPT ![t] = @ \cup {<<m, ok>>}]

Create(t) ==
    /\ Take(t, "create")
    /\ created' = created \cup {Head(out[t]).schema}
    /\ Reply(t, Head(out[t]), TRUE)
    /\ UNCHANGED <<db, opener>>

\* connect: the database is open, or is being opened for another tab, which
\* makes Lovefield throw, or is opened now.
Connect(t) ==
    LET s == Head(out[t]).schema
    IN  /\ Take(t, "connect") /\ s \in created
        /\ CASE db[s] = "open" ->
                    Reply(t, Head(out[t]), TRUE) /\ UNCHANGED <<db, opener>>
             [] db[s] = "opening" ->
                    Reply(t, Head(out[t]), FALSE) /\ UNCHANGED <<db, opener>>
             [] db[s] = "closed" ->
                    /\ db' = [db EXCEPT ![s] = "opening"]
                    /\ opener' = [opener EXCEPT ![s] = t]
                    /\ UNCHANGED back
        /\ UNCHANGED created

MutantOpened(s) ==                  \* answers and is not open
    /\ db[s] = "opening"
    /\ db' = [db EXCEPT ![s] = "closed"]
    /\ Reply(opener[s], Msg("connect", s, 0), TRUE)
    /\ opener' = [opener EXCEPT ![s] = "none"]
    /\ UNCHANGED <<tabVars, out, created>>
Opened(s) ==
    /\ db[s] = "opening"
    /\ \/ /\ db' = [db EXCEPT ![s] = "open"]
          /\ Reply(opener[s], Msg("connect", s, 0), TRUE)
       \/ /\ MayFail
          /\ db' = [db EXCEPT ![s] = "closed"]
          /\ Reply(opener[s], Msg("connect", s, 0), FALSE)
    /\ opener' = [opener EXCEPT ![s] = "none"]
    /\ UNCHANGED <<tabVars, out, created>>

\* getTableInfo: a query needs its schema's database.
Query(t) ==
    /\ Take(t, "request")
    /\ Reply(t, Head(out[t]), db[Head(out[t]).schema] = "open")
    /\ UNCHANGED workerVars

Page == \E t \in Tabs :
            \/ \E j \in Jobs : Relay(t, j)
            \/ \E m \in back[t] : Stepped(t, m) \/ Done(t, m)
Worker == \/ \E t \in Tabs : Create(t) \/ Connect(t) \/ Query(t)
          \/ \E s \in Schemas : Opened(s)
Next == \/ \E t \in Tabs, j \in Jobs, s \in Schemas : Request(t, j, s)
        \/ Page \/ Worker

-----------------------------------------------------------------------------
(* Properties.                                                             *)

\* What a tab takes for connected is open in the worker, whichever tab opened
\* it (connectedSchemas, schema.db).
ConnectedIsOpen ==
    \A t \in Tabs, s \in Schemas : step[t][s] = "connected" => db[s] = "open"

\* Every request comes to an end, whatever fails (connectToSchemas, request).
RequestsEnd ==
    \A t \in Tabs, j \in Jobs :
        job[t][j].state = "waiting" ~> job[t][j].state \in {"ok", "err"}

\* Why ConnectedIsOpen holds: an answer that a schema is connected is only under
\* way when its database is open, which it stays; and the requests under way are
\* those of jobs.
SchemasInv ==
    /\ TypeOK /\ ConnectedIsOpen
    /\ DOMAIN out = Tabs /\ DOMAIN opener = Schemas
    /\ \A t \in Tabs : \A m \in back[t] :
          /\ m[1].op = "connect" /\ m[2] => db[m[1].schema] = "open"
          /\ m[1].op = "request" => job[t][m[1].job] # NoJob
    /\ \A t \in Tabs : \A k \in DOMAIN out[t] :
          out[t][k].op = "request" => job[t][out[t][k].job] # NoJob
=============================================================================
