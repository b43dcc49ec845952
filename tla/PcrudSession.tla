---------------------------- MODULE PcrudSession ----------------------------
(***************************************************************************)
(* One call of the pcrud service of a staff client: connect, begin, write  *)
(* the objects of a list one after the other, close the transaction and    *)
(* disconnect.  client "web" is the AngularJS service (services/pcrud.js), *)
(* "eg2" the Angular one (core/pcrud.service.ts).  The server,             *)
(* open-ils.pcrud, serves the requests of a session in their order and     *)
(* answers in that order.                                                  *)
(***************************************************************************)
EXTENDS Integers, Sequences

CONSTANTS
    N,              \* objects in the list
    Clients,        \* the clients there may be: "web", "eg2"
    Refusals,       \* kinds of request the server may refuse
    MayTimeOut      \* the server may drop an idle session

ASSUME PcrudAssumption ==
    /\ N \in Nat
    /\ Clients \subseteq {"web", "eg2"}
    /\ Refusals \subseteq {"begin", "cud", "read", "close"}
    /\ MayTimeOut \in BOOLEAN

VARIABLES
    client,     \* the service that makes the call
    call,       \* "cud", or "read" for an authoritative search
    work,       \* the objects of the list that need writing
    reqs,       \* the requests sent so far, the nth with its object
    ans,        \* the server's answers so far, the nth to the nth request
    heard,      \* how many answers have arrived
    idx,        \* cud_idx: the next object to look at
    body,       \* the promise of the main body
    told,       \* the promise the caller holds
    sess,       \* the server's session
    xact,       \* it has a transaction
    aborted,    \* in which a statement failed
    written,    \* the objects written in it
    saved       \* the objects committed

clientVars == <<client, call, work, reqs, heard, idx, body, told>>
serverVars == <<ans, sess, xact, aborted, written, saved>>
vars == <<clientVars, serverVars>>

Objects == 1..N

\* "auto" is a method the server does not have, see Advance.
Req(op, i) == [op |-> op, obj |-> i]
ReqType ==
    [op : {"connect", "begin", "cud", "auto", "read", "close", "disconnect"},
     obj : Objects \cup {0}]

TypeOK ==
    /\ client \in Clients
    /\ call \in {"cud", "read"} /\ work \in SUBSET Objects
    /\ reqs \in Seq(ReqType) /\ ans \in Seq({"ok", "err"})
    /\ heard \in Nat /\ heard <= Len(ans) /\ Len(ans) <= Len(reqs)
    /\ idx \in 1..(N + 1)
    /\ body \in {"open", "complete", "failed"}
    /\ told \in {"none", "ok", "failed"}
    /\ sess \in {"none", "open", "gone"}
    /\ xact \in BOOLEAN /\ aborted \in BOOLEAN
    /\ written \in SUBSET Objects /\ saved \in SUBSET Objects

Init ==
    /\ client \in Clients
    /\ call \in {"cud", "read"}
    /\ work \in IF call = "cud" THEN SUBSET Objects ELSE {{}}
    /\ reqs = <<Req("connect", 0)>> /\ ans = <<>> /\ heard = 0
    /\ idx = 1 /\ body = "open" /\ told = "none"
    /\ sess = "none" /\ xact = FALSE /\ aborted = FALSE
    /\ written = {} /\ saved = {}

-----------------------------------------------------------------------------
(* The server.                                                             *)

Answer(a) == ans' = Append(ans, a)

\* The child of open-ils.pcrud that holds the session takes the next request.
Waiting(op) == Len(ans) < Len(reqs) /\ reqs[Len(ans) + 1].op = op
Serving(op) == Waiting(op) /\ sess = "open"

ServeConnect ==
    /\ Waiting("connect")
    /\ sess' = "open" /\ Answer("ok")
    /\ UNCHANGED <<clientVars, xact, aborted, written, saved>>

ServeBegin ==
    /\ Serving("begin")
    /\ xact' = TRUE /\ Answer("ok")
    /\ UNCHANGED <<clientVars, sess, aborted, written, saved>>

ServeWrite ==
    /\ Serving("cud") /\ xact /\ ~aborted
    /\ written' = written \cup {reqs[Len(ans) + 1].obj} /\ Answer("ok")
    /\ UNCHANGED <<clientVars, sess, xact, aborted, saved>>

ServeRead ==
    /\ Serving("read")
    /\ Answer("ok")
    /\ UNCHANGED <<clientVars, sess, xact, aborted, written, saved>>

\* The call for reading closes with rollback, the others with commit; the
\* commit of a transaction with a failed statement rolls it back.
ServeClose ==
    /\ Serving("close") /\ xact
    /\ xact' = FALSE /\ written' = {}
    /\ saved' = IF call = "cud" /\ ~aborted THEN written ELSE saved
    /\ Answer("ok")
    /\ UNCHANGED <<clientVars, sess, aborted>>

\* No permission, no login, a row that breaks a constraint: the latter
\* aborts the transaction.
Refuse ==
    /\ \E op \in Refusals : Serving(op)
    /\ aborted' \in IF Serving("cud") THEN {aborted, TRUE} ELSE {aborted}
    /\ Answer("err")
    /\ UNCHANGED <<clientVars, sess, xact, written, saved>>

\* Without its session a request may reach another child: a transaction that
\* begins there ends with it.
ServeElsewhere ==
    /\ \E op \in {"begin", "read"} : Waiting(op)
    /\ sess = "gone"
    /\ Answer("ok")
    /\ UNCHANGED <<clientVars, sess, xact, aborted, written, saved>>

\* There is no such method, no transaction, or no session any more.
ServeError ==
    /\ \/ Waiting("auto")
       \/ \E op \in {"begin", "cud", "read", "close"} :
            Waiting(op) /\ sess = "gone"
       \/ \E op \in {"cud", "close"} : Waiting(op) /\ ~xact
       \/ Serving("cud") /\ aborted
    /\ Answer("err")
    /\ UNCHANGED <<clientVars, sess, xact, aborted, written, saved>>

\* userDataFree rolls back what the session leaves open.
EndSession ==
    /\ sess' = "gone" /\ xact' = FALSE /\ written' = {}
    /\ UNCHANGED <<clientVars, aborted, saved>>

\* A disconnect is not answered; its place in ans only counts.
ServeDisconnect == Waiting("disconnect") /\ EndSession /\ Answer("ok")

TimeOut ==
    /\ MayTimeOut /\ sess = "open" /\ Len(ans) = Len(reqs)
    /\ EndSession /\ UNCHANGED ans

Serve ==
    \/ ServeConnect \/ ServeBegin \/ ServeWrite \/ ServeRead \/ ServeClose
    \/ ServeElsewhere \/ Refuse \/ ServeError \/ ServeDisconnect

-----------------------------------------------------------------------------
(* The client: each action takes the next answer.                          *)

Hear(op, a) ==
    /\ heard < Len(ans)
    /\ reqs[heard + 1].op = op /\ ans[heard + 1] = a
    /\ heard' = heard + 1
    /\ UNCHANGED <<client, call, work, serverVars>>

Send(rs) == reqs' = reqs \o rs

\* j is the next object that needs writing; N + 1 if there is none.
IsNext(j) ==
    /\ j <= N => j \in work
    /\ \A h \in work : h >= idx => h >= j

\* The Angular service sends, for each object it has passed over, a request
\* of its own after what followed the object: nextCudRequest does not return.
Autos(n) == IF client = "eg2" THEN [k \in 1..n |-> Req("auto", 0)] ELSE <<>>

\* nextCudRequest: write the next object, or complete the main body, which
\* closes the transaction unless it has failed.
Advance ==
    \E j \in idx..(N + 1) :
        /\ IsNext(j)
        /\ IF j <= N
           THEN /\ Send(<<Req("cud", j)>> \o Autos(j - idx))
                /\ idx' = j + 1
                /\ UNCHANGED <<body, told>>
           ELSE /\ idx' = N + 1
                /\ IF body = "open"
                   THEN /\ body' = "complete"
                        /\ Send(<<Req("close", 0)>> \o Autos(j - idx))
                   ELSE /\ Send(Autos(j - idx))
                        /\ UNCHANGED body
                /\ UNCHANGED told

Fail ==
    /\ IF body = "open" THEN body' = "failed" /\ told' = "failed"
       ELSE UNCHANGED <<body, told>>
    /\ UNCHANGED <<reqs, idx>>

Connected ==
    /\ Hear("connect", "ok")
    /\ Send(<<Req("begin", 0)>>) /\ UNCHANGED <<idx, body, told>>

Begun ==
    /\ Hear("begin", "ok")
    /\ \/ /\ call = "cud" /\ Advance
       \/ /\ call = "read" /\ Send(<<Req("read", 0)>>)
          /\ UNCHANGED <<idx, body, told>>

\* Neither service handles a begin that is refused.
NotBegun == Hear("begin", "err") /\ UNCHANGED <<reqs, idx, body, told>>

MutantWrote ==                      \* commits after each object
    /\ Hear("cud", "ok")
    /\ Send(<<Req("close", 0)>>) /\ UNCHANGED <<idx, body, told>>
Wrote == Hear("cud", "ok") /\ Advance

HaveRead ==
    /\ Hear("read", "ok")
    /\ body' = "complete" /\ Send(<<Req("close", 0)>>)
    /\ UNCHANGED <<idx, told>>

MutantBodyFails ==                  \* an error does not stop the main body
    /\ \E op \in {"cud", "auto", "read"} : Hear(op, "err")
    /\ Advance
MutantBodyStalls ==                 \* does not pass the error on
    \E op \in {"cud", "auto", "read"} :
        Hear(op, "err") /\ UNCHANGED <<reqs, idx, body, told>>
BodyFails ==
    /\ \E op \in {"cud", "auto", "read"} : Hear(op, "err")
    /\ Fail

Closed ==
    /\ Hear("close", "ok")
    /\ Send(<<Req("disconnect", 0)>>)
    /\ told' = "ok"
    /\ UNCHANGED <<idx, body>>

\* Only the Angular service hears of a close that is refused.
MutantNotClosed ==                  \* takes any answer for success
    /\ Hear("close", "err")
    /\ told' = "ok"
    /\ UNCHANGED <<reqs, idx, body>>
NotClosed ==
    /\ Hear("close", "err")
    /\ told' = IF client = "eg2" THEN "failed" ELSE told
    /\ UNCHANGED <<reqs, idx, body>>

HearAny ==
    \/ Connected \/ Begun \/ NotBegun \/ Wrote \/ HaveRead
    \/ BodyFails \/ Closed \/ NotClosed

Next == Serve \/ TimeOut \/ HearAny

Spec == Init /\ [][Next]_vars

\* The server serves and the browser delivers.
FairSpec == Spec /\ WF_vars(Serve) /\ WF_vars(HearAny)

-----------------------------------------------------------------------------
(* The inductive invariant.                                                *)

Sent(op) == {k \in DOMAIN reqs : reqs[k].op = op}

\* The session is opened first, and nothing is sent before it has begun.
OpeningInv ==
    /\ Len(reqs) >= 1
    /\ Sent("connect") = {1} /\ Sent("begin") \subseteq {2}
    /\ heard < 2 => Len(reqs) = heard + 1

\* Each object up to cud_idx that needs writing was sent once, and one write
\* at most is under way.
WriteInv ==
    /\ call = "read" => work = {}
    /\ \A k \in Sent("cud") : reqs[k].obj \in work /\ reqs[k].obj < idx
    /\ \A k, l \in Sent("cud") : reqs[k].obj = reqs[l].obj => k = l
    /\ \A i \in work : i < idx => \E k \in Sent("cud") : reqs[k].obj = i
    /\ \A k, l \in Sent("cud") : k > heard /\ l > heard => k = l

ReadInv ==
    /\ Sent("read") \subseteq {3}
    /\ Sent("read") # {} => call = "read"
    /\ call = "read" => Sent("auto") = {}
    /\ call = "read" /\ heard < 3 => body = "open"

\* The main body is complete only when every write was answered with success.
BodyInv ==
    /\ body = "open" => told = "none"
    /\ body = "open" => \A k \in Sent("cud") : k <= heard => ans[k] = "ok"
    /\ body = "complete" => \A k \in Sent("cud") : k <= heard /\ ans[k] = "ok"
    /\ body = "complete" /\ call = "cud" => idx = N + 1
    /\ body = "failed" => told = "failed"

\* The transaction is closed once, after the main body, and the caller of a
\* complete body is told how that went.
CloseInv ==
    /\ Sent("close") # {} => body = "complete"
    /\ \A k, l \in Sent("close") : k = l
    /\ told = "ok" => \E k \in Sent("close") : k <= heard /\ ans[k] = "ok"
    /\ told = "failed" /\ body = "complete" =>
         \E k \in Sent("close") : k <= heard /\ ans[k] = "err"

\* What the server keeps is what its answers say.
ServerInv ==
    /\ sess = "none" <=> Len(ans) = 0
    /\ xact => sess = "open" /\ Len(ans) >= 2
    /\ written =
         IF xact
         THEN {i \in Objects : \E k \in Sent("cud") :
                 k <= Len(ans) /\ reqs[k].obj = i /\ ans[k] = "ok"}
         ELSE {}
    /\ aborted => \E k \in Sent("cud") : k <= Len(ans) /\ ans[k] = "err"
    /\ saved = IF \E k \in Sent("close") : k <= Len(ans) /\ ans[k] = "ok"
               THEN work ELSE {}

IInv ==
    /\ TypeOK
    /\ OpeningInv /\ WriteInv /\ ReadInv /\ BodyInv /\ CloseInv /\ ServerInv

-----------------------------------------------------------------------------
(* Properties.                                                             *)

\* A list is saved whole or not at all, whatever is refused or times out and
\* however many requests are under way (CUD and xactClose).
AllOrNothing == saved \in {{}, work}

\* The caller is told the truth: "ok" only of what is saved, "failed" only
\* when nothing is (wrapXact and its handlers).
ToldTrue == (told = "ok" => saved = work) /\ (told = "failed" => saved = {})

Batch == INSTANCE AtomicBatch WITH work <- work, saved <- saved, told <- told

\* The service implements an atomic batch: everything is saved in one step,
\* before the caller is told.
KeepsBatch == Batch!BatchSpec

\* While no request it means to send is refused, a call of the AngularJS service
\* does not fail: what needs no writing is passed over (nextCudRequest).
NoFalseAlarm ==
    /\ client = "web"
    /\ \A k \in DOMAIN ans : ans[k] = "err" => reqs[k].op = "auto"
    => told # "failed"

\* The answers neither service tells its caller about.
Unheard ==
    \E k \in 1..heard :
        /\ ans[k] = "err"
        /\ reqs[k].op = "begin" \/ (reqs[k].op = "close" /\ client = "web")

\* Every call ends and its caller is told something, whatever is refused or
\* times out, but for a refused begin and a close the AngularJS service hears
\* no more of (wrapXact, _wrap_xact).
Settles == <>(told # "none" \/ Unheard)

\* A call that has succeeded leaves no session behind on the server
\* (disconnect, which nobody waits for).
Disconnects == told = "ok" ~> sess # "open"

\* Every call ends, and one that succeeded ends on the server, too.
CallEnds == Settles /\ Disconnects
=============================================================================
