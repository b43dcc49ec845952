------------------------- MODULE PcrudSessionProofs -------------------------
(***************************************************************************)
(* That a call of the pcrud services is an atomic batch, for every length  *)
(* of the list, whatever is refused or times out.                          *)
(***************************************************************************)
EXTENDS PcrudSession, TLAPS

LEMMA AutosAreAuto ==
    ASSUME NEW n \in Nat
    PROVE  /\ Autos(n) \in Seq(ReqType)
           /\ \A k \in 1..Len(Autos(n)) : Autos(n)[k] = Req("auto", 0)
<1>1. CASE client = "eg2"
  <2>1. Autos(n) = [k \in 1..n |-> Req("auto", 0)]  BY <1>1 DEF Autos
  <2>2. Req("auto", 0) \in ReqType  BY DEF Req, ReqType
  <2> QED  BY <2>1, <2>2
<1>2. CASE client # "eg2"
  <2>1. Autos(n) = <<>>  BY <1>2 DEF Autos
  <2> QED  BY <2>1
<1> QED  BY <1>1, <1>2

\* What follows a request in the same step is noise only.
LEMMA ThenAutos ==
    ASSUME NEW r \in ReqType, NEW n \in Nat
    PROVE  LET t == <<r>> \o Autos(n)
           IN  /\ t \in Seq(ReqType) /\ Len(t) >= 1 /\ t[1] = r
               /\ \A k \in 2..Len(t) : t[k].op = "auto"
<1>1. Autos(n) \in Seq(ReqType)
      /\ \A k \in 1..Len(Autos(n)) : Autos(n)[k] = Req("auto", 0)
  BY AutosAreAuto
<1>2. \A k \in 1..Len(Autos(n)) : Autos(n)[k].op = "auto"
  BY <1>1 DEF Req
<1>3. <<r>> \in Seq(ReqType)  OBVIOUS
<1> QED  BY <1>1, <1>2, <1>3

\* Sending adds to the log and changes nothing in it.
LEMMA Sending ==
    ASSUME reqs \in Seq(ReqType), NEW t \in Seq(ReqType), Send(t)
    PROVE  /\ reqs' \in Seq(ReqType)
           /\ Len(reqs') = Len(reqs) + Len(t)
           /\ \A k \in 1..Len(reqs) : reqs'[k] = reqs[k]
           /\ \A k \in 1..Len(reqs') : k > Len(reqs) => reqs'[k] = t[k - Len(reqs)]
BY DEF Send

LEMMA Answering ==
    ASSUME ans \in Seq({"ok", "err"}), NEW a \in {"ok", "err"}, Answer(a)
    PROVE  /\ ans' \in Seq({"ok", "err"})
           /\ Len(ans') = Len(ans) + 1
           /\ \A k \in 1..Len(ans) : ans'[k] = ans[k]
           /\ ans'[Len(ans) + 1] = a
BY DEF Answer

\* The initial states satisfy the invariant (pcrud.js, _wrap_xact).
THEOREM InitIInv == Init => IInv
<1> SUFFICES ASSUME Init PROVE IInv  OBVIOUS
<1> USE PcrudAssumption
<1>1. /\ reqs = <<Req("connect", 0)>> /\ ans = <<>> /\ heard = 0 /\ idx = 1
      /\ body = "open" /\ told = "none" /\ sess = "none" /\ xact = FALSE
      /\ aborted = FALSE /\ written = {} /\ saved = {}
  BY DEF Init
<1>2. Len(reqs) = 1 /\ DOMAIN reqs = {1} /\ reqs[1].op = "connect"
  BY <1>1 DEF Req
<1>3. reqs \in Seq(ReqType)
  <2>1. Req("connect", 0) \in ReqType  BY DEF Req, ReqType
  <2> QED  BY <1>1, <2>1
<1>4. TypeOK
  <2>1. client \in Clients /\ call \in {"cud", "read"} /\ work \in SUBSET Objects
    BY DEF Init
  <2>2. idx \in 1..(N + 1)  BY <1>1
  <2>3. ans \in Seq({"ok", "err"}) /\ Len(ans) = 0  BY <1>1
  <2>4. heard \in Nat /\ heard <= Len(ans) /\ Len(ans) <= Len(reqs)
    BY <1>1, <1>2, <2>3
  <2>5. /\ body \in {"open", "complete", "failed"}
        /\ told \in {"none", "ok", "failed"}
        /\ sess \in {"none", "open", "gone"}
        /\ xact \in BOOLEAN /\ aborted \in BOOLEAN
        /\ written \in SUBSET Objects /\ saved \in SUBSET Objects
    BY <1>1
  <2> QED  BY <1>3, <2>1, <2>2, <2>3, <2>4, <2>5 DEF TypeOK
<1>5. /\ Sent("connect") = {1} /\ Sent("begin") = {} /\ Sent("cud") = {}
      /\ Sent("read") = {} /\ Sent("close") = {} /\ Sent("auto") = {}
  BY <1>2 DEF Sent
<1>6. OpeningInv  BY <1>1, <1>2, <1>5 DEF OpeningInv
<1>7. WriteInv
  <2>1. call = "read" => work = {}  BY DEF Init
  <2>2. work \in SUBSET Objects  BY DEF Init
  <2> QED  BY <1>1, <1>5, <2>1, <2>2 DEF WriteInv, Objects
<1>8. ReadInv /\ BodyInv /\ CloseInv
  BY <1>1, <1>5 DEF ReadInv, BodyInv, CloseInv
<1>9. ServerInv  BY <1>1, <1>5 DEF ServerInv
<1> QED  BY <1>4, <1>6, <1>7, <1>8, <1>9 DEF IInv

-----------------------------------------------------------------------------
(* The server's steps leave what the client has sent and heard alone.      *)

ClientInv == OpeningInv /\ WriteInv /\ ReadInv /\ BodyInv /\ CloseInv

LEMMA ServerKeepsClient ==
    ASSUME IInv, UNCHANGED clientVars, NEW a \in {"ok", "err"},
           Answer(a) \/ UNCHANGED ans
    PROVE  ClientInv'
<1> USE DEF IInv
<1>1. \A op : Sent(op)' = Sent(op)  BY DEF Sent, clientVars
<1>2. \A k \in 1..heard : ans'[k] = ans[k]
  BY Answering DEF TypeOK
<1>3. OpeningInv'  BY <1>1 DEF OpeningInv, clientVars
<1>4. WriteInv'  BY <1>1 DEF WriteInv, clientVars
<1>5. ReadInv'  BY <1>1 DEF ReadInv, clientVars
<1>6. Sent("cud") \subseteq Nat \ {0} /\ Sent("close") \subseteq Nat \ {0}
  BY DEF Sent, TypeOK
<1>7. BodyInv'  BY <1>1, <1>2, <1>6 DEF BodyInv, TypeOK, clientVars
<1>8. CloseInv'  BY SMTT(30), <1>1, <1>2, <1>6 DEF CloseInv, TypeOK, clientVars
<1> QED  BY <1>3, <1>4, <1>5, <1>7, <1>8 DEF ClientInv

\* The request the server takes next.
LEMMA NextRequest ==
    ASSUME TypeOK, NEW op, Waiting(op)
    PROVE  /\ Len(ans) + 1 \in Sent(op)
           /\ reqs[Len(ans) + 1] \in ReqType
           /\ \A other : other # op => Len(ans) + 1 \notin Sent(other)
           /\ Len(ans) + 1 \in 1..Len(reqs)
BY DEF TypeOK, Waiting, Sent

\* The requests of a kind that were answered with a.
Answered(op, a) == {k \in Sent(op) : k <= Len(ans) /\ ans[k] = a}

LEMMA ServerInvMeans ==
    ServerInv <=>
        /\ sess = "none" <=> Len(ans) = 0
        /\ xact => sess = "open" /\ Len(ans) >= 2
        /\ written = IF xact THEN {i \in Objects :
                        \E k \in Answered("cud", "ok") : reqs[k].obj = i} ELSE {}
        /\ aborted => Answered("cud", "err") # {}
        /\ saved = IF Answered("close", "ok") # {} THEN work ELSE {}
BY DEF ServerInv, Answered

\* The same of the next state.
LEMMA ServerInvNext ==
    ASSUME /\ sess' = "none" <=> Len(ans') = 0
           /\ xact' => sess' = "open" /\ Len(ans') >= 2
           /\ written' = IF xact' THEN {i \in Objects :
                \E k \in Answered("cud", "ok")' : reqs'[k].obj = i} ELSE {}
           /\ aborted' => Answered("cud", "err")' # {}
           /\ saved' = IF Answered("close", "ok")' # {} THEN work' ELSE {}
    PROVE  ServerInv'
BY DEF ServerInv, Answered

\* An answer makes one request more an answered one.
LEMMA AnsweredGrows ==
    ASSUME TypeOK, UNCHANGED clientVars, NEW op, Waiting(op),
           NEW a \in {"ok", "err"}, Answer(a)
    PROVE  /\ Answered(op, a)' = Answered(op, a) \cup {Len(ans) + 1}
           /\ \A o, b : o # op \/ b # a => Answered(o, b)' = Answered(o, b)
<1>1. \A o : Sent(o)' = Sent(o)  BY DEF Sent, clientVars
<1>2. /\ Len(ans') = Len(ans) + 1 /\ ans'[Len(ans) + 1] = a
      /\ \A k \in 1..Len(ans) : ans'[k] = ans[k]
  BY Answering DEF TypeOK
<1>3. /\ Len(ans) + 1 \in Sent(op)
      /\ \A o : o # op => Len(ans) + 1 \notin Sent(o)
  BY NextRequest
<1>4. Len(ans) \in Nat /\ \A o : Sent(o) \subseteq Nat \ {0}
  BY DEF TypeOK, Sent
<1>5. ASSUME NEW o, NEW b, NEW k \in Sent(o)
      PROVE  k <= Len(ans') /\ ans'[k] = b <=>
               \/ k <= Len(ans) /\ ans[k] = b
               \/ k = Len(ans) + 1 /\ b = a
  BY <1>2, <1>4
<1>6. \A o, b : Answered(o, b)' = {k \in Sent(o) : k <= Len(ans') /\ ans'[k] = b}
  BY <1>1 DEF Answered
<1>7. \A o, b, k : k \in Answered(o, b)' <=>
        k \in Answered(o, b) \/ (k \in Sent(o) /\ k = Len(ans) + 1 /\ b = a)
  <2> TAKE o, b, k
  <2>1. k \in Answered(o, b)' <=> k \in Sent(o) /\ k <= Len(ans') /\ ans'[k] = b
    BY <1>6
  <2>2. k \in Answered(o, b) <=> k \in Sent(o) /\ k <= Len(ans) /\ ans[k] = b
    BY DEF Answered
  <2> QED  BY <2>1, <2>2, <1>5
<1>8. Answered(op, a)' = Answered(op, a) \cup {Len(ans) + 1}
  BY <1>3, <1>7
<1>9. ASSUME NEW o, NEW b, o # op \/ b # a
      PROVE  Answered(o, b)' = Answered(o, b)
  <2>1. \A k : ~(k \in Sent(o) /\ k = Len(ans) + 1 /\ b = a)  BY <1>3, <1>9
  <2>2. \A k : k \in Answered(o, b)' <=> k \in Answered(o, b)
    BY <2>1, <1>7
  <2> QED  BY <2>2
<1> QED  BY <1>8, <1>9

\* Once something but the connect is taken up, the session has been opened.
LEMMA Opened ==
    ASSUME TypeOK, OpeningInv, NEW op, Waiting(op), op # "connect"
    PROVE  Len(ans) >= 1
<1>1. Len(ans) + 1 \notin {1}  BY NextRequest DEF OpeningInv
<1> QED  BY <1>1 DEF TypeOK

\* When the close is taken up, everything that needed writing is written.
LEMMA AllWritten ==
    ASSUME IInv, Waiting("close"), xact, call = "cud"
    PROVE  ~aborted /\ written = work
<1> USE DEF IInv
<1>1. body = "complete"  BY NextRequest DEF CloseInv
<1>2. \A k \in Sent("cud") : k <= heard /\ ans[k] = "ok"
  BY <1>1 DEF BodyInv
<1>3. \A k \in Sent("cud") : k <= Len(ans)
  BY <1>2 DEF TypeOK, Sent
<1>4. ~aborted  BY <1>2 DEF ServerInv
<1>5. written = {i \in Objects : \E k \in Sent("cud") : reqs[k].obj = i}
  BY <1>2, <1>3 DEF ServerInv
<1>6. idx = N + 1  BY <1>1 DEF BodyInv
<1>7. \A i \in work : i \in Objects /\ i < idx
  BY <1>6, PcrudAssumption DEF TypeOK, Objects
<1>8. written = work  BY <1>5, <1>7 DEF WriteInv
<1> QED  BY <1>4, <1>8

\* Every step of the server keeps the invariant (oils_sql.c).
LEMMA ServeKeeps ==
    ASSUME IInv, Serve \/ TimeOut
    PROVE  IInv'
<1> USE DEF IInv
<1>1. UNCHANGED clientVars  BY DEF Serve, TimeOut, ServeConnect, ServeBegin,
    ServeWrite, ServeRead, ServeClose, ServeElsewhere, Refuse, ServeError, ServeDisconnect,
    EndSession
<1>2. \A i \in Objects : \A k : (reqs[k].obj = i)' <=> reqs[k].obj = i
  BY <1>1 DEF clientVars
<1>a. work' = work /\ reqs' = reqs /\ call' = call  BY <1>1 DEF clientVars
<1>b. ASSUME NEW a \in {"ok", "err"}, Answer(a), Len(ans) < Len(reqs),
             sess' \in {"none", "open", "gone"}, xact' \in BOOLEAN,
             aborted' \in BOOLEAN, written' \in SUBSET Objects,
             saved' \in SUBSET Objects, ServerInv'
      PROVE  IInv'
  <2>1. ans' \in Seq({"ok", "err"}) /\ Len(ans') = Len(ans) + 1
    BY <1>b, Answering DEF TypeOK
  <2>2. TypeOK'  BY <1>1, <1>b, <2>1 DEF TypeOK, clientVars
  <2>3. ClientInv'  BY <1>1, <1>b, ServerKeepsClient
  <2> QED  BY <1>b, <2>2, <2>3 DEF ClientInv
<1>c. \A op : Waiting(op) => Len(ans) < Len(reqs)  BY DEF Waiting
<1>3. CASE ServeConnect
  <2>1. Waiting("connect") /\ Answer("ok")  BY <1>3 DEF ServeConnect
  <2>2. Len(ans) = 0
    <3>1. Len(ans) + 1 \in {1}  BY <2>1, NextRequest DEF OpeningInv
    <3> QED  BY <3>1 DEF TypeOK
  <2>3. Len(ans') = 1  BY <2>1, <2>2, Answering DEF TypeOK
  <2>4. /\ Answered("cud", "ok")' = Answered("cud", "ok")
        /\ Answered("cud", "err")' = Answered("cud", "err")
        /\ Answered("close", "ok")' = Answered("close", "ok")
    BY <1>1, <2>1, AnsweredGrows
  <2>5. sess' = "open" /\ ~xact /\ xact' = xact /\ aborted' = aborted
        /\ written' = written /\ saved' = saved
    BY <1>3, <2>2, ServerInvMeans DEF ServeConnect
  <2>6. ServerInv'
    BY <1>a, <2>3, <2>4, <2>5, ServerInvMeans, ServerInvNext
  <2> QED  BY <1>b, <1>c, <2>1, <2>5, <2>6 DEF TypeOK
<1>d. ASSUME NEW op, Waiting(op), op # "connect", NEW a \in {"ok", "err"},
             Answer(a)
      PROVE  /\ Len(ans) \in Nat /\ Len(ans) >= 1
             /\ Len(ans') = Len(ans) + 1
             /\ Answered(op, a)' = Answered(op, a) \cup {Len(ans) + 1}
             /\ \A o, b : o # op \/ b # a => Answered(o, b)' = Answered(o, b)
  BY <1>1, <1>d, Opened, Answering, AnsweredGrows DEF TypeOK
<1>e. sess # "none" <=> Len(ans) # 0  BY ServerInvMeans
<1>4. CASE ServeBegin
  <2>1. Waiting("begin") /\ Answer("ok") /\ sess = "open"
    BY <1>4 DEF ServeBegin, Serving
  <2>2. xact' = TRUE /\ sess' = sess /\ aborted' = aborted
        /\ written' = written /\ saved' = saved
    BY <1>4 DEF ServeBegin
  <2>3. Len(ans) = 1 /\ Len(ans') = 2
    <3>1. Len(ans) + 1 \in {2}  BY <2>1, NextRequest DEF OpeningInv
    <3>2. Len(ans) \in Nat /\ Len(ans') = Len(ans) + 1  BY <2>1, <1>d
    <3>3. Len(ans) + 1 = 2  BY <3>1
    <3>4. \A m \in Nat : m + 1 = 2 => m = 1  OBVIOUS
    <3>5. Len(ans) = 1  BY <3>2, <3>3, <3>4
    <3> QED  BY <3>2, <3>5
  <2>4. /\ Answered("cud", "ok")' = Answered("cud", "ok")
        /\ Answered("cud", "err")' = Answered("cud", "err")
        /\ Answered("close", "ok")' = Answered("close", "ok")
    BY <2>1, <1>d
  <2>5. written = {}  BY <2>3 DEF ServerInv
  <2>6. Answered("cud", "ok") = {}
    <3>1. 1 \in Sent("connect")  BY DEF OpeningInv
    <3>2. 1 \notin Sent("cud")  BY <3>1 DEF Sent
    <3> QED  BY <2>3, <3>2 DEF Answered, Sent, TypeOK
  <2>7. ServerInv'
    BY <1>a, <2>1, <2>2, <2>3, <2>4, <2>5, <2>6, ServerInvMeans, ServerInvNext
  <2> QED  BY <1>b, <1>c, <2>1, <2>2, <2>7 DEF TypeOK
<1>5. CASE ServeWrite
  <2> DEFINE i == reqs[Len(ans) + 1].obj
  <2>1. Waiting("cud") /\ Answer("ok") /\ sess = "open" /\ xact /\ ~aborted
    BY <1>5 DEF ServeWrite, Serving
  <2>2. xact' = xact /\ sess' = sess /\ aborted' = aborted
        /\ written' = written \cup {i} /\ saved' = saved
    BY <1>5 DEF ServeWrite
  <2>3. /\ Answered("cud", "ok")' = Answered("cud", "ok") \cup {Len(ans) + 1}
        /\ Answered("cud", "err")' = Answered("cud", "err")
        /\ Answered("close", "ok")' = Answered("close", "ok")
        /\ Len(ans) \in Nat /\ Len(ans') = Len(ans) + 1
    BY <2>1, <1>d
  <2>4. i \in Objects
    <3>1. i \in work  BY <2>1, NextRequest DEF WriteInv
    <3> QED  BY <3>1 DEF TypeOK
  <2>5. written = {j \in Objects : \E k \in Answered("cud", "ok") : reqs[k].obj = j}
    BY <2>1, ServerInvMeans
  <2>6. written' = {j \in Objects :
                      \E k \in Answered("cud", "ok")' : reqs[k].obj = j}
    BY <2>2, <2>3, <2>4, <2>5
  <2>7. xact => Len(ans) >= 2  BY ServerInvMeans
  <2>8. saved = IF Answered("close", "ok") # {} THEN work ELSE {}
    BY ServerInvMeans
  <2>9. ServerInv'
    BY <1>a, <2>1, <2>2, <2>3, <2>6, <2>7, <2>8, ServerInvNext
  <2> QED  BY <1>b, <1>c, <2>1, <2>2, <2>4, <2>9 DEF TypeOK
<1>6. CASE ServeRead
  <2>1. Waiting("read") /\ Answer("ok")  BY <1>6 DEF ServeRead, Serving
  <2>2. xact' = xact /\ sess' = sess /\ aborted' = aborted
        /\ written' = written /\ saved' = saved
    BY <1>6 DEF ServeRead
  <2>3. /\ Answered("cud", "ok")' = Answered("cud", "ok")
        /\ Answered("cud", "err")' = Answered("cud", "err")
        /\ Answered("close", "ok")' = Answered("close", "ok")
        /\ Len(ans) \in Nat /\ Len(ans) >= 1 /\ Len(ans') = Len(ans) + 1
    BY <2>1, <1>d
  <2>4. ServerInv'  BY <1>a, <2>2, <2>3, ServerInvMeans, ServerInvNext
  <2> QED  BY <1>b, <1>c, <2>1, <2>2, <2>4 DEF TypeOK
<1>7. CASE ServeClose
  <2>1. Waiting("close") /\ Answer("ok") /\ sess = "open" /\ xact
    BY <1>7 DEF ServeClose, Serving
  <2>2. xact' = FALSE /\ sess' = sess /\ aborted' = aborted /\ written' = {}
        /\ saved' = IF call = "cud" /\ ~aborted THEN written ELSE saved
    BY <1>7 DEF ServeClose
  <2>3. /\ Answered("cud", "err")' = Answered("cud", "err")
        /\ Answered("close", "ok")' = Answered("close", "ok") \cup {Len(ans) + 1}
        /\ Len(ans) \in Nat /\ Len(ans) >= 1 /\ Len(ans') = Len(ans) + 1
    BY <2>1, <1>d
  <2>4. saved' = work
    <3>1. CASE call = "cud"  BY <3>1, <2>1, <2>2, AllWritten
    <3>2. CASE call # "cud"
      <4>1. call = "read"  BY <3>2 DEF TypeOK
      <4>2. work = {}  BY <4>1 DEF WriteInv
      <4>3. saved = {}  BY <4>2, ServerInvMeans
      <4> QED  BY <4>2, <4>3, <3>2, <2>2
    <3> QED  BY <3>1, <3>2
  <2>5. ServerInv'
    BY <1>a, <2>1, <2>2, <2>3, <2>4, ServerInvMeans, ServerInvNext
  <2>6. saved' \in SUBSET Objects  BY <2>4 DEF TypeOK
  <2> QED  BY <1>b, <1>c, <2>1, <2>2, <2>5, <2>6 DEF TypeOK
<1>8. CASE Refuse
  <2>1. PICK op \in Refusals : Serving(op)  BY <1>8 DEF Refuse
  <2>2. op \in {"begin", "cud", "read", "close"} /\ Waiting(op) /\ sess = "open"
    BY <2>1, PcrudAssumption DEF Serving
  <2>3. Answer("err") /\ xact' = xact /\ sess' = sess /\ written' = written
        /\ saved' = saved
        /\ aborted' \in IF Serving("cud") THEN {aborted, TRUE} ELSE {aborted}
    BY <1>8 DEF Refuse
  <2>4. /\ Answered(op, "err")' = Answered(op, "err") \cup {Len(ans) + 1}
        /\ Answered("cud", "ok")' = Answered("cud", "ok")
        /\ Answered("close", "ok")' = Answered("close", "ok")
        /\ op # "cud" => Answered("cud", "err")' = Answered("cud", "err")
        /\ Len(ans) \in Nat /\ Len(ans) >= 1 /\ Len(ans') = Len(ans) + 1
    BY <2>2, <2>3, <1>d
  <2>5. aborted' \in BOOLEAN  BY <2>3 DEF TypeOK
  <2>6. aborted' => Answered("cud", "err")' # {}
    <3>1. CASE op = "cud"  BY <3>1, <2>4
    <3>2. CASE op # "cud"
      <4>1. ~Serving("cud")  BY <3>2, <2>2 DEF Serving, Waiting
      <4> QED  BY <4>1, <3>2, <2>3, <2>4, ServerInvMeans
    <3> QED  BY <3>1, <3>2
  <2>7. ServerInv'
    BY <1>a, <2>2, <2>3, <2>4, <2>6, ServerInvMeans, ServerInvNext
  <2> QED  BY <1>b, <1>c, <2>2, <2>3, <2>5, <2>7 DEF TypeOK
<1>9. CASE ServeError
  <2>1. PICK op \in {"begin", "cud", "read", "close", "auto"} : Waiting(op)
    BY <1>9 DEF ServeError, Serving
  <2>2. Answer("err") /\ xact' = xact /\ sess' = sess /\ written' = written
        /\ saved' = saved /\ aborted' = aborted
    BY <1>9 DEF ServeError
  <2>3. /\ Answered(op, "err")' = Answered(op, "err") \cup {Len(ans) + 1}
        /\ Answered("cud", "ok")' = Answered("cud", "ok")
        /\ Answered("close", "ok")' = Answered("close", "ok")
        /\ op # "cud" => Answered("cud", "err")' = Answered("cud", "err")
        /\ Len(ans) \in Nat /\ Len(ans) >= 1 /\ Len(ans') = Len(ans) + 1
    BY <2>1, <2>2, <1>d
  <2>4. aborted' => Answered("cud", "err")' # {}
    BY <2>2, <2>3, ServerInvMeans
  <2>5. ServerInv'
    BY <1>a, <2>2, <2>3, <2>4, ServerInvMeans, ServerInvNext
  <2> QED  BY <1>b, <1>c, <2>1, <2>2, <2>5 DEF TypeOK
<1>10. CASE ServeDisconnect
  <2>1. Waiting("disconnect") /\ Answer("ok")  BY <1>10 DEF ServeDisconnect
  <2>2. sess' = "gone" /\ xact' = FALSE /\ written' = {}
        /\ aborted' = aborted /\ saved' = saved
    BY <1>10 DEF ServeDisconnect, EndSession
  <2>3. /\ Answered("cud", "err")' = Answered("cud", "err")
        /\ Answered("close", "ok")' = Answered("close", "ok")
        /\ Len(ans) \in Nat /\ Len(ans') = Len(ans) + 1
    BY <2>1, <1>d
  <2>4. ServerInv'
    BY <1>a, <2>2, <2>3, ServerInvMeans, ServerInvNext
  <2> QED  BY <1>b, <1>c, <2>1, <2>2, <2>4 DEF TypeOK
<1>11. CASE TimeOut
  <2>1. sess = "open" /\ sess' = "gone" /\ xact' = FALSE /\ written' = {}
        /\ aborted' = aborted /\ saved' = saved /\ ans' = ans
    BY <1>11 DEF TimeOut, EndSession
  <2>2. ClientInv'  BY <1>1, <2>1, ServerKeepsClient
  <2>3. \A o, b : Answered(o, b)' = Answered(o, b)
    BY <1>a, <2>1 DEF Answered, Sent
  <2>4. ServerInv'
    BY <1>a, <1>e, <2>1, <2>3, ServerInvMeans, ServerInvNext
  <2>5. TypeOK'  BY <1>1, <2>1 DEF TypeOK, clientVars
  <2> QED  BY <2>2, <2>4, <2>5 DEF ClientInv
<1>12. CASE ServeElsewhere
  <2>1. PICK op \in {"begin", "read"} : Waiting(op)  BY <1>12 DEF ServeElsewhere
  <2>2. Answer("ok") /\ xact' = xact /\ sess' = sess /\ written' = written
        /\ saved' = saved /\ aborted' = aborted
    BY <1>12 DEF ServeElsewhere
  <2>3. /\ Answered("cud", "ok")' = Answered("cud", "ok")
        /\ Answered("cud", "err")' = Answered("cud", "err")
        /\ Answered("close", "ok")' = Answered("close", "ok")
        /\ Len(ans) \in Nat /\ Len(ans) >= 1 /\ Len(ans') = Len(ans) + 1
    BY <2>1, <2>2, <1>d
  <2>4. ServerInv'  BY <1>a, <2>2, <2>3, ServerInvMeans, ServerInvNext
  <2> QED  BY <1>b, <1>c, <2>1, <2>2, <2>4 DEF TypeOK
<1> QED
  BY <1>3, <1>4, <1>5, <1>6, <1>7, <1>8, <1>9, <1>10, <1>11, <1>12 DEF Serve

-----------------------------------------------------------------------------
(* The client's steps.                                                     *)

\* What is sent changes nothing for the server.
LEMMA ClientKeepsServer ==
    ASSUME TypeOK, ServerInv, NEW t \in Seq(ReqType), Send(t),
           UNCHANGED <<call, work, serverVars>>
    PROVE  ServerInv'
<1>1. \A k \in 1..Len(reqs) : reqs'[k] = reqs[k]
  BY Sending DEF TypeOK
<1>2. reqs \in Seq(ReqType) /\ reqs' \in Seq(ReqType) /\ Len(reqs') >= Len(reqs)
  BY Sending DEF TypeOK
<1>3. \A o, k : k <= Len(ans) => (k \in Sent(o)' <=> k \in Sent(o))
  BY <1>1, <1>2 DEF Sent, TypeOK
<1>4. ans' = ans /\ Len(ans) \in Nat /\ Len(ans) <= Len(reqs)
  BY DEF serverVars, TypeOK
<1>5. \A o, b : Answered(o, b)' = Answered(o, b)
  BY <1>3, <1>4 DEF Answered
<1>6. \A k \in Answered("cud", "ok") : reqs'[k] = reqs[k]
  BY <1>1, <1>2, <1>4 DEF Answered, Sent
<1> QED  BY <1>4, <1>5, <1>6, ServerInvMeans, ServerInvNext DEF serverVars

\* The log after one request was sent.
LEMMA SendOne ==
    ASSUME reqs \in Seq(ReqType), NEW r \in ReqType, Send(<<r>>)
    PROVE  /\ reqs' \in Seq(ReqType) /\ Len(reqs') = Len(reqs) + 1
           /\ \A k \in 1..Len(reqs) : reqs'[k] = reqs[k]
           /\ reqs'[Len(reqs) + 1] = r
           /\ \A o : Sent(o)' = IF o = r.op THEN Sent(o) \cup {Len(reqs) + 1}
                                ELSE Sent(o)
<1>1. reqs' = Append(reqs, r)  BY DEF Send
<1>2. /\ reqs' \in Seq(ReqType) /\ Len(reqs') = Len(reqs) + 1
      /\ \A k \in 1..Len(reqs) : reqs'[k] = reqs[k]
      /\ reqs'[Len(reqs) + 1] = r
  BY <1>1
<1>3. \A o, k : k \in Sent(o)' <=>
                  k \in Sent(o) \/ (k = Len(reqs) + 1 /\ r.op = o)
  BY <1>2 DEF Sent
<1>4. ASSUME NEW o
      PROVE  Sent(o)' = IF o = r.op THEN Sent(o) \cup {Len(reqs) + 1}
                        ELSE Sent(o)
  <2>1. \A k : k \in Sent(o)' <=> k \in Sent(o) \/ (k = Len(reqs) + 1 /\ r.op = o)
    BY <1>3
  <2> QED  BY <2>1
<1> QED  BY <1>2, <1>4

\* The log after a request and its noise.
LEMMA SendFirst ==
    ASSUME reqs \in Seq(ReqType), NEW r \in ReqType, NEW n \in Nat,
           Send(<<r>> \o Autos(n))
    PROVE  /\ reqs' \in Seq(ReqType) /\ Len(reqs') > Len(reqs)
           /\ \A k \in 1..Len(reqs) : reqs'[k] = reqs[k]
           /\ reqs'[Len(reqs) + 1] = r
           /\ \A o : o # "auto" =>
                Sent(o)' = IF o = r.op THEN Sent(o) \cup {Len(reqs) + 1}
                           ELSE Sent(o)
<1> DEFINE t == <<r>> \o Autos(n)
<1>1. t \in Seq(ReqType) /\ Len(t) >= 1 /\ t[1] = r
      /\ \A k \in 2..Len(t) : t[k].op = "auto"
  BY ThenAutos
<1> HIDE DEF t
<1>2. Send(t)  BY DEF t
<1>3. /\ reqs' \in Seq(ReqType) /\ Len(reqs') = Len(reqs) + Len(t)
      /\ \A k \in 1..Len(reqs) : reqs'[k] = reqs[k]
      /\ \A k \in 1..Len(reqs') : k > Len(reqs) => reqs'[k] = t[k - Len(reqs)]
  BY <1>1, <1>2, Sending
<1>4. Len(reqs) \in Nat /\ Len(t) \in Nat /\ DOMAIN reqs = 1..Len(reqs)
      /\ DOMAIN reqs' = 1..Len(reqs')
  BY <1>1, <1>3
<1>5. reqs'[Len(reqs) + 1] = r  BY <1>1, <1>3, <1>4
<1>6. \A k \in 1..Len(reqs') : k > Len(reqs) + 1 => reqs'[k].op = "auto"
  <2> TAKE k \in 1..Len(reqs')
  <2> HAVE k > Len(reqs) + 1
  <2>1. k > Len(reqs) /\ k - Len(reqs) \in 2..Len(t)  BY <1>3, <1>4
  <2>2. reqs'[k] = t[k - Len(reqs)]  BY <1>3, <2>1
  <2> QED  BY <1>1, <2>1, <2>2
<1>7. ASSUME NEW o, o # "auto", NEW k
      PROVE  k \in Sent(o)' <=> k \in Sent(o) \/ (k = Len(reqs) + 1 /\ r.op = o)
  BY <1>1, <1>3, <1>4, <1>5, <1>6, <1>7 DEF Sent
<1>8. ASSUME NEW o, o # "auto"
      PROVE  Sent(o)' = IF o = r.op THEN Sent(o) \cup {Len(reqs) + 1}
                        ELSE Sent(o)
  <2>1. \A k : k \in Sent(o)' <=> k \in Sent(o) \/ (k = Len(reqs) + 1 /\ r.op = o)
    BY <1>7, <1>8
  <2> QED  BY <2>1
<1> QED  BY <1>1, <1>3, <1>4, <1>5, <1>8

\* The log after noise only.
LEMMA SendNoise ==
    ASSUME reqs \in Seq(ReqType), NEW n \in Nat, Send(Autos(n))
    PROVE  /\ reqs' \in Seq(ReqType) /\ Len(reqs') >= Len(reqs)
           /\ \A k \in 1..Len(reqs) : reqs'[k] = reqs[k]
           /\ \A o : o # "auto" => Sent(o)' = Sent(o)
<1>1. Autos(n) \in Seq(ReqType)
      /\ \A k \in 1..Len(Autos(n)) : Autos(n)[k].op = "auto"
  BY AutosAreAuto DEF Req
<1>2. /\ reqs' \in Seq(ReqType) /\ Len(reqs') = Len(reqs) + Len(Autos(n))
      /\ \A k \in 1..Len(reqs) : reqs'[k] = reqs[k]
      /\ \A k \in 1..Len(reqs') : k > Len(reqs) =>
            reqs'[k] = Autos(n)[k - Len(reqs)]
  BY <1>1, Sending
<1>3. Len(reqs) \in Nat /\ Len(Autos(n)) \in Nat  BY <1>1
<1>4. \A k \in 1..Len(reqs') : k > Len(reqs) => reqs'[k].op = "auto"
  <2> TAKE k \in 1..Len(reqs')
  <2> HAVE k > Len(reqs)
  <2>1. k - Len(reqs) \in 1..Len(Autos(n))  BY <1>2, <1>3
  <2>2. reqs'[k] = Autos(n)[k - Len(reqs)]  BY <1>2
  <2> QED  BY <1>1, <2>1, <2>2
<1>5. ASSUME NEW o, o # "auto", NEW k PROVE k \in Sent(o)' <=> k \in Sent(o)
  BY <1>2, <1>3, <1>4, <1>5 DEF Sent
<1>6. ASSUME NEW o, o # "auto" PROVE Sent(o)' = Sent(o)
  <2>1. \A k : k \in Sent(o)' <=> k \in Sent(o)  BY <1>5, <1>6
  <2> QED  BY <2>1
<1> QED  BY <1>2, <1>3, <1>6

\* What every step of the client has in common.
LEMMA HearKeeps ==
    ASSUME IInv, NEW op, NEW a, Hear(op, a), NEW t \in Seq(ReqType), Send(t),
           idx' \in 1..(N + 1), body' \in {"open", "complete", "failed"},
           told' \in {"none", "ok", "failed"}
    PROVE  /\ TypeOK' /\ ServerInv'
           /\ heard \in Nat /\ heard' = heard + 1
           /\ heard' <= Len(ans) /\ Len(ans) <= Len(reqs)
           /\ ans' = ans /\ call' = call /\ work' = work /\ saved' = saved
           /\ heard + 1 \in Sent(op) /\ ans[heard + 1] = a
           /\ \A o : Sent(o) \subseteq 1..Len(reqs)
           /\ \A o : o # op => heard + 1 \notin Sent(o)
<1> USE DEF IInv
<1>1. /\ heard < Len(ans) /\ reqs[heard + 1].op = op /\ ans[heard + 1] = a
      /\ heard' = heard + 1 /\ call' = call /\ work' = work
      /\ client' = client /\ UNCHANGED serverVars
  BY DEF Hear
<1>2. ServerInv'  BY <1>1, ClientKeepsServer
<1>3. reqs' \in Seq(ReqType) /\ Len(reqs') >= Len(reqs)
  BY Sending DEF TypeOK
<1>4. ans' = ans /\ heard \in Nat /\ Len(ans) \in Nat /\ Len(ans) <= Len(reqs)
      /\ Len(reqs) \in Nat
  BY <1>1 DEF TypeOK, serverVars
<1>5. TypeOK'  BY <1>1, <1>3, <1>4 DEF TypeOK, serverVars
<1>6. heard + 1 \in 1..Len(reqs) /\ heard' <= Len(ans)  BY <1>1, <1>4
<1>7. \A o : Sent(o) \subseteq 1..Len(reqs)  BY DEF Sent, TypeOK
<1>8. heard + 1 \in Sent(op) /\ \A o : o # op => heard + 1 \notin Sent(o)
  BY <1>1, <1>6 DEF Sent, TypeOK
<1> QED  BY <1>1, <1>2, <1>4, <1>5, <1>6, <1>7, <1>8 DEF serverVars

LEMMA RequestsAreTyped ==
    ASSUME NEW i \in Objects \cup {0},
           NEW o \in {"connect", "begin", "cud", "auto", "read", "close",
                      "disconnect"}
    PROVE  Req(o, i) \in ReqType /\ Req(o, i).op = o /\ Req(o, i).obj = i
           /\ <<Req(o, i)>> \in Seq(ReqType)
BY DEF Req, ReqType

\* Nothing is sent after the connect and the begin while they are unanswered.
LEMMA ConnectedKeeps == ASSUME IInv, Connected PROVE IInv'
<1> USE DEF IInv
<1> DEFINE r == Req("begin", 0)
<1>1. Hear("connect", "ok") /\ Send(<<r>>) /\ UNCHANGED <<idx, body, told>>
  BY DEF Connected
<1>2. r \in ReqType /\ r.op = "begin" /\ <<r>> \in Seq(ReqType)
  BY RequestsAreTyped
<1> HIDE DEF r
<1>3. /\ TypeOK' /\ ServerInv'
      /\ heard \in Nat /\ heard' = heard + 1 /\ Len(ans) <= Len(reqs)
      /\ ans' = ans /\ call' = call /\ work' = work
      /\ heard + 1 \in Sent("connect")
      /\ \A o : Sent(o) \subseteq 1..Len(reqs)
  BY ZenonT(30), <1>1, <1>2, HearKeeps DEF TypeOK
<1>4. heard = 0  BY <1>3 DEF OpeningInv
<1>5. Len(reqs) = 1  BY <1>4 DEF OpeningInv
<1>6. /\ Len(reqs') = 2 /\ reqs'[1] = reqs[1]
      /\ \A o : Sent(o)' = IF o = "begin" THEN Sent(o) \cup {2} ELSE Sent(o)
  BY <1>1, <1>2, <1>5, SendOne DEF TypeOK
<1>7. \A o : o # "connect" => Sent(o) = {}
  <2> TAKE o
  <2> HAVE o # "connect"
  <2>1. 1 \in Sent("connect")  BY DEF OpeningInv
  <2>2. 1 \notin Sent(o)  BY <2>1 DEF Sent
  <2>3. Sent(o) \subseteq 1..1  BY <1>3, <1>5
  <2> QED  BY <2>2, <2>3
<1>8. /\ Sent("cud")' = {} /\ Sent("read")' = {} /\ Sent("close")' = {}
      /\ Sent("auto")' = {} /\ Sent("begin")' = {2}
      /\ Sent("connect")' = Sent("connect")
  BY <1>6, <1>7
<1>9. OpeningInv'  BY <1>3, <1>4, <1>6, <1>8 DEF OpeningInv
<1>10. WriteInv'  BY <1>1, <1>3, <1>7, <1>8 DEF WriteInv
<1>11. ReadInv'
  <2>1. heard < 3 /\ heard' < 3  BY <1>3, <1>4
  <2> QED  BY <1>1, <1>3, <1>8, <2>1 DEF ReadInv
<1>12. BodyInv'  BY <1>1, <1>3, <1>8 DEF BodyInv
<1>13. CloseInv'  BY <1>1, <1>3, <1>7, <1>8 DEF CloseInv
<1> QED  BY <1>3, <1>9, <1>10, <1>11, <1>12, <1>13

\* The steps that send nothing.
LEMMA Silent ==
    ASSUME reqs \in Seq(ReqType), UNCHANGED reqs
    PROVE  /\ <<>> \in Seq(ReqType) /\ Send(<<>>)
           /\ \A o : Sent(o)' = Sent(o)
<1>1. <<>> \in Seq(ReqType) /\ reqs \o <<>> = reqs  OBVIOUS
<1> QED  BY <1>1 DEF Send, Sent

LEMMA NotBegunKeeps == ASSUME IInv, NotBegun PROVE IInv'
<1> USE DEF IInv
<1>1. Hear("begin", "err") /\ UNCHANGED <<reqs, idx, body, told>>
  BY DEF NotBegun
<1>2. <<>> \in Seq(ReqType) /\ Send(<<>>) /\ \A o : Sent(o)' = Sent(o)
  BY <1>1, Silent DEF TypeOK
<1>3. /\ TypeOK' /\ ServerInv' /\ heard \in Nat /\ heard' = heard + 1
      /\ heard' <= Len(ans)
      /\ ans' = ans /\ call' = call /\ work' = work
      /\ heard + 1 \in Sent("begin")
      /\ \A o : Sent(o) \subseteq 1..Len(reqs)
      /\ \A o : o # "begin" => heard + 1 \notin Sent(o)
  BY ZenonT(30), <1>1, <1>2, HearKeeps DEF TypeOK
<1>4. heard = 1  BY <1>3 DEF OpeningInv
<1>5. \A o, k : k \in Sent(o) /\ o # "begin" /\ k <= heard' => k <= heard
  BY <1>3
<1>6. OpeningInv'  BY <1>1, <1>2, <1>3, <1>4 DEF OpeningInv
<1>7. WriteInv'  BY <1>1, <1>2, <1>3 DEF WriteInv
<1>8. ReadInv'  BY <1>1, <1>2, <1>3, <1>4 DEF ReadInv
<1>9. BodyInv'  BY <1>1, <1>2, <1>3, <1>5 DEF BodyInv
<1>10. CloseInv'  BY <1>1, <1>2, <1>3 DEF CloseInv
<1> QED  BY <1>3, <1>6, <1>7, <1>8, <1>9, <1>10

\* An error that arrives fails the main body if it is still open.
LEMMA BodyFailsKeeps == ASSUME IInv, BodyFails PROVE IInv'
<1> USE DEF IInv
<1>1. PICK op \in {"cud", "auto", "read"} : Hear(op, "err")
  BY DEF BodyFails
<1>2. /\ UNCHANGED <<reqs, idx>>
      /\ \/ body = "open" /\ body' = "failed" /\ told' = "failed"
         \/ body # "open" /\ UNCHANGED <<body, told>>
  BY DEF BodyFails, Fail
<1>3. <<>> \in Seq(ReqType) /\ Send(<<>>) /\ \A o : Sent(o)' = Sent(o)
  BY <1>2, Silent DEF TypeOK
<1>4. /\ TypeOK' /\ ServerInv' /\ heard \in Nat /\ heard' = heard + 1
      /\ heard' <= Len(ans) /\ Len(ans) <= Len(reqs)
      /\ ans' = ans /\ call' = call /\ work' = work
      /\ heard + 1 \in Sent(op) /\ ans[heard + 1] = "err"
      /\ \A o : Sent(o) \subseteq 1..Len(reqs)
      /\ \A o : o # op => heard + 1 \notin Sent(o)
  BY <1>1, <1>2, <1>3, HearKeeps DEF TypeOK
<1>5. heard >= 1
  <2>1. 1 \notin Sent(op)  BY <1>1 DEF OpeningInv, Sent
  <2> QED  BY <2>1, <1>4
<1>6. OpeningInv'
  <2>1. heard' < 2 => FALSE  BY <1>4, <1>5
  <2> QED  BY <1>2, <1>3, <2>1 DEF OpeningInv
<1>7. WriteInv'  BY <1>2, <1>3, <1>4 DEF WriteInv
<1>8. ReadInv'
  <2>1. call = "read" => heard' >= 3
    <3> HAVE call = "read"
    <3>1. op # "auto"  BY <1>4 DEF ReadInv
    <3>2. op # "cud"  BY <1>4 DEF WriteInv
    <3>3. heard + 1 \in {3}  BY <1>1, <1>4, <3>1, <3>2 DEF ReadInv
    <3> QED  BY <3>3, <1>4
  <2> QED  BY <1>3, <1>4, <2>1 DEF ReadInv
<1>9. BodyInv'  BY <1>2, <1>3, <1>4 DEF BodyInv
<1>10. CloseInv'  BY <1>2, <1>3, <1>4 DEF CloseInv, BodyInv
<1> QED  BY <1>4, <1>6, <1>7, <1>8, <1>9, <1>10

\* The one close that there is has been answered.
LEMMA ClosedOnce ==
    ASSUME IInv, NEW a, Hear("close", a)
    PROVE  /\ body = "complete" /\ told = "none"
           /\ heard + 1 \in Sent("close") /\ heard \in Nat
           /\ heard + 1 <= Len(ans) /\ ans[heard + 1] = a
           /\ heard >= 1
<1> USE DEF IInv
<1>1. /\ heard \in Nat /\ heard + 1 <= Len(ans) /\ ans[heard + 1] = a
      /\ heard + 1 \in Sent("close")
  BY DEF Hear, TypeOK, Sent
<1>2. body = "complete"  BY <1>1 DEF CloseInv
<1>3. \A k \in Sent("close") : k = heard + 1  BY <1>1 DEF CloseInv
<1>4. told # "ok" /\ told # "failed"  BY <1>1, <1>2, <1>3 DEF CloseInv
<1>5. heard >= 1
  <2>1. heard + 1 \notin Sent("connect")  BY <1>1 DEF Sent
  <2> QED  BY <2>1, <1>1 DEF OpeningInv
<1> QED  BY <1>1, <1>2, <1>4, <1>5 DEF TypeOK

LEMMA ClosedKeeps == ASSUME IInv, Closed PROVE IInv'
<1> USE DEF IInv
<1> DEFINE r == Req("disconnect", 0)
<1>1. Hear("close", "ok") /\ Send(<<r>>) /\ told' = "ok" /\ UNCHANGED <<idx, body>>
  BY DEF Closed
<1>2. r \in ReqType /\ r.op = "disconnect" /\ <<r>> \in Seq(ReqType)
  BY RequestsAreTyped
<1> HIDE DEF r
<1>3. /\ TypeOK' /\ ServerInv' /\ heard \in Nat /\ heard' = heard + 1
      /\ heard' <= Len(ans) /\ Len(ans) <= Len(reqs)
      /\ ans' = ans /\ call' = call /\ work' = work
      /\ \A o : Sent(o) \subseteq 1..Len(reqs)
  BY <1>1, <1>2, HearKeeps DEF TypeOK
<1>4. /\ Len(reqs') = Len(reqs) + 1 /\ \A k \in 1..Len(reqs) : reqs'[k] = reqs[k]
      /\ \A o : o # "disconnect" => Sent(o)' = Sent(o)
  BY <1>1, <1>2, SendOne DEF TypeOK
<1>5. /\ body = "complete" /\ told = "none" /\ heard + 1 \in Sent("close")
      /\ ans[heard + 1] = "ok" /\ heard >= 1
  BY <1>1, ClosedOnce
<1>6. OpeningInv'
  <2>1. heard' < 2 => FALSE  BY <1>3, <1>5
  <2>2. Len(reqs) \in Nat /\ Len(reqs') >= 1  BY <1>4 DEF TypeOK
  <2>3. Sent("connect")' = Sent("connect") /\ Sent("begin")' = Sent("begin")
    BY <1>4
  <2> QED  BY <2>1, <2>2, <2>3 DEF OpeningInv
<1>7. WriteInv'
  <2>1. \A k \in Sent("cud") : reqs'[k] = reqs[k]  BY <1>3, <1>4
  <2> QED  BY SMTT(30), <1>1, <1>3, <1>4, <2>1 DEF WriteInv
<1>8. ReadInv'  BY <1>1, <1>3, <1>4 DEF ReadInv
<1>9. BodyInv'  BY <1>1, <1>3, <1>4, <1>5 DEF BodyInv
<1>10. CloseInv'  BY <1>1, <1>3, <1>4, <1>5 DEF CloseInv
<1> QED  BY <1>3, <1>6, <1>7, <1>8, <1>9, <1>10

LEMMA NotClosedKeeps == ASSUME IInv, NotClosed PROVE IInv'
<1> USE DEF IInv
<1>1. Hear("close", "err") /\ UNCHANGED <<reqs, idx, body>>
      /\ told' = IF client = "eg2" THEN "failed" ELSE told
  BY DEF NotClosed
<1>2. <<>> \in Seq(ReqType) /\ Send(<<>>) /\ \A o : Sent(o)' = Sent(o)
  BY <1>1, Silent DEF TypeOK
<1>3. /\ TypeOK' /\ ServerInv' /\ heard \in Nat /\ heard' = heard + 1
      /\ heard' <= Len(ans) /\ Len(ans) <= Len(reqs)
      /\ ans' = ans /\ call' = call /\ work' = work
      /\ \A o : Sent(o) \subseteq 1..Len(reqs)
  BY <1>1, <1>2, HearKeeps DEF TypeOK
<1>4. /\ body = "complete" /\ told = "none" /\ heard + 1 \in Sent("close")
      /\ ans[heard + 1] = "err" /\ heard >= 1
  BY <1>1, ClosedOnce
<1>5. OpeningInv'
  <2>1. heard' < 2 => FALSE  BY <1>3, <1>4
  <2> QED  BY <1>1, <1>2, <2>1 DEF OpeningInv
<1>6. WriteInv'  BY <1>1, <1>2, <1>3 DEF WriteInv
<1>7. ReadInv'  BY <1>1, <1>2, <1>3 DEF ReadInv
<1>8. BodyInv'  BY <1>1, <1>2, <1>3, <1>4 DEF BodyInv
<1>9. CloseInv'  BY <1>1, <1>2, <1>3, <1>4 DEF CloseInv
<1> QED  BY <1>3, <1>5, <1>6, <1>7, <1>8, <1>9

\* The read was the third request and its answer completes the main body.
LEMMA HaveReadKeeps == ASSUME IInv, HaveRead PROVE IInv'
<1> USE DEF IInv
<1> DEFINE r == Req("close", 0)
<1>1. Hear("read", "ok") /\ Send(<<r>>) /\ body' = "complete"
      /\ UNCHANGED <<idx, told>>
  BY DEF HaveRead
<1>2. r \in ReqType /\ r.op = "close" /\ <<r>> \in Seq(ReqType)
  BY RequestsAreTyped
<1> HIDE DEF r
<1>3. /\ TypeOK' /\ ServerInv' /\ heard \in Nat /\ heard' = heard + 1
      /\ heard' <= Len(ans) /\ Len(ans) <= Len(reqs)
      /\ ans' = ans /\ call' = call /\ work' = work
      /\ heard + 1 \in Sent("read")
      /\ \A o : Sent(o) \subseteq 1..Len(reqs)
  BY <1>1, <1>2, HearKeeps DEF TypeOK
<1>4. /\ Len(reqs') = Len(reqs) + 1
      /\ Sent("close")' = Sent("close") \cup {Len(reqs) + 1}
      /\ \A o : o # "close" => Sent(o)' = Sent(o)
  BY <1>1, <1>2, SendOne DEF TypeOK
<1>5. heard + 1 = 3 /\ call = "read"
  <2>1. heard + 1 \in {3}  BY <1>3 DEF ReadInv
  <2> QED  BY <2>1, <1>3 DEF ReadInv
<1>6. heard = 2  BY <1>3, <1>5
<1>7. body = "open"  BY <1>5, <1>6 DEF ReadInv
<1>8. told = "none" /\ Sent("close") = {}  BY <1>7 DEF BodyInv, CloseInv
<1>9. work = {} /\ Sent("cud") = {}  BY <1>5 DEF WriteInv
<1>10. OpeningInv'
  <2>1. Len(reqs) \in Nat /\ Len(reqs') >= 1 /\ ~(heard' < 2)
    BY <1>3, <1>4, <1>6 DEF TypeOK
  <2>2. Sent("connect")' = Sent("connect") /\ Sent("begin")' = Sent("begin")
    BY <1>4
  <2> QED  BY <2>1, <2>2 DEF OpeningInv
<1>11. WriteInv'  BY <1>3, <1>4, <1>9 DEF WriteInv
<1>12. ReadInv'
  <2>1. Sent("read")' = Sent("read") /\ Sent("auto")' = Sent("auto")
        /\ ~(heard' < 3)
    BY <1>3, <1>4, <1>5
  <2> QED  BY <2>1, <1>3 DEF ReadInv
<1>13. BodyInv'  BY <1>1, <1>3, <1>4, <1>5, <1>8, <1>9 DEF BodyInv
<1>14. CloseInv'  BY <1>1, <1>3, <1>4, <1>8 DEF CloseInv
<1> QED  BY <1>3, <1>10, <1>11, <1>12, <1>13, <1>14

\* The read is sent when the transaction has begun.
LEMMA BegunReadKeeps ==
    ASSUME IInv, Hear("begin", "ok"), call = "read",
           Send(<<Req("read", 0)>>), UNCHANGED <<idx, body, told>>
    PROVE  IInv'
<1> USE DEF IInv
<1> DEFINE r == Req("read", 0)
<1>1. Send(<<r>>)  OBVIOUS
<1>2. r \in ReqType /\ r.op = "read" /\ <<r>> \in Seq(ReqType)
  BY RequestsAreTyped
<1> HIDE DEF r
<1>3. /\ TypeOK' /\ ServerInv' /\ heard \in Nat /\ heard' = heard + 1
      /\ heard' <= Len(ans) /\ Len(ans) <= Len(reqs)
      /\ ans' = ans /\ call' = call /\ work' = work
      /\ heard + 1 \in Sent("begin")
      /\ \A o : Sent(o) \subseteq 1..Len(reqs)
  BY ZenonT(30), <1>1, <1>2, HearKeeps DEF TypeOK
<1>4. heard = 1
  <2>1. heard + 1 \in {2}  BY <1>3 DEF OpeningInv
  <2> QED  BY <2>1, <1>3
<1>5. Len(reqs) = 2  BY <1>4 DEF OpeningInv
<1>6. /\ Len(reqs') = 3 /\ Sent("read")' = Sent("read") \cup {3}
      /\ \A o : o # "read" => Sent(o)' = Sent(o)
  BY <1>1, <1>2, <1>5, SendOne DEF TypeOK
<1>7. OpeningInv'
  <2>1. Sent("connect")' = Sent("connect") /\ Sent("begin")' = Sent("begin")
    BY <1>6
  <2> QED  BY <1>3, <1>4, <1>6, <2>1 DEF OpeningInv
<1>8. work = {} /\ Sent("cud") = {} /\ Sent("cud")' = {}
  BY <1>6 DEF WriteInv
<1>9. body = "open"  BY <1>4 DEF ReadInv
<1>10. WriteInv'  BY <1>3, <1>8 DEF WriteInv
<1>11. ReadInv'
  <2>1. Sent("auto")' = Sent("auto")  BY <1>6
  <2> QED  BY <1>3, <1>6, <1>9, <2>1 DEF ReadInv
<1>12. BodyInv'  BY <1>3, <1>8, <1>9 DEF BodyInv
<1>13. Sent("close") = {} /\ Sent("close")' = {}
  BY <1>6, <1>9 DEF CloseInv
<1>14. CloseInv'  BY <1>9, <1>13 DEF CloseInv, BodyInv
<1> QED  BY <1>3, <1>7, <1>10, <1>11, <1>12, <1>14

\* The next write is sent, or the main body ends: after a begin or a write
\* that succeeded, with no other write under way.
LEMMA AdvanceKeeps ==
    ASSUME IInv, NEW op \in {"begin", "cud"}, Hear(op, "ok"), call = "cud",
           \A k \in Sent("cud") : k <= heard + 1, Advance
    PROVE  IInv'
<1> USE DEF IInv
<1>1. PICK j \in idx..(N + 1) :
        /\ IsNext(j)
        /\ IF j <= N
           THEN /\ Send(<<Req("cud", j)>> \o Autos(j - idx))
                /\ idx' = j + 1 /\ UNCHANGED <<body, told>>
           ELSE /\ idx' = N + 1
                /\ IF body = "open"
                   THEN /\ body' = "complete"
                        /\ Send(<<Req("close", 0)>> \o Autos(j - idx))
                   ELSE Send(Autos(j - idx)) /\ UNCHANGED body
                /\ UNCHANGED told
  BY DEF Advance
<1>2. /\ N \in Nat /\ idx \in 1..(N + 1) /\ j \in Nat /\ j - idx \in Nat
      /\ work \subseteq 1..N /\ reqs \in Seq(ReqType) /\ told' = told
      /\ Len(reqs) \in Nat
  BY <1>1, PcrudAssumption DEF TypeOK, Objects
<1>3. /\ \A i \in work : i < j => i < idx
      /\ j <= N => j \in work
  BY <1>1, <1>2 DEF IsNext
<1>a. ASSUME NEW t \in Seq(ReqType), Send(t), idx' \in 1..(N + 1),
             body' \in {"open", "complete", "failed"}
      PROVE  /\ TypeOK' /\ ServerInv' /\ heard \in Nat /\ heard' = heard + 1
             /\ heard' <= Len(ans) /\ Len(ans) <= Len(reqs)
             /\ ans' = ans /\ call' = call /\ work' = work
             /\ heard + 1 \in Sent(op) /\ ans[heard + 1] = "ok"
             /\ \A o : Sent(o) \subseteq 1..Len(reqs)
  <2>1. told' \in {"none", "ok", "failed"}  BY <1>2 DEF TypeOK
  <2> QED  BY <1>a, <2>1, HearKeeps DEF TypeOK
<1>b. heard \in Nat /\ heard >= 1
  <2>1. heard \in Nat /\ reqs[heard + 1].op = op  BY DEF Hear, TypeOK
  <2>2. heard # 0
    <3>1. reqs[1].op = "connect"  BY DEF OpeningInv, Sent
    <3> QED  BY <2>1, <3>1
  <2> QED  BY <2>1, <2>2
<1>c. call = "cud" /\ call # "read"  OBVIOUS
<1>4. CASE j <= N
  <2> DEFINE r == Req("cud", j)
  <2>1. Send(<<r>> \o Autos(j - idx)) /\ idx' = j + 1 /\ body' = body
    BY <1>1, <1>4
  <2>2. j \in Objects  BY <1>2, <1>3, <1>4 DEF Objects
  <2>3. r \in ReqType /\ r.op = "cud" /\ r.obj = j  BY <2>2, RequestsAreTyped
  <2>4. <<r>> \o Autos(j - idx) \in Seq(ReqType)  BY <1>2, <2>3, ThenAutos
  <2> HIDE DEF r
  <2>5. idx' \in 1..(N + 1) /\ body' \in {"open", "complete", "failed"}
    BY <1>2, <1>4, <2>1 DEF TypeOK
  <2>6. /\ TypeOK' /\ ServerInv' /\ heard \in Nat /\ heard' = heard + 1
        /\ heard' <= Len(ans) /\ Len(ans) <= Len(reqs)
        /\ ans' = ans /\ call' = call /\ work' = work
        /\ heard + 1 \in Sent(op) /\ ans[heard + 1] = "ok"
        /\ \A o : Sent(o) \subseteq 1..Len(reqs)
    BY <1>a, <2>1, <2>4, <2>5
  <2>7. /\ reqs' \in Seq(ReqType) /\ Len(reqs') > Len(reqs)
        /\ \A k \in 1..Len(reqs) : reqs'[k] = reqs[k]
        /\ reqs'[Len(reqs) + 1] = r
        /\ Sent("cud")' = Sent("cud") \cup {Len(reqs) + 1}
        /\ \A o \in {"connect", "begin", "read", "close"} : Sent(o)' = Sent(o)
    BY <1>2, <2>1, <2>3, SendFirst
  <2>8. OpeningInv'
    <3>1. ~(heard' < 2) /\ Len(reqs') \in Nat /\ Len(reqs') >= 1
      BY <1>2, <1>b, <2>6, <2>7
    <3> QED  BY <3>1, <2>7 DEF OpeningInv
  <2>9. \A k \in Sent("cud") : k <= Len(reqs) /\ reqs'[k] = reqs[k]
    BY <1>2, <2>6, <2>7
  <2>10. Len(reqs) + 1 > heard'  BY <1>2, <2>6
  <2>11. WriteInv'
    <3>1. \A k \in Sent("cud")' : reqs'[k].obj \in work /\ reqs'[k].obj < j + 1
      <4>1. \A k \in Sent("cud") : reqs'[k].obj \in work /\ reqs'[k].obj < idx
        BY <2>9 DEF WriteInv
      <4>2. \A i \in work : i < idx => i < j + 1  BY <1>2
      <4>3. reqs'[Len(reqs) + 1].obj = j /\ j \in work /\ j < j + 1
        BY <1>2, <1>3, <1>4, <2>3, <2>7
      <4> QED  BY <4>1, <4>2, <4>3, <2>7
    <3>2. \A k \in Sent("cud") : reqs'[k].obj # j
      BY <1>1, <1>2, <2>9 DEF WriteInv
    <3>3. \A k, l \in Sent("cud")' : reqs'[k].obj = reqs'[l].obj => k = l
      BY <2>3, <2>7, <2>9, <3>2 DEF WriteInv
    <3>4. \A i \in work : i < j + 1 => \E k \in Sent("cud")' : reqs'[k].obj = i
      <4> TAKE i \in work
      <4> HAVE i < j + 1
      <4>1. CASE i = j  BY <4>1, <2>3, <2>7
      <4>2. CASE i # j
        <5>1. i < idx  BY <4>2, <1>2, <1>3
        <5>2. PICK k \in Sent("cud") : reqs[k].obj = i  BY <5>1 DEF WriteInv
        <5> QED  BY <5>2, <2>7, <2>9
      <4> QED  BY <4>1, <4>2
    <3>5. \A k, l \in Sent("cud")' : k > heard' /\ l > heard' => k = l
      <4>1. \A k \in Sent("cud") : ~(k > heard')  BY <1>2, <2>6, <2>9
      <4> QED  BY <4>1, <2>7
    <3> QED  BY <1>c, <2>1, <2>6, <3>1, <3>3, <3>4, <3>5 DEF WriteInv
  <2>12. ReadInv'  BY <1>c, <2>6, <2>7 DEF ReadInv
  <2>13. body # "complete"  BY <1>1, <1>2, <1>4 DEF BodyInv
  <2>14. BodyInv'
    <3>1. body = "open" => \A k \in Sent("cud")' : k <= heard' => ans[k] = "ok"
      <4>1. \A k \in Sent("cud")' : k <= heard' => k \in Sent("cud")
        BY <1>2, <2>6, <2>7, <2>10
      <4>2. \A k \in Sent("cud") : k <= heard' => k <= heard \/ k = heard + 1
        BY <2>6
      <4> QED  BY <4>1, <4>2, <2>6 DEF BodyInv
    <3> QED  BY <1>2, <2>1, <2>6, <2>13, <3>1 DEF BodyInv
  <2>15. CloseInv'
    <3>1. \A k \in Sent("close") : k <= heard => k <= heard'  BY <2>6
    <3> QED  BY <1>2, <2>1, <2>6, <2>7, <3>1 DEF CloseInv
  <2> QED  BY <2>6, <2>8, <2>11, <2>12, <2>14, <2>15
<1>5. CASE j = N + 1 /\ body = "open"
  <2> DEFINE r == Req("close", 0)
  <2>1. Send(<<r>> \o Autos(j - idx)) /\ idx' = N + 1 /\ body' = "complete"
    BY <1>1, <1>2, <1>5
  <2>2. r \in ReqType /\ r.op = "close"  BY RequestsAreTyped
  <2>3. <<r>> \o Autos(j - idx) \in Seq(ReqType)  BY <1>2, <2>2, ThenAutos
  <2> HIDE DEF r
  <2>4. idx' \in 1..(N + 1) /\ body' \in {"open", "complete", "failed"}
    BY <1>2, <2>1
  <2>5. /\ TypeOK' /\ ServerInv' /\ heard \in Nat /\ heard' = heard + 1
        /\ heard' <= Len(ans) /\ Len(ans) <= Len(reqs)
        /\ ans' = ans /\ call' = call /\ work' = work
        /\ heard + 1 \in Sent(op) /\ ans[heard + 1] = "ok"
        /\ \A o : Sent(o) \subseteq 1..Len(reqs)
    BY <1>a, <2>1, <2>3, <2>4
  <2>6. /\ reqs' \in Seq(ReqType) /\ Len(reqs') > Len(reqs)
        /\ \A k \in 1..Len(reqs) : reqs'[k] = reqs[k]
        /\ Sent("close")' = Sent("close") \cup {Len(reqs) + 1}
        /\ \A o \in {"connect", "begin", "read", "cud"} : Sent(o)' = Sent(o)
    BY <1>2, <2>1, <2>2, SendFirst
  <2>7. OpeningInv'
    <3>1. ~(heard' < 2) /\ Len(reqs') \in Nat /\ Len(reqs') >= 1
      BY <1>2, <1>b, <2>5, <2>6
    <3> QED  BY <3>1, <2>6 DEF OpeningInv
  <2>8. \A k \in Sent("cud") : k <= Len(reqs) /\ reqs'[k] = reqs[k]
    BY <1>2, <2>5, <2>6
  <2>9. \A i \in work : i < N + 1 => i < idx  BY <1>3, <1>5
  <2>10. \A k \in Sent("cud") : k <= heard \/ k = heard + 1
    BY <1>2, <2>5, <2>8
  <2>11. WriteInv'
    <3>1. \A k \in Sent("cud")' : reqs'[k].obj \in work /\ reqs'[k].obj < N + 1
      <4>1. \A k \in Sent("cud") : reqs'[k].obj \in work  BY <2>8 DEF WriteInv
      <4>2. \A i \in work : i < N + 1  BY <1>2
      <4> QED  BY <4>1, <4>2, <2>6
    <3>2. \A k, l \in Sent("cud")' : reqs'[k].obj = reqs'[l].obj => k = l
      BY <2>6, <2>8 DEF WriteInv
    <3>3. \A i \in work : i < N + 1 => \E k \in Sent("cud")' : reqs'[k].obj = i
      BY <2>6, <2>8, <2>9 DEF WriteInv
    <3>4. \A k \in Sent("cud")' : ~(k > heard')  BY <1>2, <2>5, <2>6, <2>8, <2>10
    <3> QED  BY <1>c, <2>1, <2>5, <3>1, <3>2, <3>3, <3>4 DEF WriteInv
  <2>12. ReadInv'  BY <1>c, <2>5, <2>6 DEF ReadInv
  <2>13. BodyInv'
    <3>1. \A k \in Sent("cud")' : k <= heard' /\ ans[k] = "ok"
      BY <1>5, <2>5, <2>6, <2>8, <2>10 DEF BodyInv
    <3> QED  BY <2>1, <2>5, <3>1 DEF BodyInv
  <2>14. CloseInv'
    <3>1. Sent("close") = {} /\ told' = "none"
      BY <1>2, <1>5 DEF CloseInv, BodyInv
    <3> QED  BY <2>1, <2>6, <3>1 DEF CloseInv
  <2> QED  BY <2>5, <2>7, <2>11, <2>12, <2>13, <2>14
<1>6. CASE j = N + 1 /\ body # "open"
  <2>1. Send(Autos(j - idx)) /\ idx' = N + 1 /\ body' = body
    BY <1>1, <1>2, <1>6
  <2>2. Autos(j - idx) \in Seq(ReqType)  BY <1>2, AutosAreAuto
  <2>3. idx' \in 1..(N + 1) /\ body' \in {"open", "complete", "failed"}
    BY <1>2, <2>1 DEF TypeOK
  <2>4. /\ TypeOK' /\ ServerInv' /\ heard \in Nat /\ heard' = heard + 1
        /\ heard' <= Len(ans) /\ Len(ans) <= Len(reqs)
        /\ ans' = ans /\ call' = call /\ work' = work
        /\ heard + 1 \in Sent(op) /\ ans[heard + 1] = "ok"
        /\ \A o : Sent(o) \subseteq 1..Len(reqs)
    BY <1>a, <2>1, <2>2, <2>3
  <2>5. /\ reqs' \in Seq(ReqType) /\ Len(reqs') >= Len(reqs)
        /\ \A k \in 1..Len(reqs) : reqs'[k] = reqs[k]
        /\ \A o \in {"connect", "begin", "read", "cud", "close"} :
             Sent(o)' = Sent(o)
    BY <1>2, <2>1, SendNoise
  <2>6. OpeningInv'
    <3>1. ~(heard' < 2) /\ Len(reqs') \in Nat /\ Len(reqs') >= 1
      BY <1>2, <1>b, <2>4, <2>5 DEF OpeningInv
    <3> QED  BY <3>1, <2>5 DEF OpeningInv
  <2>7. \A k \in Sent("cud") : k <= Len(reqs) /\ reqs'[k] = reqs[k]
    BY <1>2, <2>4, <2>5
  <2>8. \A i \in work : i < N + 1 => i < idx  BY <1>3, <1>6
  <2>9. WriteInv'
    <3>1. \A k \in Sent("cud")' : reqs'[k].obj \in work /\ reqs'[k].obj < N + 1
      <4>1. \A k \in Sent("cud") : reqs'[k].obj \in work  BY <2>7 DEF WriteInv
      <4>2. \A i \in work : i < N + 1  BY <1>2
      <4> QED  BY <4>1, <4>2, <2>5
    <3>2. \A k, l \in Sent("cud")' : reqs'[k].obj = reqs'[l].obj => k = l
      BY <2>5, <2>7 DEF WriteInv
    <3>3. \A i \in work : i < N + 1 => \E k \in Sent("cud")' : reqs'[k].obj = i
      BY <2>5, <2>7, <2>8 DEF WriteInv
    <3>4. \A k \in Sent("cud")' : ~(k > heard')  BY <1>2, <2>4, <2>5, <2>7
    <3> QED  BY <1>c, <2>1, <2>4, <3>1, <3>2, <3>3, <3>4 DEF WriteInv
  <2>10. ReadInv'  BY <1>c, <2>4, <2>5 DEF ReadInv
  <2>11. \A k \in Sent("cud") \cup Sent("close") : k <= heard => k <= heard'
    <3>1. \A k \in Sent("cud") \cup Sent("close") : k \in Nat  BY <2>4, <1>2
    <3> QED  BY <3>1, <2>4
  <2>12. BodyInv'
    BY <1>2, <1>6, <2>1, <2>4, <2>5, <2>7, <2>11 DEF BodyInv
  <2>13. CloseInv'
    BY <1>2, <2>1, <2>4, <2>5, <2>11 DEF CloseInv
  <2> QED  BY <2>4, <2>6, <2>9, <2>10, <2>12, <2>13
<1> QED  BY <1>1, <1>2, <1>4, <1>5, <1>6

LEMMA BegunKeeps == ASSUME IInv, Begun PROVE IInv'
<1> USE DEF IInv
<1>1. CASE call = "cud" /\ Advance
  <2>1. Hear("begin", "ok")  BY DEF Begun
  <2>2. heard + 1 = 2 /\ Len(reqs) = 2 /\ reqs[2].op = "begin"
    <3>1. heard \in Nat /\ heard + 1 \in Sent("begin")
      BY <2>1 DEF Hear, TypeOK, Sent
    <3>2. heard + 1 \in {2}  BY <3>1 DEF OpeningInv
    <3>3. heard = 1  BY <3>1, <3>2
    <3> QED  BY <2>1, <3>3 DEF OpeningInv, Hear
  <2>3. \A k \in Sent("cud") : k <= heard + 1
    BY <2>2 DEF Sent, TypeOK
  <2> QED  BY <1>1, <2>1, <2>3, AdvanceKeeps
<1>2. CASE call = "read" /\ Send(<<Req("read", 0)>>)
           /\ UNCHANGED <<idx, body, told>>
  BY <1>2, BegunReadKeeps DEF Begun
<1> QED  BY <1>1, <1>2 DEF Begun

LEMMA WroteKeeps == ASSUME IInv, Wrote PROVE IInv'
<1> USE DEF IInv
<1>1. Hear("cud", "ok") /\ Advance  BY DEF Wrote
<1>2. heard \in Nat /\ heard + 1 \in Sent("cud")
  BY <1>1 DEF Hear, TypeOK, Sent
<1>3. call = "cud"  BY <1>2 DEF WriteInv, TypeOK
<1>4. \A k \in Sent("cud") : k <= heard + 1
  <2> TAKE k \in Sent("cud")
  <2>1. k \in Nat  BY DEF Sent, TypeOK
  <2>2. k > heard => k = heard + 1  BY <1>2 DEF WriteInv
  <2> QED  BY <1>2, <2>1, <2>2
<1> QED  BY <1>1, <1>3, <1>4, AdvanceKeeps

-----------------------------------------------------------------------------
(* The theorems.                                                           *)

\* Requests, answers and what both sides keep agree in every reachable state
\* (connect to disconnect of both services).
THEOREM Inductive == Spec => []IInv
<1>1. ASSUME IInv, Next PROVE IInv'
  <2>1. CASE Serve \/ TimeOut  BY <1>1, <2>1, ServeKeeps
  <2>2. CASE Connected  BY <1>1, <2>2, ConnectedKeeps
  <2>3. CASE Begun  BY <1>1, <2>3, BegunKeeps
  <2>4. CASE NotBegun  BY <1>1, <2>4, NotBegunKeeps
  <2>5. CASE Wrote  BY <1>1, <2>5, WroteKeeps
  <2>6. CASE HaveRead  BY <1>1, <2>6, HaveReadKeeps
  <2>7. CASE BodyFails  BY <1>1, <2>7, BodyFailsKeeps
  <2>8. CASE Closed  BY <1>1, <2>8, ClosedKeeps
  <2>9. CASE NotClosed  BY <1>1, <2>9, NotClosedKeeps
  <2> QED
    BY <1>1, <2>1, <2>2, <2>3, <2>4, <2>5, <2>6, <2>7, <2>8, <2>9
    DEF Next, HearAny
<1>2. IInv /\ UNCHANGED vars => IInv'
  BY DEF vars, clientVars, serverVars, IInv, TypeOK, OpeningInv, WriteInv,
         ReadInv, BodyInv, CloseInv, ServerInv, Sent
<1>3. IInv /\ [Next]_vars => IInv'  BY <1>1, <1>2
<1> QED  BY InitIInv, <1>3, PTL DEF Spec

\* No list is ever saved in part (CUD and xactClose).
THEOREM Atomic == Spec => []AllOrNothing
<1>1. IInv => AllOrNothing  BY DEF IInv, ServerInv, AllOrNothing
<1> QED  BY <1>1, Inductive, PTL

\* What is saved once the fate of the call is told.
LEMMA IInvTold == IInv => ToldTrue
<1> SUFFICES ASSUME IInv PROVE ToldTrue  OBVIOUS
<1> USE DEF IInv
<1>1. heard <= Len(ans) /\ heard \in Nat /\ Len(ans) \in Nat
      /\ \A k \in Sent("close") : k \in Nat
  BY DEF TypeOK, Sent
<1>2. ASSUME told = "ok" PROVE saved = work
  BY <1>1, <1>2 DEF CloseInv, ServerInv
<1>3. ASSUME told = "failed" PROVE saved = {}
  <2>1. CASE body = "complete"
    <3>1. PICK k \in Sent("close") : k <= heard /\ ans[k] = "err"
      BY <1>3, <2>1 DEF CloseInv
    <3>2. \A l \in Sent("close") : l = k  BY <3>1 DEF CloseInv
    <3> QED  BY <3>1, <3>2 DEF ServerInv
  <2>2. CASE body # "complete"
    BY <2>2 DEF CloseInv, ServerInv
  <2> QED  BY <2>1, <2>2
<1> QED  BY <1>2, <1>3 DEF ToldTrue

\* The caller's promise tells what is saved (wrapXact).
THEOREM Honest == Spec => []ToldTrue
BY IInvTold, Inductive, PTL

\* Every step of a call is a step of the abstract batch or does not concern
\* it: the commit saves, before anything is told.
LEMMA BatchStep ==
    ASSUME IInv, [Next]_vars
    PROVE  [Batch!BatchNext]_<<work, saved, told>>
<1> USE DEF IInv, Batch!BatchNext, Batch!Save, Batch!Tell
<1>1. CASE Serve \/ TimeOut
  <2>1. UNCHANGED <<work, told>>
    BY <1>1 DEF Serve, TimeOut, ServeConnect, ServeBegin, ServeWrite, ServeRead,
      ServeClose, ServeElsewhere, Refuse, ServeError, ServeDisconnect, EndSession, clientVars
  <2>2. CASE ServeClose
    <3>1. Waiting("close") /\ xact
          /\ saved' = IF call = "cud" /\ ~aborted THEN written ELSE saved
      BY <2>2 DEF ServeClose, Serving
    <3>2. /\ Len(ans) + 1 \in Sent("close") /\ heard \in Nat
          /\ heard <= Len(ans) /\ Len(ans) \in Nat
      BY <3>1, NextRequest DEF TypeOK
    <3>3. \A k \in Sent("close") : k = Len(ans) + 1  BY <3>2 DEF CloseInv
    <3>4. \A k \in Sent("close") : ~(k <= heard)  BY <3>2, <3>3
    <3>5. body = "complete"  BY <3>2 DEF CloseInv
    <3>6. told = "none"  BY <3>4, <3>5 DEF CloseInv, TypeOK
    <3>7. call = "cud" => ~aborted /\ written = work  BY <3>1, AllWritten
    <3> QED  BY <2>1, <3>1, <3>6, <3>7
  <2>3. CASE ~ServeClose
    <3>1. UNCHANGED saved
      BY <1>1, <2>3 DEF Serve, TimeOut, ServeConnect, ServeBegin, ServeWrite,
        ServeRead, ServeElsewhere, Refuse, ServeError, ServeDisconnect, EndSession
    <3> QED  BY <2>1, <3>1
  <2> QED  BY <2>2, <2>3
<1>2. CASE HearAny
  <2>1. UNCHANGED <<work, saved>>
    BY <1>2 DEF HearAny, Connected, Begun, NotBegun, Wrote, HaveRead, BodyFails,
      Closed, NotClosed, Hear, serverVars
  <2>2. CASE Closed
    <3>1. told = "none" /\ heard + 1 \in Sent("close") /\ heard + 1 <= Len(ans)
          /\ ans[heard + 1] = "ok"
      BY <2>2, ClosedOnce DEF Closed
    <3>2. saved = work  BY <3>1 DEF ServerInv
    <3> QED  BY <2>1, <2>2, <3>1, <3>2 DEF Closed
  <2>3. CASE NotClosed
    <3>1. told = "none" /\ heard + 1 \in Sent("close")
          /\ ans[heard + 1] = "err"
      BY <2>3, ClosedOnce DEF NotClosed
    <3>2. \A k \in Sent("close") : k = heard + 1  BY <3>1 DEF CloseInv
    <3>3. saved = {}  BY <3>1, <3>2 DEF ServerInv
    <3> QED  BY <2>1, <2>3, <3>1, <3>3 DEF NotClosed
  <2>4. CASE BodyFails
    <3>1. \/ body = "open" /\ told' = "failed"
          \/ told' = told
      BY <2>4 DEF BodyFails, Fail
    <3>2. body = "open" => told = "none" /\ saved = {}
      BY DEF BodyInv, CloseInv, ServerInv
    <3> QED  BY <2>1, <3>1, <3>2
  <2>5. CASE Connected \/ Begun \/ NotBegun \/ Wrote \/ HaveRead
    <3>1. told' = told
      BY <2>5 DEF Connected, Begun, NotBegun, Wrote, HaveRead, Advance
    <3> QED  BY <2>1, <3>1
  <2> QED  BY <1>2, <2>2, <2>3, <2>4, <2>5 DEF HearAny
<1>3. CASE UNCHANGED vars
  BY <1>3 DEF vars, clientVars, serverVars
<1> QED  BY <1>1, <1>2, <1>3 DEF Next

\* The services implement the atomic batch.
THEOREM Implementation == Spec => KeepsBatch
<1>1. Init => Batch!BatchInit  BY DEF Init, Batch!BatchInit
<1>2. IInv /\ [Next]_vars => [Batch!BatchNext]_<<work, saved, told>>
  BY BatchStep
<1> QED  BY <1>1, <1>2, Inductive, PTL DEF Spec, KeepsBatch, Batch!BatchSpec

-----------------------------------------------------------------------------
(* Why a call of the AngularJS service does not fail without a refusal.    *)

\* It sends no noise, and fails only when it has heard an error.
AlarmInv ==
    /\ client = "web" => Sent("auto") = {}
    /\ told = "failed" => \E k \in 1..heard : ans[k] = "err"

\* Requests that are no noise, sent after those there are, leave none in the log.
LEMMA QuietSend ==
    ASSUME TypeOK, Sent("auto") = {}, NEW t \in Seq(ReqType), Send(t),
           \A k \in 1..Len(t) : t[k].op # "auto"
    PROVE  Sent("auto")' = {}
<1>1. /\ reqs \in Seq(ReqType) /\ Len(reqs) \in Nat /\ Len(t) \in Nat
      /\ \A k \in 1..Len(reqs) : reqs[k].op # "auto"
  BY DEF TypeOK, Sent
<1>2. /\ reqs' \in Seq(ReqType) /\ Len(reqs') = Len(reqs) + Len(t)
      /\ \A k \in 1..Len(reqs) : reqs'[k] = reqs[k]
      /\ \A k \in 1..Len(reqs') : k > Len(reqs) => reqs'[k] = t[k - Len(reqs)]
  BY <1>1, Sending
<1>3. \A k \in 1..Len(reqs') : reqs'[k].op # "auto"
  <2> SUFFICES ASSUME NEW k \in 1..Len(reqs') PROVE reqs'[k].op # "auto"
    OBVIOUS
  <2>1. CASE k <= Len(reqs)
    BY <1>1, <1>2, <2>1
  <2>2. CASE k > Len(reqs)
    <3>1. k - Len(reqs) \in 1..Len(t)
      BY <1>1, <1>2, <2>2
    <3> QED  BY <1>2, <2>2, <3>1
  <2> QED  BY <1>1, <2>1, <2>2
<1> QED  BY <1>2, <1>3 DEF Sent

\* nextCudRequest of the AngularJS service sends a request it means to, or none.
LEMMA AdvanceQuiet ==
    ASSUME TypeOK, client = "web", Sent("auto") = {}, Advance
    PROVE  Sent("auto")' = {}
<1>1. PICK j \in idx..(N + 1) :
        /\ IF j <= N
           THEN Send(<<Req("cud", j)>> \o Autos(j - idx))
           ELSE IF body = "open" THEN Send(<<Req("close", 0)>> \o Autos(j - idx))
                                 ELSE Send(Autos(j - idx))
  BY DEF Advance
<1>2. idx \in Nat \ {0} /\ N \in Nat /\ j \in Nat \ {0}
  BY PcrudAssumption DEF TypeOK
<1>3. Autos(j - idx) = <<>>
  BY DEF Autos
<1>4. \A r : <<r>> \o <<>> = <<r>>
  OBVIOUS
<1>5. ASSUME NEW r \in ReqType, r.op # "auto", Send(<<r>>) PROVE Sent("auto")' = {}
  <2>1. <<r>> \in Seq(ReqType) /\ \A k \in 1..Len(<<r>>) : <<r>>[k].op # "auto"
    BY <1>5
  <2> QED  BY <1>5, <2>1, QuietSend
<1>6. CASE j <= N
  <2>1. Req("cud", j) \in ReqType /\ Req("cud", j).op # "auto"
    BY <1>2, <1>6 DEF Req, ReqType, Objects
  <2> QED  BY <1>1, <1>3, <1>4, <1>5, <1>6, <2>1
<1>7. CASE ~(j <= N) /\ body = "open"
  <2>1. Req("close", 0) \in ReqType /\ Req("close", 0).op # "auto"
    BY DEF Req, ReqType
  <2> QED  BY <1>1, <1>3, <1>4, <1>5, <1>7, <2>1
<1>8. CASE ~(j <= N) /\ body # "open"
  <2>1. Send(<<>>)
    BY <1>1, <1>3, <1>8
  <2>2. reqs' = reqs
    BY <2>1 DEF Send, TypeOK
  <2> QED  BY <2>2 DEF Sent
<1> QED  BY <1>6, <1>7, <1>8

\* Each answer that makes a call fail is an error, and answers are kept.
LEMMA AlarmStep ==
    ASSUME TypeOK, AlarmInv, [Next]_vars
    PROVE  AlarmInv'
<1>1. /\ heard \in Nat /\ Len(ans) \in Nat /\ heard <= Len(ans)
      /\ ans \in Seq({"ok", "err"}) /\ reqs \in Seq(ReqType)
  BY DEF TypeOK
<1>2. ASSUME UNCHANGED clientVars, \A k \in 1..heard : ans'[k] = ans[k] PROVE AlarmInv'
  BY <1>2 DEF clientVars, AlarmInv, Sent
<1>3. CASE Serve \/ TimeOut
  <2>1. /\ UNCHANGED clientVars
        /\ UNCHANGED ans \/ \E a \in {"ok", "err"} : Answer(a)
    BY <1>3 DEF Serve, TimeOut, ServeConnect, ServeBegin, ServeWrite, ServeRead,
      ServeClose, ServeElsewhere, Refuse, ServeError, ServeDisconnect, EndSession
  <2>2. \A k \in 1..heard : ans'[k] = ans[k]
    BY <1>1, <2>1, Answering
  <2> QED  BY <1>2, <2>1, <2>2
<1>4. CASE HearAny
  <2>1. /\ client' = client /\ ans' = ans /\ heard' = heard + 1 /\ heard < Len(ans)
    BY <1>4 DEF HearAny, Connected, Begun, NotBegun, Wrote, HaveRead, BodyFails,
      Closed, NotClosed, Hear, serverVars
  <2>2. \A k \in 1..heard : k \in 1..heard'
    BY <1>1, <2>1
  <2>3. heard + 1 \in 1..heard'
    BY <1>1, <2>1
  <2>4. told' = "failed" => told = "failed" \/ ans[heard + 1] = "err"
    <3>1. CASE Connected \/ Begun \/ NotBegun \/ Wrote \/ HaveRead
      BY <3>1 DEF Connected, Begun, NotBegun, Wrote, HaveRead, Advance
    <3>2. CASE BodyFails \/ NotClosed
      BY <3>2 DEF BodyFails, NotClosed, Hear
    <3>3. CASE Closed
      BY <3>3 DEF Closed
    <3> QED  BY <1>4, <3>1, <3>2, <3>3 DEF HearAny
  <2>5. told' = "failed" => \E k \in 1..heard' : ans'[k] = "err"
    BY <2>1, <2>2, <2>3, <2>4 DEF AlarmInv
  <2>6. ASSUME client' = "web" PROVE Sent("auto")' = {}
    <3>1. client = "web" /\ Sent("auto") = {}
      BY <2>1, <2>6 DEF AlarmInv
    <3>2. CASE UNCHANGED reqs
      BY <3>1, <3>2 DEF Sent
    <3>3. ASSUME NEW op \in {"begin", "read", "close", "disconnect"}, Send(<<Req(op, 0)>>)
          PROVE  Sent("auto")' = {}
      <4>1. /\ <<Req(op, 0)>> \in Seq(ReqType)
            /\ \A k \in 1..Len(<<Req(op, 0)>>) : <<Req(op, 0)>>[k].op # "auto"
        <5>1. Req(op, 0) \in ReqType /\ Req(op, 0).op # "auto"
          BY DEF Req, ReqType
        <5> QED  BY <5>1
      <4> QED  BY <3>1, <3>3, <4>1, QuietSend
    <3>4. CASE Advance
      BY <3>1, <3>4, AdvanceQuiet
    <3>5. \/ UNCHANGED reqs \/ Advance
          \/ \E op \in {"begin", "read", "close", "disconnect"} : Send(<<Req(op, 0)>>)
      BY <1>4 DEF HearAny, Connected, Begun, NotBegun, Wrote, HaveRead, BodyFails,
        Fail, Closed, NotClosed
    <3> QED  BY <3>2, <3>3, <3>4, <3>5
  <2> QED  BY <2>5, <2>6 DEF AlarmInv
<1>5. CASE UNCHANGED vars
  <2>1. UNCHANGED clientVars /\ \A k \in 1..heard : ans'[k] = ans[k]
    BY <1>5 DEF vars, serverVars
  <2> QED  BY <1>2, <2>1
<1> QED  BY <1>3, <1>4, <1>5 DEF Next

\* What needs no writing raises no alarm in the AngularJS service: a call fails only
\* when a request it means to send is refused (nextCudRequest).
THEOREM NoAlarm == Spec => []NoFalseAlarm
<1>1. Init => AlarmInv
  <2> SUFFICES ASSUME Init PROVE AlarmInv
    OBVIOUS
  <2>1. reqs = <<Req("connect", 0)>> /\ told = "none"
    BY DEF Init
  <2>2. DOMAIN reqs = {1} /\ reqs[1].op = "connect"
    BY <2>1 DEF Req
  <2> QED  BY <2>1, <2>2 DEF AlarmInv, Sent
<1>2. IInv /\ AlarmInv /\ [Next]_vars => AlarmInv'
  BY AlarmStep DEF IInv
<1>3. IInv /\ AlarmInv => NoFalseAlarm
  <2> SUFFICES ASSUME IInv, AlarmInv, client = "web", told = "failed",
                      \A k \in DOMAIN ans : ans[k] = "err" => reqs[k].op = "auto"
               PROVE  FALSE
    BY DEF NoFalseAlarm
  <2>1. PICK k \in 1..heard : ans[k] = "err"
    BY DEF AlarmInv
  <2>2. k \in DOMAIN ans /\ k \in DOMAIN reqs
    BY DEF IInv, TypeOK
  <2> QED  BY <2>1, <2>2 DEF AlarmInv, Sent
<1> QED  BY <1>1, <1>2, <1>3, Inductive, PTL DEF Spec
=============================================================================
