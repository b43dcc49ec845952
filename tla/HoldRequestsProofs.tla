------------------------- MODULE HoldRequestsProofs -------------------------
(***************************************************************************)
(* Proofs about HoldRequests, for any holds, copies, libraries, targeters  *)
(* and desks: its type invariant; that a copy in transit has a transit;    *)
(* that the rows of suspended and filled holds stay sound; that waiting    *)
(* holds have different targets; that suspended holds wait, and check-ins  *)
(* repair what they find, while desks take turns; and that, while          *)
(* transactions do not overlap, the rows agree on who has a claim on a     *)
(* copy.                                                                   *)
(***************************************************************************)
EXTENDS HoldRequests, FiniteSetTheorems, TLAPS

Held(f) == DOMAIN f \subseteq Holds /\ f \in [DOMAIN f -> Row]

-----------------------------------------------------------------------------
(* Type correctness.                                                       *)

\* Rows that were read, and rows that are changed before they are written.
LEMMA NewRowType == NewRow \in Row
BY DEF NewRow, Row

\* A hold whose target, capture and shelf are cleared.
LEMMA UntargetedType == \A r \in Row : Untargeted(r) \in Row
BY DEF Untargeted, Row

\* The changes the requests make to a row of a hold.
LEMMA RowChanges ==
    ASSUME NEW r \in Row
    PROVE  /\ \A b \in BOOLEAN : [r EXCEPT !.cancelled = b] \in Row
           /\ \A b \in BOOLEAN : [r EXCEPT !.frozen = b] \in Row
           /\ \A l \in Libs \cup {NoLib} : [r EXCEPT !.shelf = l] \in Row
           /\ \A c \in Copies \cup {NoCopy} : [r EXCEPT !.current = c] \in Row
BY DEF Row

\* The changes they make to a transit.
LEMMA LegChanges ==
    ASSUME NEW l \in Leg
    PROVE  /\ \A s \in {"open", "received", "cancelled"} : [l EXCEPT !.state = s] \in Leg
           /\ \A t \in Status \ {"in_transit"} : [l EXCEPT !.to = t] \in Leg
BY DEF Leg

\* Rows as a transaction reads them.
LEMMA ReadType ==
    ASSUME HoldTypeOK, NEW S \in SUBSET Holds
    PROVE  Held(Read(S))
BY DEF Held, Read, HoldTypeOK

\* Writing rows back leaves rows.
LEMMA WriteType ==
    ASSUME HoldTypeOK, NEW f, Held(f), WriteHolds(f)
    PROVE  hold' \in [Holds -> Row]
<1>1. hold' = [h \in Holds |-> IF h \in DOMAIN f THEN f[h] ELSE hold[h]]
  BY DEF WriteHolds
<1>2. ASSUME NEW h \in Holds PROVE (IF h \in DOMAIN f THEN f[h] ELSE hold[h]) \in Row
  <2>1. hold[h] \in Row
    BY DEF HoldTypeOK
  <2>2. CASE h \in DOMAIN f
    BY <2>2 DEF Held
  <2> QED  BY <2>1, <2>2
<1> QED  BY <1>1, <1>2

\* One row of those read is changed.
LEMMA ExceptType ==
    ASSUME NEW f, Held(f), NEW h, NEW r, h \in DOMAIN f => r \in Row
    PROVE  Held([f EXCEPT ![h] = r])
<1> DEFINE S == DOMAIN f
           g == [f EXCEPT ![h] = r]
<1>1. S \subseteq Holds /\ f \in [S -> Row]
  BY DEF Held
<1>2. h \in S => r \in Row
  OBVIOUS
<1> HIDE DEF S
<1>3. g \in [S -> Row]
  BY <1>1, <1>2
<1> HIDE DEF g
<1>4. DOMAIN g = S
  BY <1>3
<1>5. Held(g)
  BY <1>1, <1>3, <1>4 DEF Held
<1> QED  BY <1>5 DEF g

\* A desk at rest.
LEMMA IdleType == IsRequest(IdleDesk)
<1>1. Held(IdleDesk.held)
  BY DEF Held, IdleDesk
<1>2. /\ IdleDesk.op = "none" /\ IdleDesk.pc = "idle"
      /\ IdleDesk \in [op : Ops, pc : DeskPc, who : Holds \cup {NoHold}, copy : Copies \cup {NoCopy},
                        lib : Libs \cup {NoLib}, status : Status, via : 0..MaxTransits, leg : Leg \cup {NoLeg},
                        held : {IdleDesk.held}]
  BY RowsAssumption DEF IdleDesk, Ops, DeskPc, Status
<1> QED  BY <1>1, <1>2 DEF Held, IsRequest, IdleDesk

\* The fields of a request.
LEMMA RequestFields ==
    ASSUME NEW q, IsRequest(q)
    PROVE  /\ q.op \in Ops /\ q.pc \in DeskPc /\ q.who \in Holds \cup {NoHold}
           /\ q.copy \in Copies \cup {NoCopy} /\ q.lib \in Libs \cup {NoLib}
           /\ q.status \in Status /\ q.via \in 0..MaxTransits /\ q.leg \in Leg \cup {NoLeg}
           /\ (q.op = "abort" => q.via # 0) /\ (q.via # 0 => q.leg \in Leg)
           /\ Held(q.held)
           /\ q.op = "reset" \/ q.pc \in {"forward", "arrive", "capture"} => q.who \in Holds
           /\ q.op \in {"checkin", "checkout"} => q.copy \in Copies
           /\ q.pc \in {"forward", "arrive", "capture", "shelve"} => q.op = "checkin"
           /\ q.op \in {"uncancel", "thaw"} \/ q.pc = "arrive" => q.who \in DOMAIN q.held
BY DEF IsRequest, Held

\* The transit that a search found, if any.
LEMMA FirstLegType ==
    ASSUME HoldTypeOK, NEW S \in SUBSET TransitIds, \A j \in S : transit[j].state # "none",
           NEW i \in First(S)
    PROVE  i \in 0..MaxTransits /\ LegAt(i) \in Leg \cup {NoLeg} /\ (i # 0 => LegAt(i) \in Leg)
<1>1. CASE i = 0
  BY <1>1, RowsAssumption DEF LegAt
<1>2. CASE i \in S /\ i # 0
  <2>1. transit[i] \in Leg \cup {NoLeg} /\ transit[i] # NoLeg
    BY <1>2 DEF HoldTypeOK, NoLeg
  <2>2. transit[i] \in Leg
    BY <2>1
  <2>3. i \in 0..MaxTransits
    <3>1. i \in TransitIds
      BY <1>2
    <3> QED  BY <3>1, RowsAssumption DEF TransitIds
  <2> QED  BY <1>2, <2>2, <2>3 DEF LegAt
<1> QED  BY <1>1, <1>2 DEF First

\* What the searches for the transits of a hold, or of a copy, may find.
LEMMA FoundType ==
    ASSUME HoldTypeOK, NEW h, NEW c
    PROVE  /\ \A i \in First(LegsOf(h)) \cup First(OnTheWay(c)) \cup {0} :
                i \in 0..MaxTransits /\ LegAt(i) \in Leg \cup {NoLeg} /\ (i # 0 => LegAt(i) \in Leg)
<1>1. /\ LegsOf(h) \in SUBSET TransitIds /\ \A j \in LegsOf(h) : transit[j].state # "none"
      /\ OnTheWay(c) \in SUBSET TransitIds /\ \A j \in OnTheWay(c) : transit[j].state # "none"
  BY DEF LegsOf, OnTheWay
<1>2. {} \in SUBSET TransitIds /\ 0 \in First({})
  BY DEF First
<1> QED  BY <1>1, <1>2, FirstLegType

\* What is recorded beside the rows.
MarksOK == asked \subseteq Holds /\ overtaken \subseteq Holds /\ contested \subseteq Copies

\* A desk takes up a request, goes on with it, and is done with it.
LEMMA MoveType ==
    ASSUME HoldTypeOK, NEW d \in Desks, NEW q, IsRequest(q), desk' = [desk EXCEPT ![d] = q]
    PROVE  DOMAIN desk' = Desks /\ \A e \in Desks : IsRequest(desk'[e])
BY DEF HoldTypeOK

\* A desk takes up a request.
LEMMA ServeType ==
    ASSUME HoldTypeOK, NEW d \in Desks, NEW q, IsRequest(q), Serve(d, q)
    PROVE  HoldTypeOK'
<1>1. DOMAIN desk' = Desks /\ \A e \in Desks : IsRequest(desk'[e])
  BY MoveType DEF Serve
<1>2. UNCHANGED rows /\ UNCHANGED <<tgt, asked, crossed, marks>> /\ alone' \subseteq Desks
  BY DEF Serve
<1> QED  BY <1>1, <1>2 DEF HoldTypeOK, rows, marks, IsRequest

\* A desk is done with its request.
LEMMA FinishType ==
    ASSUME HoldTypeOK, NEW d \in Desks, Finish(d)
    PROVE  DOMAIN desk' = Desks /\ \A e \in Desks : IsRequest(desk'[e])
BY MoveType, IdleType DEF Finish

\* A request that is ready to write what it read of one hold, and a transit.
Ready(op, h) == [IdleDesk EXCEPT !.op = op, !.pc = "ready", !.who = h, !.held = Read({h})]
ReadyLeg(op, h, i) == [IdleDesk EXCEPT !.op = op, !.pc = "ready", !.who = h, !.via = i,
                                       !.leg = LegAt(i), !.held = Read({h})]

\* The requests that read all they need when they begin.
LEMMA ReadyType ==
    ASSUME HoldTypeOK, NEW op \in Ops \ {"checkin", "checkout", "reset", "abort"}, NEW h \in Holds
    PROVE  /\ IsRequest(Ready(op, h))
           /\ \A i \in First(LegsOf(h)) \cup {0} : IsRequest(ReadyLeg(op, h, i))
<1>1. Held(Read({h})) /\ h \in DOMAIN Read({h})
  BY ReadType DEF Read
<1>2. \A i \in First(LegsOf(h)) \cup {0} :
         i \in 0..MaxTransits /\ LegAt(i) \in Leg \cup {NoLeg} /\ (i # 0 => LegAt(i) \in Leg)
  BY FoundType
<1> HIDE DEF HoldTypeOK
<1>3. IsRequest(Ready(op, h))
  BY ZenonT(30), <1>1, IdleType DEF IsRequest, Held, IdleDesk, DeskPc, Ready
<1>4. ASSUME NEW i \in First(LegsOf(h)) \cup {0} PROVE IsRequest(ReadyLeg(op, h, i))
  BY ZenonT(30), <1>1, <1>2, IdleType DEF IsRequest, Held, IdleDesk, DeskPc, ReadyLeg
<1> QED  BY <1>3, <1>4

\* The steps of a targeter.
LEMMA TargetType ==
    ASSUME HoldTypeOK, NEW t \in Targeters, Target(t)
    PROVE  HoldTypeOK'
<1>1. tgt[t] \in Targeter /\ \A h \in Holds : hold[h] \in Row
  BY DEF HoldTypeOK
<1>2. tgt[t].pc \in {"read", "chosen"} =>
        /\ tgt[t].hold \in Holds /\ {tgt[t].old, tgt[t].pick} \subseteq Copies \cup {NoCopy}
        /\ \A c \in Copies \cup {NoCopy} : [tgt[t] EXCEPT !.pc = "chosen", !.pick = c] \in Targeter
  <2> SUFFICES ASSUME tgt[t].pc \in {"read", "chosen"}
               PROVE  /\ tgt[t].hold \in Holds
                      /\ {tgt[t].old, tgt[t].pick} \subseteq Copies \cup {NoCopy}
                      /\ \A c \in Copies \cup {NoCopy} :
                            [tgt[t] EXCEPT !.pc = "chosen", !.pick = c] \in Targeter
    OBVIOUS
  <2>1. tgt[t] \in [pc : {"read", "chosen"}, hold : Holds, old : Copies \cup {NoCopy},
                    pick : Copies \cup {NoCopy}]
    BY <1>1 DEF Targeter, IdleTargeter
  <2> QED  BY <2>1 DEF Targeter
<1>3. ASSUME NEW h \in Holds, TargetRead(t, h) \/ TargetAsked(t, h) PROVE HoldTypeOK'
  <2>1. [pc |-> "read", hold |-> h, old |-> hold[h].current, pick |-> NoCopy] \in Targeter
    BY <1>1 DEF Targeter, Row
  <2>2. tgt' \in [Targeters -> Targeter]
    BY <1>3, <2>1 DEF TargetRead, TargetAsked, Takes, HoldTypeOK
  <2>3. UNCHANGED <<hold, copy, out, transit, desk, crossed, overtaken, contested>>
        /\ alone' \subseteq alone /\ asked' \subseteq asked
    BY <1>3 DEF TargetRead, TargetAsked, rows, marks
  <2> QED  BY <2>2, <2>3 DEF HoldTypeOK, IsRequest
<1>4. CASE TargetChoose(t)
  <2>1. PICK c \in Usable(tgt[t].hold) \cup OldBest(t) \cup {NoCopy} :
           /\ tgt' = [tgt EXCEPT ![t].pc = "chosen", ![t].pick = c]
           /\ contested' = contested \cup (IF c # NoCopy /\ Contested(t, c) THEN {c} ELSE {})
    BY <1>4 DEF TargetChoose
  <2>2. c \in Copies \cup {NoCopy}
    BY <1>4, <1>2, RowsAssumption DEF TargetChoose, Usable, OldBest
  <2>3. tgt' = [tgt EXCEPT ![t] = [tgt[t] EXCEPT !.pc = "chosen", !.pick = c]]
    BY <2>1 DEF HoldTypeOK
  <2>4. tgt' \in [Targeters -> Targeter]
    BY <1>4, <1>2, <2>2, <2>3 DEF HoldTypeOK, TargetChoose
  <2>5. contested' \subseteq Copies
    BY <2>1, <2>2 DEF HoldTypeOK
  <2> QED  BY <1>4, <2>4, <2>5 DEF TargetChoose, HoldTypeOK, rows, IsRequest
<1>5. ASSUME NEW r \in Row, tgt[t].pc \in {"read", "chosen"}, WriteColumns(t, r)
      PROVE  HoldTypeOK'
  <2>1. WriteHolds([k \in {tgt[t].hold} |-> r]) /\ tgt[t].hold \in Holds
    BY <1>2, <1>5 DEF WriteColumns
  <2>2. hold' \in [Holds -> Row]
    BY <2>1 DEF WriteHolds, HoldTypeOK
  <2>3. overtaken' \subseteq Holds /\ tgt' \in [Targeters -> Targeter]
    BY <1>5, <2>1 DEF WriteColumns, HoldTypeOK, Targeter
  <2> QED  BY <1>5, <2>2, <2>3 DEF WriteColumns, HoldTypeOK, IsRequest
<1> DEFINE b == hold[tgt[t].hold]
<1>b. tgt[t].pc \in {"read", "chosen"} => b \in Row /\ b.current \in Copies \cup {NoCopy}
  <2>1. tgt[t].pc \in {"read", "chosen"} => b \in Row
    BY <1>1, <1>2
  <2> QED  BY <2>1 DEF Row
<1> HIDE DEF b
<1>6. CASE TargetWrite(t)
  <2>1. PICK c \in Written(t) : WriteColumns(t, [b EXCEPT !.current = c])
    BY <1>6 DEF TargetWrite, b
  <2>2. c \in Copies \cup {NoCopy}
    BY <1>6, <1>2, <1>b DEF TargetWrite, Written, b
  <2>3. [b EXCEPT !.current = c] \in Row
    BY <1>6, <1>b, <2>2, RowChanges DEF TargetWrite
  <2> QED  BY <1>6, <1>5, <2>1, <2>3 DEF TargetWrite
<1>7. CASE TargetCancel(t)
  <2> DEFINE c == IF tgt[t].pc = "read" \/ tgt[t].old = NoCopy THEN b.current ELSE NoCopy
             r == [b EXCEPT !.cancelled = TRUE, !.current = c]
  <2>1. WriteColumns(t, r)
    BY <1>7 DEF TargetCancel, b
  <2>2. tgt[t].pc \in {"read", "chosen"}
    BY <1>7 DEF TargetCancel
  <2>3. c \in Copies \cup {NoCopy}
    BY <1>b, <2>2
  <2> HIDE DEF c
  <2>4. r \in Row
    BY <1>b, <2>2, <2>3 DEF Row
  <2> HIDE DEF r
  <2> QED  BY <1>5, <2>1, <2>2, <2>4
<1>8. CASE TargetExit(t)
  BY <1>8 DEF TargetExit, HoldTypeOK, rows, marks, IsRequest, Targeter
<1> QED  BY <1>3, <1>4, <1>6, <1>7, <1>8 DEF Target

\* The steps that begin a request.
LEMMA BeginType ==
    ASSUME HoldTypeOK, NEW d \in Desks
    PROVE  /\ \A h \in Holds :
                BeginCancel(d, h) \/ BeginUncancel(d, h) \/ BeginFreeze(d, h) \/ BeginThaw(d, h)
                \/ BeginReset(d, h) => HoldTypeOK'
           /\ \A i \in TransitIds : BeginAbort(d, i) => HoldTypeOK'
           /\ \A c \in Copies, l \in Libs : ScanIn(d, c, l) => HoldTypeOK'
           /\ \A c \in Copies, w \in Holds \cup {NoHold} : ScanOut(d, c, w) => HoldTypeOK'
<1>1. ASSUME NEW h \in Holds, BeginCancel(d, h) PROVE HoldTypeOK'
  <2>1. PICK i \in First(LegsOf(h)) \cup {0} : Serve(d, ReadyLeg("cancel", h, i))
    BY <1>1 DEF BeginCancel, ReadyLeg
  <2>2. IsRequest(ReadyLeg("cancel", h, i))
    BY ReadyType DEF Ops
  <2> QED  BY <2>1, <2>2, ServeType
<1>2. ASSUME NEW h \in Holds,
             BeginUncancel(d, h) \/ BeginFreeze(d, h) \/ BeginThaw(d, h) PROVE HoldTypeOK'
  <2>1. PICK op \in {"uncancel", "freeze", "thaw"} : Serve(d, Ready(op, h))
    BY <1>2 DEF BeginUncancel, BeginFreeze, BeginThaw, Ready
  <2>2. IsRequest(Ready(op, h))
    BY ReadyType DEF Ops
  <2> QED  BY <2>1, <2>2, ServeType
<1>5. ASSUME NEW h \in Holds, BeginReset(d, h) PROVE HoldTypeOK'
  <2> DEFINE q == [IdleDesk EXCEPT !.op = "reset", !.pc = "scanned", !.who = h]
  <2>1. IsRequest(q)
    BY ZenonT(30), IdleType DEF IsRequest, Ops, DeskPc, IdleDesk
  <2> QED  BY <1>5, <2>1, ServeType DEF BeginReset
<1>6. ASSUME NEW i \in TransitIds, BeginAbort(d, i) PROVE HoldTypeOK'
  <2> DEFINE c == transit[i].copy
             q == [IdleDesk EXCEPT !.op = "abort", !.pc = "ready", !.copy = c,
                                   !.status = copy[c], !.via = i, !.leg = transit[i]]
  <2>1. transit[i] \in Leg /\ i \in 0..MaxTransits /\ i # 0
    BY <1>6, RowsAssumption DEF HoldTypeOK, TransitIds, BeginAbort, NoLeg
  <2>2. c \in Copies
    BY <2>1 DEF Leg
  <2>3. copy[c] \in Status
    BY <2>2 DEF HoldTypeOK
  <2>4. IsRequest(q)
    BY ZenonT(30), <2>1, <2>2, <2>3, IdleType DEF IsRequest, Ops, DeskPc, IdleDesk
  <2> QED  BY <1>6, <2>4, ServeType DEF BeginAbort
<1>7. ASSUME NEW c \in Copies, NEW l \in Libs, ScanIn(d, c, l) PROVE HoldTypeOK'
  <2> DEFINE s(i) == IF i = 0 THEN copy[c] ELSE "in_transit"
             q(i) == [IdleDesk EXCEPT !.op = "checkin", !.pc = "scanned", !.copy = c, !.lib = l,
                                      !.status = s(i), !.via = i, !.leg = LegAt(i)]
  <2>1. PICK i \in First(OnTheWay(c)) : Serve(d, q(i))
    BY <1>7 DEF ScanIn
  <2>2. /\ s(i) \in Status /\ i \in 0..MaxTransits /\ LegAt(i) \in Leg \cup {NoLeg}
        /\ i # 0 => LegAt(i) \in Leg
    BY FoundType DEF HoldTypeOK, Status
  <2> HIDE DEF s
  <2>3. IsRequest(q(i))
    BY ZenonT(30), <2>2, IdleType DEF IsRequest, Ops, DeskPc, IdleDesk
  <2> QED  BY <2>1, <2>3, ServeType
<1>8. ASSUME NEW c \in Copies, NEW w \in Holds \cup {NoHold}, ScanOut(d, c, w) PROVE HoldTypeOK'
  <2>1. copy[c] \in Status
    BY DEF HoldTypeOK
  <2> DEFINE q == [IdleDesk EXCEPT !.op = "checkout", !.pc = "scanned", !.copy = c, !.who = w,
                                   !.status = copy[c]]
  <2>2. IsRequest(q)
    BY ZenonT(30), <2>1, IdleType DEF IsRequest, Ops, DeskPc, IdleDesk
  <2> QED  BY <1>8, <2>2, ServeType DEF ScanOut
<1> QED  BY <1>1, <1>2, <1>5, <1>6, <1>7, <1>8

\* The rows a transaction leaves behind.
LEMMA CommitResetType ==
    ASSUME HoldTypeOK, NEW d \in Desks, Finish(d), UNCHANGED <<tgt, alone>>, MarksOK',
           hold' \in [Holds -> Row], copy' \in [Copies -> Status], out' \subseteq Copies,
           transit' \in [TransitIds -> Leg \cup {NoLeg}], crossed' \subseteq Copies
    PROVE  HoldTypeOK'
BY FinishType DEF HoldTypeOK, MarksOK, IsRequest

\* The same when no transit of another copy was ended.
LEMMA CommitType ==
    ASSUME HoldTypeOK, NEW d \in Desks, Finish(d), UNCHANGED <<tgt, alone, crossed>>, MarksOK',
           hold' \in [Holds -> Row], copy' \in [Copies -> Status], out' \subseteq Copies,
           transit' \in [TransitIds -> Leg \cup {NoLeg}]
    PROVE  HoldTypeOK'
<1>1. crossed' \subseteq Copies
  BY DEF HoldTypeOK
<1> QED  BY <1>1, CommitResetType

\* A request writes its transit.
LEMMA WriteLegType ==
    ASSUME HoldTypeOK, NEW d \in Desks, NEW l, l \in Leg, WriteLeg(desk[d].via, l)
    PROVE  transit' \in [TransitIds -> Leg \cup {NoLeg}]
BY DEF WriteLeg, HoldTypeOK

\* The fields of the request a desk serves.
LEMMA DeskFields ==
    ASSUME HoldTypeOK, NEW d \in Desks
    PROVE  /\ IsRequest(desk[d])
           /\ desk[d].op \in Ops /\ desk[d].pc \in DeskPc /\ desk[d].who \in Holds \cup {NoHold}
           /\ desk[d].copy \in Copies \cup {NoCopy} /\ desk[d].lib \in Libs \cup {NoLib}
           /\ desk[d].status \in Status /\ desk[d].via \in 0..MaxTransits
           /\ desk[d].leg \in Leg \cup {NoLeg} /\ (desk[d].via # 0 => desk[d].leg \in Leg)
           /\ (desk[d].op = "abort" => desk[d].via # 0)
           /\ Held(desk[d].held)
           /\ desk[d].op = "reset" \/ desk[d].pc \in {"forward", "arrive", "capture"}
                => desk[d].who \in Holds
           /\ desk[d].op \in {"checkin", "checkout"} => desk[d].copy \in Copies
           /\ desk[d].pc \in {"forward", "arrive", "capture", "shelve"} => desk[d].op = "checkin"
           /\ desk[d].op \in {"uncancel", "thaw"} \/ desk[d].pc = "arrive" => desk[d].who \in DOMAIN desk[d].held
<1>1. IsRequest(desk[d])
  BY DEF HoldTypeOK
<1> HIDE DEF HoldTypeOK
<1> QED  BY <1>1, RequestFields

\* The target that a request writes back.
LEMMA WrittenBackType ==
    ASSUME HoldTypeOK, NEW d \in Desks
    PROVE  desk[d].who \in DOMAIN desk[d].held => WrittenBack(desk[d]) \subseteq Copies
<1>1. Held(desk[d].held)
  BY DeskFields
<1> SUFFICES ASSUME desk[d].who \in DOMAIN desk[d].held PROVE WrittenBack(desk[d]) \subseteq Copies
  OBVIOUS
<1>2. desk[d].held[desk[d].who] \in Row
  BY <1>1 DEF Held
<1> QED  BY <1>2 DEF WrittenBack, Row

\* The requests about a hold.
LEMMA HoldRequestType ==
    ASSUME HoldTypeOK, NEW d \in Desks, HoldRequest(d)
    PROVE  HoldTypeOK'
<1> DEFINE q == desk[d]
<1>1. /\ IsRequest(q) /\ Held(q.held) /\ q.status \in Status /\ q.via \in 0..MaxTransits
      /\ q.leg \in Leg \cup {NoLeg} /\ (q.via # 0 => q.leg \in Leg)
      /\ (q.op = "reset" => q.who \in Holds) /\ (q.op = "abort" => q.via # 0)
      /\ (q.op \in {"uncancel", "thaw"} => q.who \in Holds /\ WrittenBack(q) \subseteq Copies)
  BY DeskFields, WrittenBackType DEF Held
<1>2. hold \in [Holds -> Row] /\ copy \in [Copies -> Status] /\ out \subseteq Copies
      /\ transit \in [TransitIds -> Leg \cup {NoLeg}] /\ MarksOK
  BY DEF HoldTypeOK, MarksOK
<1>3. CASE CommitCancel(d)
  <2>1. Held([q.held EXCEPT ![q.who] = [@ EXCEPT !.cancelled = TRUE]])
    <3>1. q.who \in DOMAIN q.held => [q.held[q.who] EXCEPT !.cancelled = TRUE] \in Row
      BY <1>1, RowChanges DEF Held
    <3> QED  BY <1>1, <3>1, ExceptType
  <2>2. hold' \in [Holds -> Row]
    BY <1>3, <2>1, WriteType DEF CommitCancel
  <2>3. transit' \in [TransitIds -> Leg \cup {NoLeg}]
    <3>1. q.via # 0 => [q.leg EXCEPT !.to = "available"] \in Leg
      BY <1>1, LegChanges DEF Status
    <3> QED  BY <1>2, <1>3, <3>1, WriteLegType DEF CommitCancel
  <2>4. MarksOK'
    BY <1>2, <1>3 DEF CommitCancel, MarksOK, marks
  <2> QED  BY <1>2, <1>3, <2>2, <2>3, <2>4, CommitType DEF CommitCancel
<1>4. CASE CommitUncancel(d)
  <2>1. Held([q.held EXCEPT ![q.who] = [Untargeted(@) EXCEPT !.cancelled = FALSE]])
    <3>1. q.who \in DOMAIN q.held
            => [Untargeted(q.held[q.who]) EXCEPT !.cancelled = FALSE] \in Row
      BY <1>1, UntargetedType, RowChanges DEF Held
    <3> QED  BY <1>1, <3>1, ExceptType
  <2>2. hold' \in [Holds -> Row]
    BY <1>4, <2>1, WriteType DEF CommitUncancel
  <2>3. MarksOK'
    BY <1>1, <1>2, <1>4 DEF CommitUncancel, MarksOK, marks
  <2> QED  BY <1>2, <1>4, <2>2, <2>3, CommitType DEF CommitUncancel
<1>5. CASE CommitFreeze(d)
  <2> DEFINE new(r) == IF q.op = "thaw" THEN [r EXCEPT !.frozen = FALSE]
                       ELSE [r EXCEPT !.frozen = TRUE, !.current = NoCopy]
  <2>1. \A r \in Row : new(r) \in Row
    BY DEF Row
  <2>2. Held([q.held EXCEPT ![q.who] = new(@)])
    <3>1. q.who \in DOMAIN q.held => new(q.held[q.who]) \in Row
      BY <1>1, <2>1 DEF Held
    <3> HIDE DEF new
    <3> QED  BY <1>1, <3>1, ExceptType
  <2>3. hold' \in [Holds -> Row]
    BY SMTT(30), <1>5, <2>2, WriteType DEF CommitFreeze
  <2>4. MarksOK'
    BY SMTT(30), <1>1, <1>2, <1>5 DEF CommitFreeze, MarksOK
  <2> QED  BY <1>2, <1>5, <2>3, <2>4, CommitType DEF CommitFreeze
<1>6. CASE ReadReset(d)
  <2> DEFINE r == hold[q.who]
             has == r.captured /\ r.current # NoCopy
             c == IF has THEN r.current ELSE NoCopy
             s == IF has THEN copy[r.current] ELSE "available"
             new(i) == [q EXCEPT !.pc = "ready", !.copy = c, !.status = s,
                                 !.via = i, !.leg = LegAt(i), !.held = Read({q.who})]
  <2>1. PICK i \in First(LegsOf(q.who)) \cup {0} : desk' = [desk EXCEPT ![d] = new(i)]
    BY <1>6 DEF ReadReset
  <2>2. q.who \in Holds /\ r \in Row
    BY <1>1, <1>2, <1>6 DEF ReadReset
  <2>3. c \in Copies \cup {NoCopy} /\ s \in Status
    BY <1>2, <2>2 DEF Row, Status
  <2>4. Held(Read({q.who}))
    BY <2>2, ReadType
  <2>5. i \in 0..MaxTransits /\ LegAt(i) \in Leg \cup {NoLeg} /\ (i # 0 => LegAt(i) \in Leg)
    BY FoundType
  <2>6. q.op = "reset"
    BY <1>6 DEF ReadReset
  <2> HIDE DEF c, s
  <2>7. IsRequest(new(i))
    BY ZenonT(30), <1>1, <2>2, <2>3, <2>4, <2>5, <2>6 DEF IsRequest, Held, DeskPc
  <2>8. DOMAIN desk' = Desks /\ \A e \in Desks : IsRequest(desk'[e])
    BY <2>1, <2>7, MoveType
  <2> QED  BY ZenonT(30), <1>6, <2>8 DEF ReadReset, rows, marks, HoldTypeOK, IsRequest
<1>7. CASE CommitReset(d)
  <2>1. Held([q.held EXCEPT ![q.who] = Untargeted(@)])
    <3>1. q.who \in DOMAIN q.held => Untargeted(q.held[q.who]) \in Row
      BY <1>1, UntargetedType DEF Held
    <3> QED  BY <1>1, <3>1, ExceptType
  <2>2. hold' \in [Holds -> Row]
    BY <1>7, <2>1, WriteType DEF CommitReset
  <2>3. transit' \in [TransitIds -> Leg \cup {NoLeg}]
    <3>1. q.via # 0 => [q.leg EXCEPT !.state = "cancelled"] \in Leg
      BY <1>1, LegChanges
    <3> QED  BY <1>2, <1>7, <3>1, WriteLegType DEF CommitReset
  <2>4. copy' \in [Copies -> Status]
    BY <1>2, <1>7 DEF CommitReset, Status
  <2>5. crossed' \subseteq Copies
    <3>1. q.via # 0 => q.leg.copy \in Copies
      BY <1>1 DEF Leg
    <3> QED  BY <1>7, <3>1 DEF CommitReset, HoldTypeOK
  <2>6. MarksOK'
    BY <1>1, <1>2, <1>7 DEF CommitReset, MarksOK, marks
  <2> QED  BY <1>2, <1>7, <2>2, <2>3, <2>4, <2>5, <2>6, CommitResetType DEF CommitReset
<1>8. CASE CommitAbort(d)
  <2>1. transit' \in [TransitIds -> Leg \cup {NoLeg}]
    <3>1. q.leg \in Leg
      BY <1>1, <1>8 DEF CommitAbort
    <3>2. [q.leg EXCEPT !.state = "cancelled"] \in Leg
      BY <3>1, LegChanges
    <3> QED  BY <1>8, <3>2, WriteLegType DEF CommitAbort
  <2>2. copy' \in [Copies -> Status]
    BY <1>2, <1>8 DEF CommitAbort, Status
  <2>5. MarksOK'
    BY <1>2, <1>8 DEF CommitAbort, MarksOK, marks
  <2>3. CASE Finish(d)
    BY <1>2, <1>8, <2>1, <2>2, <2>3, <2>5, CommitType DEF CommitAbort
  <2>4. CASE q.leg.hold # NoHold
    <3> DEFINE n == [IdleDesk EXCEPT !.op = "reset", !.pc = "scanned", !.who = q.leg.hold]
    <3>1. q.leg.hold \in Holds
      BY <1>1, <1>8, <2>4 DEF CommitAbort, Leg
    <3>2. IsRequest(n)
      BY ZenonT(30), <3>1, IdleType DEF IsRequest, Ops, DeskPc, IdleDesk
    <3>3. desk' = [desk EXCEPT ![d] = n]
      BY <1>8, <2>4 DEF CommitAbort
    <3> HIDE DEF n
    <3>4. DOMAIN desk' = Desks /\ \A e \in Desks : IsRequest(desk'[e])
      BY <3>2, <3>3, MoveType
    <3> QED  BY <1>8, <2>1, <2>2, <2>5, <3>4 DEF CommitAbort, HoldTypeOK, MarksOK, IsRequest
  <2> QED  BY <1>8, <2>3, <2>4 DEF CommitAbort
<1> QED  BY <1>3, <1>4, <1>5, <1>6, <1>7, <1>8, BeginType DEF HoldRequest

\* What a check-in writes: the transit it received, the holds, a new transit.
LEMMA ReceivedType ==
    ASSUME HoldTypeOK, NEW d \in Desks
    PROVE  Received(desk[d]) \in [TransitIds -> Leg \cup {NoLeg}]
<1> DEFINE q == desk[d]
<1>1. q.via # 0 => [q.leg EXCEPT !.state = "received"] \in Leg
  BY DeskFields, LegChanges
<1> QED  BY <1>1 DEF Received, HoldTypeOK

\* The rows a check-in writes for a hold that is gone.
LEMMA SettledType ==
    ASSUME HoldTypeOK, NEW d \in Desks
    PROVE  Held(Settled(desk[d])) /\ DOMAIN Settled(desk[d]) = DOMAIN desk[d].held
<1> DEFINE q == desk[d]
           new(h) == IF q.via # 0 /\ h = q.leg.hold THEN [q.held[h] EXCEPT !.shelf = q.lib]
                     ELSE q.held[h]
<1>1. Held(q.held) /\ q.lib \in Libs \cup {NoLib}
  BY DeskFields
<1>2. ASSUME NEW h \in DOMAIN q.held PROVE new(h) \in Row
  <2>1. q.held[h] \in Row
    BY <1>1 DEF Held
  <2> QED  BY <1>1, <2>1, RowChanges
<1>3. Settled(q) = [h \in DOMAIN q.held |-> new(h)]
  BY DEF Settled
<1> HIDE DEF new, q
<1> QED  BY <1>1, <1>2, <1>3 DEF Held, q

\* The rows a capture writes.
LEMMA CapturedType ==
    ASSUME HoldTypeOK, NEW d \in Desks, desk[d].copy \in Copies
    PROVE  Held(Captured(desk[d]))
<1> DEFINE q == desk[d]
           s == Settled(q)
           taken(h) == [s[h] EXCEPT !.current = q.copy, !.captured = TRUE, !.cancelled = FALSE,
                          !.fulfilled = FALSE,
                          !.shelf = IF PickupLib[h] = q.lib THEN q.lib ELSE @]
           new(h) == IF h = q.who THEN taken(h)
                     ELSE IF h \in Losing(q)
                     THEN [s[h] EXCEPT !.current = NoCopy]
                     ELSE s[h]
<1>1. Held(q.held) /\ q.lib \in Libs \cup {NoLib} /\ Held(s) /\ DOMAIN s = DOMAIN q.held
  BY DeskFields, SettledType
<1>2. ASSUME NEW h \in DOMAIN q.held PROVE new(h) \in Row
  <2>1. s[h] \in Row
    BY <1>1 DEF Held
  <2> HIDE DEF s
  <2>2. taken(h) \in Row
    BY <1>1, <2>1 DEF Row
  <2>3. [s[h] EXCEPT !.current = NoCopy] \in Row
    BY <2>1, RowChanges
  <2> HIDE DEF taken
  <2> QED  BY <2>1, <2>2, <2>3
<1>3. Captured(q) = [h \in DOMAIN q.held |-> new(h)]
  BY DEF Captured
<1> HIDE DEF new, q
<1> QED  BY <1>1, <1>2, <1>3 DEF Held, q

\* The status a check-in settles on.
LEMMA SettlingType ==
    ASSUME HoldTypeOK, NEW d \in Desks
    PROVE  Settling(desk[d]) \in Status \ {"in_transit"}
<1> DEFINE q == desk[d]
<1>1. q.status \in Status /\ (q.via # 0 => q.leg.to \in Status \ {"in_transit"})
  BY DeskFields DEF Leg
<1> HIDE DEF q
<1>2. Settling(q) \in Status \ {"in_transit"}
  BY <1>1 DEF Settling, Status
<1> QED  BY <1>2 DEF q

\* A copy departs with a new transit.
LEMMA DepartType ==
    ASSUME HoldTypeOK, NEW d \in Desks, desk[d].copy \in Copies,
           NEW legs \in [TransitIds -> Leg \cup {NoLeg}],
           NEW h \in Holds \cup {NoHold}, NEW l \in Libs, NEW s \in Status \ {"in_transit"},
           Depart(desk[d], legs, h, l, s)
    PROVE  transit' \in [TransitIds -> Leg \cup {NoLeg}] /\ copy' \in [Copies -> Status]
<1>1. [state |-> "open", copy |-> desk[d].copy, hold |-> h, dest |-> l, to |-> s] \in Leg
  BY DEF Leg
<1> QED  BY <1>1 DEF Depart, HoldTypeOK, Status

\* The request of a desk takes up hold h and the rows of the holds in S.
GoesOn(d, p, h, S) ==
    desk' = [desk EXCEPT ![d] = [desk[d] EXCEPT !.pc = p, !.who = h, !.held = Read(S)]]

\* A check-in that takes up a hold stays a request.
LEMMA GoesOnType ==
    ASSUME HoldTypeOK, NEW d \in Desks, desk[d].op = "checkin",
           UNCHANGED <<rows, tgt, asked, alone, crossed, marks>>,
           NEW p \in {"forward", "arrive", "capture"}, NEW h \in Holds, NEW S \in SUBSET Holds,
           h \in S, GoesOn(d, p, h, S)
    PROVE  HoldTypeOK'
<1> DEFINE n == [desk[d] EXCEPT !.pc = p, !.who = h, !.held = Read(S)]
<1>1. Held(Read(S)) /\ IsRequest(desk[d]) /\ h \in DOMAIN Read(S)
  BY ReadType, DeskFields DEF Read
<1>2. IsRequest(n)
  BY <1>1 DEF IsRequest, Held, DeskPc
<1>3. desk' = [desk EXCEPT ![d] = n]
  BY DEF GoesOn
<1> HIDE DEF n
<1> QED  BY <1>2, <1>3, MoveType DEF HoldTypeOK, rows, marks, IsRequest

\* A check-in goes on with what it has read.
LEMMA FindType ==
    ASSUME HoldTypeOK, NEW d \in Desks,
           FindRemoteHold(d) \/ FindArrivedHold(d) \/ FindHold(d) \/ FindNoHold(d)
    PROVE  HoldTypeOK'
<1> DEFINE q == desk[d]
<1>1. /\ IsRequest(q) /\ q.op = "checkin" /\ UNCHANGED <<rows, tgt, asked, alone, crossed, marks>>
      /\ q.leg \in Leg \cup {NoLeg}
  BY DeskFields DEF FindRemoteHold, FindArrivedHold, FindHold, FindNoHold, Scanned, Unneeded
<1>3. GoneHold(d) \subseteq Holds
  BY <1>1 DEF GoneHold, Leg, Arrived, NoLeg
<1>4. CASE FindRemoteHold(d)
  <2>1. PICK h \in Holds : GoesOn(d, "forward", h, {h})
    BY <1>4 DEF FindRemoteHold, Shelved, Holding, GoesOn
  <2> QED  BY <1>1, <2>1, GoesOnType
<1>5. CASE FindArrivedHold(d)
  <2>1. q.leg.hold \in Holds
    BY <1>1, <1>5 DEF FindArrivedHold, Leg, NoLeg
  <2>2. GoesOn(d, "arrive", q.leg.hold, {q.leg.hold})
    BY <1>5 DEF FindArrivedHold, GoesOn
  <2> QED  BY <1>1, <2>1, <2>2, GoesOnType
<1>6. CASE FindHold(d)
  <2>1. PICK h \in Candidates(q.copy) :
           GoesOn(d, "capture", h, {h} \cup Targeting(q.copy) \cup GoneHold(d))
    BY <1>6 DEF FindHold, GoesOn
  <2>2. h \in Holds /\ {h} \cup Targeting(q.copy) \cup GoneHold(d) \in SUBSET Holds
    BY <1>3, <2>1 DEF Candidates, Targeting
  <2> QED  BY <1>1, <2>1, <2>2, GoesOnType
<1>7. CASE FindNoHold(d)
  <2>1. Held(Read(GoneHold(d)))
    BY <1>3, ReadType
  <2> DEFINE n == [q EXCEPT !.pc = "shelve", !.held = Read(GoneHold(d))]
  <2>2. IsRequest(n)
    BY <1>1, <2>1 DEF IsRequest, Held, DeskPc
  <2>3. desk' = [desk EXCEPT ![d] = n]
    BY <1>7 DEF FindNoHold
  <2> HIDE DEF n
  <2> QED  BY <1>1, <2>2, <2>3, MoveType DEF HoldTypeOK, rows, marks, IsRequest
<1> QED  BY <1>4, <1>5, <1>6, <1>7

\* A check-in ends; it has read a transit that is there.
LEMMA CheckinType ==
    ASSUME HoldTypeOK, NEW d \in Desks, KnowsTransit(desk[d]), Checkin(d)
    PROVE  HoldTypeOK'
<1> DEFINE q == desk[d]
<1>1. /\ IsRequest(q) /\ Held(q.held) /\ q.lib \in Libs \cup {NoLib}
      /\ q.leg \in Leg \cup {NoLeg} /\ (q.via # 0 => q.leg \in Leg)
      /\ (q.pc \in {"forward", "arrive", "capture"} => q.who \in Holds)
      /\ (q.op = "checkin" => q.copy \in Copies)
      /\ (q.pc \in {"forward", "arrive", "capture", "shelve"} => q.op = "checkin")
      /\ (q.pc = "arrive" => WrittenBack(q) \subseteq Copies)
  BY DeskFields, WrittenBackType
<1>2. /\ hold \in [Holds -> Row] /\ copy \in [Copies -> Status] /\ out \subseteq Copies
      /\ transit \in [TransitIds -> Leg \cup {NoLeg}]
      /\ Received(q) \in [TransitIds -> Leg \cup {NoLeg}]
      /\ Settling(q) \in Status \ {"in_transit"}
      /\ "on_shelf" \in Status \ {"in_transit"} /\ "available" \in Status
      /\ MarksOK
  BY SMTT(30), ReceivedType, SettlingType DEF HoldTypeOK, Status, MarksOK
<1>3. CASE AbortForCirc(d)
  <2>1. [transit[q.via] EXCEPT !.state = "cancelled"] \in Leg
    <3>1. q.via \in TransitIds /\ transit[q.via].state # "none"
      BY <1>1, <1>3, RowsAssumption, DeskFields DEF AbortForCirc, TransitIds, KnowsTransit
    <3>2. transit[q.via] \in Leg
      BY <1>2, <3>1 DEF NoLeg
    <3> QED  BY <3>2, LegChanges
  <2>2. transit' \in [TransitIds -> Leg \cup {NoLeg}]
    BY <1>3, <2>1, WriteLegType DEF AbortForCirc
  <2>3. copy' \in [Copies -> Status]
    BY <1>2, <1>3 DEF AbortForCirc, Status
  <2> DEFINE l == IF q.leg.hold = NoHold THEN NoLeg ELSE q.leg
             n == [q EXCEPT !.via = 0, !.leg = l]
  <2>4. IsRequest(n)
    <3>1. q.op = "checkin" /\ q.pc = "scanned" /\ 0 \in 0..MaxTransits /\ l \in Leg \cup {NoLeg}
      BY <1>1, <1>3, RowsAssumption DEF AbortForCirc, Scanned
    <3> HIDE DEF l
    <3> QED  BY <1>1, <3>1 DEF IsRequest
  <2>5. desk' = [desk EXCEPT ![d] = n]
    BY <1>3 DEF AbortForCirc, HoldTypeOK
  <2> HIDE DEF n
  <2>6. DOMAIN desk' = Desks /\ \A e \in Desks : IsRequest(desk'[e])
    BY <2>4, <2>5, MoveType
  <2> QED  BY <1>3, <2>2, <2>3, <2>6 DEF AbortForCirc, HoldTypeOK, marks, IsRequest
<1>9. CASE ResetForCirc(d)
  <2> DEFINE h == q.leg.hold
             c == IF hold[h].captured THEN hold[h].current ELSE NoCopy
             n == [q EXCEPT !.leg = NoLeg]
  <2>1. h \in Holds
    BY SMTT(30), <1>1, <1>9 DEF ResetForCirc, Resetting, Leg, NoLeg
  <2>2. hold' \in [Holds -> Row] /\ c \in Copies \cup {NoCopy}
    <3>1. Untargeted(hold[h]) \in Row /\ hold[h].current \in Copies \cup {NoCopy}
      BY <1>2, <2>1, UntargetedType DEF Row
    <3> QED  BY <1>2, <1>9, <3>1 DEF ResetForCirc
  <2>3. PICK i \in 0..MaxTransits :
          /\ IF i = 0 THEN UNCHANGED transit
             ELSE WriteLeg(i, [transit[i] EXCEPT !.state = "cancelled"])
          /\ copy' = IF i # 0 THEN [copy EXCEPT ![c] = "canceled_transit"]
                     ELSE IF c # NoCopy /\ copy[c] = "on_shelf" THEN [copy EXCEPT ![c] = "available"]
                     ELSE copy
          /\ crossed' = crossed \cup IF i # 0 /\ transit[i].copy # c THEN {transit[i].copy} ELSE {}
          /\ i # 0 => transit[i] \in Leg
    <3> DEFINE S == IF c # NoCopy /\ copy[c] = "in_transit" THEN First(LegsOf(h)) ELSE {0}
    <3>1. \A i \in S : i \in 0..MaxTransits /\ (i # 0 => LegAt(i) \in Leg)
      BY FoundType
    <3>2. \A i \in S : i \in 0..MaxTransits /\ (i # 0 => transit[i] \in Leg)
      BY <3>1 DEF LegAt
    <3> QED  BY <1>9, <3>2 DEF ResetForCirc
  <2>4. /\ transit' \in [TransitIds -> Leg \cup {NoLeg}] /\ copy' \in [Copies -> Status]
        /\ crossed' \subseteq Copies
    <3>1. i # 0 => [transit[i] EXCEPT !.state = "cancelled"] \in Leg /\ transit[i].copy \in Copies
      BY <2>3, LegChanges DEF Leg
    <3>2. transit' \in [TransitIds -> Leg \cup {NoLeg}]
      BY <1>2, <2>3, <3>1 DEF WriteLeg
    <3> HIDE DEF c
    <3>3. copy' \in [Copies -> Status]
      BY <1>2, <2>3 DEF Status
    <3>4. crossed' \subseteq Copies
      BY <2>3, <3>1 DEF HoldTypeOK
    <3> QED  BY <3>2, <3>3, <3>4
  <2>5. IsRequest(n)
    BY <1>1, <1>9 DEF IsRequest, ResetForCirc, Resetting
  <2>6. desk' = [desk EXCEPT ![d] = n]
    BY <1>9 DEF ResetForCirc, HoldTypeOK
  <2> HIDE DEF n
  <2>7. DOMAIN desk' = Desks /\ \A e \in Desks : IsRequest(desk'[e])
    BY <2>5, <2>6, MoveType
  <2> QED  BY ZenonT(30), <1>9, <2>1, <2>2, <2>4, <2>7 DEF ResetForCirc, HoldTypeOK, marks, IsRequest
<1>4. CASE NothingToDo(d)
  BY <1>2, <1>4, CommitType DEF NothingToDo, rows, marks, MarksOK
<1>5. CASE CommitForward(d)
  <2>1. PickupLib[q.who] \in Libs /\ q.who \in Holds \cup {NoHold} /\ q.copy \in Copies
    BY <1>1, <1>5, RowsAssumption DEF CommitForward
  <2>2. transit' \in [TransitIds -> Leg \cup {NoLeg}] /\ copy' \in [Copies -> Status]
    BY <1>2, <1>5, <2>1, DepartType DEF CommitForward
  <2>3. Held([q.held EXCEPT ![q.who] = [@ EXCEPT !.shelf = NoLib]])
    <3>1. q.who \in DOMAIN q.held => [q.held[q.who] EXCEPT !.shelf = NoLib] \in Row
      BY <1>1, RowChanges DEF Held
    <3> QED  BY <1>1, <3>1, ExceptType
  <2>4. hold' \in [Holds -> Row]
    BY <1>5, <2>3, WriteType DEF CommitForward
  <2>9. MarksOK'
    BY <1>2, <1>5 DEF CommitForward, MarksOK, marks
  <2> QED  BY <1>2, <1>5, <2>2, <2>4, <2>9, CommitType DEF CommitForward
<1>6. CASE CommitArrive(d)
  <2>1. Held([q.held EXCEPT ![q.who] = [@ EXCEPT !.shelf = q.lib]])
    <3>1. q.who \in DOMAIN q.held => [q.held[q.who] EXCEPT !.shelf = q.lib] \in Row
      BY <1>1, RowChanges DEF Held
    <3> QED  BY <1>1, <3>1, ExceptType
  <2>2. hold' \in [Holds -> Row]
    BY <1>6, <2>1, WriteType DEF CommitArrive
  <2>3. q.leg.to \in Status
    BY <1>1 DEF Leg, NoLeg, Status
  <2>9. MarksOK'
    BY <1>1, <1>2, <1>6 DEF CommitArrive, MarksOK
  <2> QED  BY <1>2, <1>6, <2>2, <2>3, <2>9, CommitType DEF CommitArrive
<1>7. CASE CommitCapture(d)
  <2>1. PickupLib[q.who] \in Libs /\ q.who \in Holds \cup {NoHold} /\ q.copy \in Copies
    BY <1>1, <1>7, RowsAssumption DEF CommitCapture
  <2>2. transit' \in [TransitIds -> Leg \cup {NoLeg}] /\ copy' \in [Copies -> Status]
    BY <1>2, <1>7, <2>1, DepartType DEF CommitCapture
  <2>3. hold' \in [Holds -> Row]
    BY <1>7, <2>1, CapturedType, WriteType DEF CommitCapture
  <2>9. MarksOK'
    BY <1>1, <1>2, <1>7 DEF CommitCapture, MarksOK, marks, Losing, Held
  <2> QED  BY <1>2, <1>7, <2>2, <2>3, <2>9, CommitType DEF CommitCapture
<1>8. CASE CommitShelve(d)
  <2>1. HomeLib[q.copy] \in Libs /\ NoHold \in Holds \cup {NoHold} /\ q.copy \in Copies
    BY <1>1, <1>8, RowsAssumption DEF CommitShelve
  <2>2. transit' \in [TransitIds -> Leg \cup {NoLeg}] /\ copy' \in [Copies -> Status]
    BY <1>2, <1>8, <2>1, DepartType DEF CommitShelve
  <2>3. hold' \in [Holds -> Row]
    BY <1>8, SettledType, WriteType DEF CommitShelve
  <2>9. MarksOK'
    BY <1>2, <1>8 DEF CommitShelve, MarksOK, marks
  <2> QED  BY <1>2, <1>8, <2>2, <2>3, <2>9, CommitType DEF CommitShelve
<1> QED  BY <1>3, <1>4, <1>5, <1>6, <1>7, <1>8, <1>9, BeginType, FindType DEF Checkin

\* The steps of a checkout.
LEMMA CheckoutType ==
    ASSUME HoldTypeOK, NEW d \in Desks, Checkout(d)
    PROVE  HoldTypeOK'
<1> DEFINE q == desk[d]
<1>1. /\ IsRequest(q) /\ Held(q.held) /\ q.copy \in Copies \cup {NoCopy}
      /\ (q.op = "checkout" => q.copy \in Copies)
  BY DeskFields
<1>2. CASE FindOpenHold(d)
  <2> DEFINE new(S) == [q EXCEPT !.pc = "ready", !.held = Read(S)]
  <2>1. PICK S \in SUBSET Holds : desk' = [desk EXCEPT ![d] = new(S)]
    <3> DEFINE claims == {h \in Holds : Open(hold[h]) /\ hold[h].current = q.copy}
               fills(S) == IF q.who \in S THEN S ELSE Related(q.who, q.copy)
    <3>1. PICK S \in IF claims = {} THEN {{}} ELSE {{h} : h \in claims} :
             desk' = [desk EXCEPT ![d] = new(S \cup fills(S))]
      BY <1>2 DEF FindOpenHold
    <3>2. Related(q.who, q.copy) \subseteq Holds
      BY <1>1 DEF Related, IsRequest
    <3>3. S \in SUBSET Holds
      BY <3>1
    <3> HIDE DEF new
    <3> QED  BY <3>1, <3>2, <3>3
  <2>2. q.op = "checkout"
    BY <1>2 DEF FindOpenHold
  <2>3. Held(Read(S))
    BY ReadType
  <2>4. IsRequest(new(S))
    BY <1>1, <2>2, <2>3 DEF IsRequest, Held, DeskPc
  <2> HIDE DEF new
  <2>5. DOMAIN desk' = Desks /\ \A e \in Desks : IsRequest(desk'[e])
    BY <2>1, <2>4, MoveType
  <2> QED  BY <1>2, <2>5 DEF FindOpenHold, HoldTypeOK, rows, marks, IsRequest
<1>3. CASE CommitCheckout(d)
  <2>1. q.copy \in Copies
    BY <1>1, <1>3 DEF CommitCheckout
  <2> DEFINE new(h) == IF h = q.who
                       THEN [q.held[h] EXCEPT !.current = q.copy, !.captured = TRUE, !.fulfilled = TRUE]
                       ELSE Untargeted(q.held[h])
             f == [h \in DOMAIN q.held |-> new(h)]
  <2>2. ASSUME NEW h \in DOMAIN q.held PROVE new(h) \in Row
    <3>1. q.held[h] \in Row
      BY <1>1 DEF Held
    <3>2. [q.held[h] EXCEPT !.current = q.copy, !.captured = TRUE, !.fulfilled = TRUE] \in Row
      BY <1>1, <3>1 DEF Row
    <3> QED  BY <3>1, <3>2, UntargetedType
  <2>3. Held(f)
    <3> HIDE DEF new
    <3> QED  BY <1>1, <2>2 DEF Held
  <2>4. hold' \in [Holds -> Row]
    BY <1>3, <2>3, WriteType DEF CommitCheckout
  <2>5. out' \subseteq Copies /\ copy' \in [Copies -> Status]
    BY <1>3, <2>1 DEF CommitCheckout, HoldTypeOK, Status
  <2>6. transit' \in [TransitIds -> Leg \cup {NoLeg}]
    BY <1>3 DEF CommitCheckout, HoldTypeOK
  <2>7. MarksOK'
    BY <1>3 DEF CommitCheckout, HoldTypeOK, MarksOK, marks
  <2> QED  BY <1>3, <2>4, <2>5, <2>6, <2>7, CommitType DEF CommitCheckout
<1> QED  BY <1>2, <1>3, BeginType DEF Checkout

\* The first state has the types.
LEMMA InitType == Init => HoldTypeOK
BY NewRowType, IdleType, RowsAssumption DEF Init, HoldTypeOK, Status, Targeter

\* Every step keeps the types, given what requests know of their transits.
LEMMA StepType == TransitInv /\ [Next]_vars => HoldTypeOK'
<1> SUFFICES ASSUME HoldTypeOK, \A d \in Desks : KnowsTransit(desk[d]), [Next]_vars
             PROVE  HoldTypeOK'
  BY DEF TransitInv
<1>1. ASSUME NEW d \in Desks, Bail(d) PROVE HoldTypeOK'
  BY <1>1, CommitType DEF Bail, rows, marks, MarksOK, HoldTypeOK
<1>2. CASE UNCHANGED vars
  BY <1>2 DEF vars, HoldTypeOK, IsRequest
<1> QED  BY <1>1, <1>2, TargetType, HoldRequestType, CheckinType, CheckoutType DEF Next

-----------------------------------------------------------------------------
(* Transits.                                                               *)

\* The transit of a request that has one.
LEMMA ViaType ==
    ASSUME HoldTypeOK, NEW d \in Desks, desk[d].via # 0
    PROVE  desk[d].via \in TransitIds /\ desk[d].leg \in Leg
BY DeskFields, RowsAssumption DEF TransitIds

\* No transit is ever removed, or given to another copy.
Grows == \A i \in TransitIds :
    transit[i].state # "none" => transit'[i].state # "none" /\ transit'[i].copy = transit[i].copy
\* Copy c departs with a new transit.
Departs(c) == \E i \in TransitIds :
    transit[i].state = "none" /\ transit'[i].state = "open" /\ transit'[i].copy = c
\* The request of d leaves copy c its open transits, but for one it closes.
Keeps(d, c) ==
    /\ copy[c] = "in_transit"
    /\ \A i \in OnTheWay(c) : (desk[d].via = i => ~Closes(desk[d]))
                             => transit'[i].state = "open" /\ transit'[i].copy = c
\* What TransitInv says beyond the types.
Secure(c) == \E i \in OnTheWay(c) : \A d \in Desks : desk[d].via = i => ~Closes(desk[d])
Secured ==
    /\ \A d \in Desks : KnowsTransit(desk[d])
    /\ \A c \in Copies : copy[c] = "in_transit" => c \in crossed \/ Secure(c)

\* A step of desk d that writes rows and then has no transit any more.
LEMMA CommitSecured ==
    ASSUME HoldTypeOK, Secured, NEW d \in Desks, NEW q, desk' = [desk EXCEPT ![d] = q], q.via = 0,
           Grows, crossed \subseteq crossed',
           \A c \in Copies : copy'[c] = "in_transit" => c \in crossed' \/ Departs(c) \/ Keeps(d, c)
    PROVE  Secured'
<1>1. /\ desk'[d] = q /\ \A e \in Desks : desk'[e] = IF e = d THEN q ELSE desk[e]
      /\ \A e \in Desks : desk[e].via # 0 => desk[e].via \in TransitIds
  BY ViaType DEF HoldTypeOK
<1>2. ASSUME NEW e \in Desks PROVE KnowsTransit(desk[e])'
  <2>1. CASE e = d
    BY <1>1, <2>1 DEF KnowsTransit
  <2>2. CASE e # d
    BY <1>1, <2>2 DEF KnowsTransit, Secured, Grows
  <2> QED  BY <2>1, <2>2
<1>3. ASSUME NEW c \in Copies, copy'[c] = "in_transit" PROVE c \in crossed' \/ Secure(c)'
  <2>1. CASE Departs(c)
    <3>1. PICK i \in TransitIds :
             transit[i].state = "none" /\ transit'[i].state = "open" /\ transit'[i].copy = c
      BY <2>1 DEF Departs
    <3>2. \A e \in Desks : desk[e].via # 0 => desk[e].via # i
      BY <3>1 DEF Secured, KnowsTransit
    <3>3. i # 0
      BY <3>1, RowsAssumption DEF TransitIds
    <3>4. \A e \in Desks : desk'[e].via # i
      BY <1>1, <3>2, <3>3
    <3> QED  BY <3>1, <3>4 DEF Secure, OnTheWay
  <2>2. CASE Keeps(d, c) /\ Secure(c)
    <3>1. PICK i \in OnTheWay(c) : \A e \in Desks : desk[e].via = i => ~Closes(desk[e])
      BY <2>2 DEF Secure
    <3>2. i \in TransitIds /\ i # 0
      BY <3>1, RowsAssumption DEF OnTheWay, TransitIds
    <3>3. transit'[i].state = "open" /\ transit'[i].copy = c
      BY <2>2, <3>1 DEF Keeps
    <3>4. \A e \in Desks : desk'[e].via = i => ~Closes(desk'[e])
      BY <1>1, <3>1, <3>2
    <3>5. \A e \in Desks : (desk[e].via = i => ~Closes(desk[e]))'
      BY <3>4 DEF Closes
    <3> QED  BY <3>2, <3>3, <3>5 DEF Secure, OnTheWay
  <2>3. Keeps(d, c) => c \in crossed' \/ Secure(c)
    BY DEF Keeps, Secured
  <2> QED  BY <1>3, <2>1, <2>2, <2>3
<1> QED  BY <1>2, <1>3 DEF Secured

\* A step of desk d that only reads.
LEMMA ReadSecured ==
    ASSUME HoldTypeOK, Secured, NEW d \in Desks, NEW q, desk' = [desk EXCEPT ![d] = q],
           UNCHANGED <<copy, transit, crossed>>, KnowsTransit(q),
           \A c \in Copies : copy[c] = "in_transit" /\ Closes(q) => q.via \notin OnTheWay(c)
    PROVE  Secured'
<1>1. \A e \in Desks : desk'[e] = IF e = d THEN q ELSE desk[e]
  BY DEF HoldTypeOK
<1>2. ASSUME NEW e \in Desks PROVE KnowsTransit(desk[e])'
  <2>1. KnowsTransit(desk'[e])
    BY <1>1 DEF Secured
  <2> QED  BY <2>1 DEF KnowsTransit
<1>3. ASSUME NEW c \in Copies, copy'[c] = "in_transit" PROVE c \in crossed' \/ Secure(c)'
  <2>1. CASE Secure(c)
    <3>1. PICK i \in OnTheWay(c) : \A e \in Desks : desk[e].via = i => ~Closes(desk[e])
      BY <2>1 DEF Secure
    <3>2. \A e \in Desks : desk'[e].via = i => ~Closes(desk'[e])
      BY <1>1, <1>3, <3>1
    <3>3. \A e \in Desks : (desk[e].via = i => ~Closes(desk[e]))'
      BY <3>2 DEF Closes
    <3> QED  BY <3>1, <3>3 DEF Secure, OnTheWay
  <2> QED  BY <1>3, <2>1 DEF Secured
<1> QED  BY <1>2, <1>3 DEF Secured

\* A request that is done, or has no transit.
LEMMA NoViaSecured ==
    ASSUME HoldTypeOK, Secured, NEW d \in Desks, NEW q, desk' = [desk EXCEPT ![d] = q], q.via = 0,
           UNCHANGED <<copy, transit, crossed>>
    PROVE  Secured'
<1>1. KnowsTransit(q)
  BY DEF KnowsTransit
<1>2. \A c \in Copies : q.via \notin OnTheWay(c)
  BY RowsAssumption DEF OnTheWay, TransitIds
<1> QED  BY <1>1, <1>2, ReadSecured

\* A request that ends and touches neither copies nor transits.
LEMMA FinishSecured ==
    ASSUME HoldTypeOK, Secured, NEW d \in Desks, Finish(d), UNCHANGED <<copy, transit, crossed>>
    PROVE  Secured'
<1>1. IdleDesk.via = 0
  BY DEF IdleDesk
<1> QED  BY <1>1, NoViaSecured DEF Finish

\* Requests about a hold that begin.
LEMMA BeginSecured ==
    ASSUME HoldTypeOK, Secured, NEW d \in Desks, NEW h \in Holds,
           \/ BeginCancel(d, h) \/ BeginUncancel(d, h) \/ BeginFreeze(d, h) \/ BeginThaw(d, h)
           \/ BeginReset(d, h)
    PROVE  Secured'
<1>1. ASSUME NEW q, q.via = 0, Serve(d, q) PROVE Secured'
  BY <1>1, NoViaSecured DEF Serve, rows
<1>2. CASE BeginCancel(d, h)
  <2>1. PICK i \in First(LegsOf(h)) \cup {0} : Serve(d, ReadyLeg("cancel", h, i))
    BY <1>2 DEF BeginCancel, ReadyLeg
  <2> DEFINE q == ReadyLeg("cancel", h, i)
  <2>2. q.op = "cancel" /\ q.via = i /\ q.leg = LegAt(i)
    BY DEF ReadyLeg, IdleDesk
  <2>3. i # 0 => i \in TransitIds /\ transit[i].state # "none" /\ q.leg = transit[i]
    BY <2>1, <2>2 DEF First, LegsOf, LegAt
  <2>4. desk' = [desk EXCEPT ![d] = q] /\ UNCHANGED <<copy, transit, crossed>>
    BY <2>1 DEF Serve, rows
  <2> HIDE DEF q
  <2>5. KnowsTransit(q)
    BY <2>2, <2>3 DEF KnowsTransit
  <2>6. \A c \in Copies : copy[c] = "in_transit" /\ Closes(q) => q.via \notin OnTheWay(c)
    BY <2>2, <2>3, RowsAssumption DEF Closes, OnTheWay, TransitIds
  <2> QED  BY <2>4, <2>5, <2>6, ReadSecured
<1>3. CASE BeginUncancel(d, h)
  BY <1>1, <1>3 DEF BeginUncancel, IdleDesk
<1>4. CASE BeginFreeze(d, h)
  BY <1>1, <1>4 DEF BeginFreeze, IdleDesk
<1>5. CASE BeginThaw(d, h)
  BY <1>1, <1>5 DEF BeginThaw, IdleDesk
<1>6. CASE BeginReset(d, h)
  BY <1>1, <1>6 DEF BeginReset, IdleDesk
<1> QED  BY <1>2, <1>3, <1>4, <1>5, <1>6

\* An abort begins: a closed transit, or one of a copy that is elsewhere, is not
\* what a copy in transit relies on.
LEMMA BeginAbortSecured ==
    ASSUME HoldTypeOK, Secured, NEW d \in Desks, NEW i \in TransitIds, BeginAbort(d, i)
    PROVE  Secured'
<1> DEFINE q == [IdleDesk EXCEPT !.op = "abort", !.pc = "ready", !.copy = transit[i].copy,
                                 !.status = copy[transit[i].copy], !.via = i, !.leg = transit[i]]
<1>1. /\ q.op = "abort" /\ q.copy = transit[i].copy /\ q.status = copy[transit[i].copy]
      /\ q.via = i /\ q.leg = transit[i]
  BY DEF IdleDesk
<1>2. /\ desk' = [desk EXCEPT ![d] = q] /\ UNCHANGED <<copy, transit, crossed>>
      /\ transit[i].state # "none"
  BY DEF BeginAbort, Serve, rows
<1> HIDE DEF q
<1>3. KnowsTransit(q)
  BY <1>1, <1>2 DEF KnowsTransit
<1>4. \A c \in Copies : copy[c] = "in_transit" /\ Closes(q) => q.via \notin OnTheWay(c)
  BY <1>1 DEF Closes, OnTheWay
<1> QED  BY <1>2, <1>3, <1>4, ReadSecured

\* A reset reads its rows, and a copy is scanned.
LEMMA ReadResetSecured ==
    ASSUME HoldTypeOK, Secured, NEW d \in Desks, ReadReset(d)
    PROVE  Secured'
<1> DEFINE r == hold[desk[d].who]
           has == r.captured /\ r.current # NoCopy
           moving == has /\ copy[r.current] = "in_transit"
           q(i) == [desk[d] EXCEPT !.pc = "ready", !.copy = IF has THEN r.current ELSE NoCopy,
                          !.status = IF has THEN copy[r.current] ELSE "available",
                          !.via = i, !.leg = LegAt(i), !.held = Read({desk[d].who})]
<1>1. PICK i \in IF moving THEN First(LegsOf(desk[d].who)) ELSE {0} :
         desk' = [desk EXCEPT ![d] = q(i)]
  BY DEF ReadReset
<1>2. IsRequest(desk[d]) /\ desk[d].op = "reset" /\ UNCHANGED <<copy, transit, crossed>>
  BY DeskFields DEF ReadReset, rows
<1>3. /\ q(i).op = "reset" /\ q(i).via = i /\ q(i).leg = LegAt(i)
      /\ q(i).status = IF has THEN copy[r.current] ELSE "available"
  BY <1>2 DEF IsRequest
<1>4. i # 0 => moving /\ i \in TransitIds /\ transit[i].state # "none" /\ LegAt(i) = transit[i]
  BY <1>1 DEF First, LegsOf, LegAt
<1>5. i # 0 => q(i).status = "in_transit"
  BY <1>3, <1>4
<1> HIDE DEF q, moving, has
<1>6. KnowsTransit(q(i)) /\ ~Closes(q(i))
  BY <1>3, <1>4, <1>5 DEF KnowsTransit, Closes
<1> QED  BY <1>1, <1>2, <1>6, ReadSecured

\* A copy is scanned: a check-in takes an open transit of it.
LEMMA ScanSecured ==
    ASSUME HoldTypeOK, Secured, NEW d \in Desks, NEW c \in Copies,
           \/ \E l \in Libs : ScanIn(d, c, l)
           \/ \E w \in Holds \cup {NoHold} : ScanOut(d, c, w)
    PROVE  Secured'
<1>1. ASSUME NEW l \in Libs, ScanIn(d, c, l) PROVE Secured'
  <2> DEFINE s(i) == IF i = 0 THEN copy[c] ELSE "in_transit"
             q(i) == [IdleDesk EXCEPT !.op = "checkin", !.pc = "scanned", !.copy = c, !.lib = l,
                                      !.status = s(i), !.via = i, !.leg = LegAt(i)]
  <2>1. PICK i \in First(OnTheWay(c)) : Serve(d, q(i))
    BY <1>1 DEF ScanIn
  <2>2. i # 0 => i \in TransitIds /\ transit[i].state = "open" /\ transit[i].copy = c
                 /\ LegAt(i) = transit[i]
    BY <2>1 DEF First, OnTheWay, LegAt
  <2>3. q(i).op = "checkin" /\ q(i).copy = c /\ q(i).via = i /\ q(i).leg = LegAt(i) /\ q(i).status = s(i)
    BY DEF IdleDesk
  <2>4. desk' = [desk EXCEPT ![d] = q(i)] /\ UNCHANGED <<copy, transit, crossed>>
    BY <2>1 DEF Serve, rows
  <2> HIDE DEF q
  <2>5. KnowsTransit(q(i)) /\ ~Closes(q(i))
    BY <2>2, <2>3 DEF KnowsTransit, Closes
  <2> QED  BY <2>4, <2>5, ReadSecured
<1>2. ASSUME NEW w \in Holds \cup {NoHold}, ScanOut(d, c, w) PROVE Secured'
  <2> DEFINE q == [IdleDesk EXCEPT !.op = "checkout", !.pc = "scanned", !.copy = c, !.who = w,
                                   !.status = copy[c]]
  <2>1. q.via = 0 /\ desk' = [desk EXCEPT ![d] = q] /\ UNCHANGED <<copy, transit, crossed>>
    BY <1>2 DEF ScanOut, Serve, rows, IdleDesk
  <2> HIDE DEF q
  <2> QED  BY <2>1, NoViaSecured
<1> QED  BY <1>1, <1>2

\* A check-in or checkout goes on with the same copy and transit.
Continues(d, p, h, f) ==
    desk' = [desk EXCEPT ![d] = [desk[d] EXCEPT !.pc = p, !.who = h, !.held = f]]

\* The request reads the holds it is about.
LEMMA FindSecured ==
    ASSUME HoldTypeOK, Secured, NEW d \in Desks,
           \/ FindRemoteHold(d) \/ FindArrivedHold(d) \/ FindHold(d) \/ FindNoHold(d)
           \/ FindOpenHold(d)
    PROVE  Secured'
<1>1. IsRequest(desk[d]) /\ UNCHANGED <<copy, transit, crossed>> /\ desk[d].op \in {"checkin", "checkout"}
  BY DeskFields DEF FindRemoteHold, FindArrivedHold, FindHold, FindNoHold, FindOpenHold,
                    Scanned, Unneeded, rows
<1>2. \E p, h, f : Continues(d, p, h, f)
  <2>1. ASSUME NEW p, NEW f, desk' = [desk EXCEPT ![d] = [desk[d] EXCEPT !.pc = p, !.held = f]]
        PROVE  Continues(d, p, desk[d].who, f)
    <3>1. [desk[d] EXCEPT !.pc = p, !.held = f]
             = [desk[d] EXCEPT !.pc = p, !.who = desk[d].who, !.held = f]
      BY <1>1 DEF IsRequest
    <3> QED  BY <2>1, <3>1 DEF Continues
  <2>2. CASE FindNoHold(d)
    BY <2>1, <2>2 DEF FindNoHold
  <2>3. CASE FindOpenHold(d)
    <3>1. PICK S : desk' = [desk EXCEPT ![d] = [desk[d] EXCEPT !.pc = "ready", !.held = Read(S)]]
      BY <2>3 DEF FindOpenHold
    <3> QED  BY <2>1, <3>1
  <2>4. CASE FindRemoteHold(d)
    BY <2>4 DEF FindRemoteHold, Continues
  <2>5. CASE FindArrivedHold(d)
    BY <2>5 DEF FindArrivedHold, Continues
  <2>6. CASE FindHold(d)
    <3>1. PICK h, S : GoesOn(d, "capture", h, S)
      BY <2>6 DEF FindHold, GoesOn
    <3> QED  BY <3>1 DEF Continues, GoesOn
  <2> QED  BY <2>2, <2>3, <2>4, <2>5, <2>6
<1>3. PICK p, h, f : Continues(d, p, h, f)
  BY <1>2
<1> DEFINE q == [desk[d] EXCEPT !.pc = p, !.who = h, !.held = f]
<1>4. /\ q.op = desk[d].op /\ q.via = desk[d].via /\ q.leg = desk[d].leg
      /\ q.copy = desk[d].copy /\ q.status = desk[d].status
  BY <1>1 DEF IsRequest
<1>5. desk' = [desk EXCEPT ![d] = q]
  BY <1>3 DEF Continues
<1> HIDE DEF q
<1>6. KnowsTransit(q) /\ ~Closes(q)
  BY <1>1, <1>4 DEF Secured, KnowsTransit, Closes
<1> QED  BY <1>1, <1>5, <1>6, ReadSecured

\* A request writes its transit.
LEMMA WriteLegGrows ==
    ASSUME HoldTypeOK, Secured, NEW d \in Desks, desk[d].via # 0,
           NEW l, l.state # "none", l.copy = desk[d].leg.copy, WriteLeg(desk[d].via, l)
    PROVE  /\ Grows /\ transit[desk[d].via].copy = desk[d].leg.copy
           /\ \A i \in TransitIds : transit'[i] = IF i = desk[d].via THEN l ELSE transit[i]
<1>1. \A i \in TransitIds : transit'[i] = IF i = desk[d].via THEN l ELSE transit[i]
  BY DEF WriteLeg, HoldTypeOK
<1>2. transit[desk[d].via].copy = desk[d].leg.copy
  BY DEF Secured, KnowsTransit
<1> QED  BY <1>1, <1>2 DEF Grows

\* A cancel leaves its transit open if it read it so.
LEMMA CancelSecured ==
    ASSUME HoldTypeOK, Secured, NEW d \in Desks, CommitCancel(d)
    PROVE  Secured'
<1> DEFINE q == desk[d]
<1>1. CASE q.via = 0
  BY <1>1, FinishSecured DEF CommitCancel
<1>2. CASE q.via # 0
  <2> DEFINE l == [q.leg EXCEPT !.to = "available"]
  <2>1. l.state = q.leg.state /\ l.copy = q.leg.copy /\ q.leg.state # "none"
    <3>1. q.leg \in Leg
      BY <1>2, ViaType
    <3> QED  BY <3>1 DEF Leg
  <2>2. /\ q.op = "cancel" /\ WriteLeg(q.via, l) /\ UNCHANGED <<copy, crossed>>
        /\ desk' = [desk EXCEPT ![d] = IdleDesk] /\ IdleDesk.via = 0
    BY <1>2 DEF CommitCancel, Finish, IdleDesk
  <2> HIDE DEF l
  <2>3. /\ Grows /\ transit[q.via].copy = q.leg.copy
        /\ \A i \in TransitIds : transit'[i] = IF i = q.via THEN l ELSE transit[i]
    BY <1>2, <2>1, <2>2, WriteLegGrows
  <2>4. ASSUME NEW c \in Copies, copy'[c] = "in_transit" PROVE Keeps(d, c)
    BY <2>1, <2>2, <2>3, <2>4 DEF Keeps, OnTheWay, Closes
  <2> QED  BY <2>2, <2>3, <2>4, CommitSecured
<1> QED  BY <1>1, <1>2

\* A reset ends a transit of its own copy, and marks the copy; or it crosses.
LEMMA ResetSecured ==
    ASSUME HoldTypeOK, Secured, NEW d \in Desks, CommitReset(d)
    PROVE  Secured'
<1> DEFINE q == desk[d]
<1>1. q.op = "reset" /\ desk' = [desk EXCEPT ![d] = IdleDesk] /\ IdleDesk.via = 0
  BY DEF CommitReset, Finish, IdleDesk
<1>2. CASE q.via = 0
  <2>1. /\ UNCHANGED transit /\ crossed \subseteq crossed'
        /\ copy' = copy \/ copy' = [copy EXCEPT ![q.copy] = "available"]
    BY <1>2 DEF CommitReset
  <2>2. ASSUME NEW c \in Copies, copy'[c] = "in_transit" PROVE Keeps(d, c)
    BY <2>1, <2>2 DEF Keeps, OnTheWay, HoldTypeOK
  <2>3. Grows
    BY <2>1 DEF Grows
  <2> QED  BY <1>1, <2>1, <2>2, <2>3, CommitSecured
<1>3. CASE q.via # 0
  <2> DEFINE l == [q.leg EXCEPT !.state = "cancelled"]
  <2>1. l.state = "cancelled" /\ l.copy = q.leg.copy
    <3>1. q.leg \in Leg
      BY <1>3, ViaType
    <3> QED  BY <3>1 DEF Leg
  <2>2. /\ WriteLeg(q.via, l) /\ crossed \subseteq crossed'
        /\ q.leg.copy # q.copy => q.leg.copy \in crossed'
        /\ copy' = [copy EXCEPT ![q.copy] = "canceled_transit"]
    BY <1>1, <1>3 DEF CommitReset, Secured, KnowsTransit
  <2> HIDE DEF l
  <2>3. /\ Grows /\ transit[q.via].copy = q.leg.copy
        /\ \A i \in TransitIds : transit'[i] = IF i = q.via THEN l ELSE transit[i]
    BY <1>3, <2>1, <2>2, WriteLegGrows
  <2>4. ASSUME NEW c \in Copies, copy'[c] = "in_transit" PROVE c \in crossed' \/ Keeps(d, c)
    <3>1. c # q.copy /\ copy[c] = "in_transit"
      BY <2>2, <2>4 DEF HoldTypeOK
    <3> QED  BY <2>2, <2>3, <3>1 DEF Keeps, OnTheWay
  <2> QED  BY <1>1, <2>2, <2>3, <2>4, CommitSecured
<1> QED  BY <1>2, <1>3

\* An abort ends a transit of its copy and marks the copy, unless it is not needed.
LEMMA AbortSecured ==
    ASSUME HoldTypeOK, Secured, NEW d \in Desks, CommitAbort(d)
    PROVE  Secured'
<1> DEFINE q == desk[d]
           l == [q.leg EXCEPT !.state = "cancelled"]
           n == IF q.leg.hold = NoHold THEN IdleDesk
                ELSE [IdleDesk EXCEPT !.op = "reset", !.pc = "scanned", !.who = q.leg.hold]
<1>1. /\ q.op = "abort" /\ desk' = [desk EXCEPT ![d] = n] /\ n.via = 0
      /\ WriteLeg(q.via, l) /\ UNCHANGED crossed
      /\ copy' = IF q.status = "in_transit" THEN [copy EXCEPT ![q.copy] = "canceled_transit"]
                 ELSE copy
  BY DEF CommitAbort, Finish, IdleDesk
<1>2. q.via # 0 /\ l.state = "cancelled" /\ l.copy = q.leg.copy /\ q.leg.copy = q.copy
  <2>1. q.via # 0
    BY <1>1, DeskFields
  <2>2. q.leg \in Leg
    BY <2>1, ViaType
  <2> QED  BY <1>1, <2>1, <2>2 DEF Leg, Secured, KnowsTransit
<1> HIDE DEF l, n
<1>3. /\ Grows /\ transit[q.via].copy = q.leg.copy
      /\ \A i \in TransitIds : transit'[i] = IF i = q.via THEN l ELSE transit[i]
  BY <1>1, <1>2, WriteLegGrows
<1>4. ASSUME NEW c \in Copies, copy'[c] = "in_transit" PROVE Keeps(d, c)
  <2>1. copy[c] = "in_transit" /\ (q.status = "in_transit" => c # q.copy)
    BY <1>1, <1>4 DEF HoldTypeOK
  <2> QED  BY <1>1, <1>2, <1>3, <2>1 DEF Keeps, OnTheWay, Closes
<1> QED  BY <1>1, <1>3, <1>4, CommitSecured

\* A check-in of a borrowed copy aborts the transit it has found.
LEMMA AbortForCircSecured ==
    ASSUME HoldTypeOK, Secured, NEW d \in Desks, AbortForCirc(d)
    PROVE  Secured'
<1> DEFINE q == desk[d]
           l == [transit[q.via] EXCEPT !.state = "cancelled"]
           n == [q EXCEPT !.via = 0, !.leg = IF @.hold = NoHold THEN NoLeg ELSE @]
<1>1. /\ q.op = "checkin" /\ q.via # 0 /\ WriteLeg(q.via, l) /\ UNCHANGED crossed
      /\ copy' = IF copy[q.copy] = "in_transit" THEN [copy EXCEPT ![q.copy] = "canceled_transit"]
                 ELSE copy
  BY DEF AbortForCirc, Scanned
<1>2. /\ IsRequest(q) /\ q.via \in TransitIds /\ transit[q.via].state # "none"
      /\ transit[q.via].copy = q.leg.copy /\ q.leg.copy = q.copy /\ q.copy \in Copies
  BY <1>1, DeskFields, ViaType DEF Secured, KnowsTransit
<1>3. desk' = [desk EXCEPT ![d] = n] /\ n.via = 0
  <2>1. desk' = [desk EXCEPT ![d] = n]
    BY DEF AbortForCirc, HoldTypeOK
  <2>2. n.via = 0
    BY <1>2 DEF IsRequest
  <2> QED  BY <2>1, <2>2
<1>4. l.state = "cancelled" /\ l.copy = q.leg.copy
  <2>1. transit[q.via] \in Leg
    BY <1>2 DEF HoldTypeOK, NoLeg
  <2> QED  BY <1>2, <2>1 DEF Leg
<1> HIDE DEF l, n
<1>5. /\ Grows
      /\ \A i \in TransitIds : transit'[i] = IF i = q.via THEN l ELSE transit[i]
  BY <1>1, <1>4, WriteLegGrows
<1>6. ASSUME NEW c \in Copies, copy'[c] = "in_transit" PROVE Keeps(d, c)
  <2>1. copy[c] = "in_transit" /\ c # q.copy
    BY <1>1, <1>2, <1>6 DEF HoldTypeOK
  <2> QED  BY <1>2, <1>5, <2>1 DEF Keeps, OnTheWay
<1> QED  BY <1>1, <1>3, <1>5, <1>6, CommitSecured

\* The reset that follows ends a transit of the hold's copy, and marks it; or it crosses.
LEMMA ResetForCircSecured ==
    ASSUME HoldTypeOK, Secured, NEW d \in Desks, ResetForCirc(d)
    PROVE  Secured'
<1> DEFINE q == desk[d]
           h == q.leg.hold
           b == IF hold[h].captured THEN hold[h].current ELSE NoCopy
           n == [q EXCEPT !.leg = NoLeg]
           S == IF b # NoCopy /\ copy[b] = "in_transit" THEN First(LegsOf(h)) ELSE {0}
<1>1. PICK i \in S :
         /\ IF i = 0 THEN UNCHANGED transit
            ELSE WriteLeg(i, [transit[i] EXCEPT !.state = "cancelled"])
         /\ copy' = IF i # 0 THEN [copy EXCEPT ![b] = "canceled_transit"]
                    ELSE IF b # NoCopy /\ copy[b] = "on_shelf" THEN [copy EXCEPT ![b] = "available"]
                    ELSE copy
         /\ crossed' = crossed \cup IF i # 0 /\ transit[i].copy # b THEN {transit[i].copy} ELSE {}
  BY DEF ResetForCirc
<1>2. i # 0 => i \in TransitIds /\ transit[i] \in Leg
  <2>1. i # 0 => i \in TransitIds /\ transit[i].state # "none"
    BY <1>1 DEF First, LegsOf
  <2> QED  BY <2>1 DEF HoldTypeOK, NoLeg
<1>3. desk' = [desk EXCEPT ![d] = n] /\ n.via = 0 /\ q.via = 0
  <2>1. IsRequest(q)
    BY DeskFields
  <2> QED  BY <2>1 DEF ResetForCirc, Resetting, HoldTypeOK, IsRequest
<1> HIDE DEF b, n, S
<1>4. \A j \in TransitIds :
         /\ transit'[j].copy = transit[j].copy
         /\ i # j => transit'[j] = transit[j]
         /\ transit[j].state # "none" => transit'[j].state # "none"
  <2>1. CASE i = 0
    BY <1>1, <2>1
  <2>2. CASE i # 0
    <3> DEFINE l == [transit[i] EXCEPT !.state = "cancelled"]
    <3>1. l.state = "cancelled" /\ l.copy = transit[i].copy
      BY <1>2, <2>2 DEF Leg
    <3>2. transit' = [transit EXCEPT ![i] = l]
      BY <1>1, <2>2 DEF WriteLeg
    <3> HIDE DEF l
    <3> QED  BY <1>2, <2>2, <3>1, <3>2 DEF HoldTypeOK
  <2> QED  BY <2>1, <2>2
<1>5. Grows
  BY <1>4 DEF Grows
<1>6. ASSUME NEW c \in Copies, copy'[c] = "in_transit" PROVE c \in crossed' \/ Keeps(d, c)
  <2>1. copy[c] = "in_transit" /\ (i # 0 => c # b)
    BY <1>1, <1>6 DEF HoldTypeOK
  <2>2. CASE i # 0 /\ transit[i].copy = c
    BY <1>1, <2>1, <2>2
  <2>3. CASE i = 0 \/ transit[i].copy # c
    <3>1. \A j \in OnTheWay(c) : j # i
      BY <2>3, RowsAssumption DEF OnTheWay, TransitIds
    <3>2. \A j \in OnTheWay(c) : transit'[j] = transit[j]
      BY <1>4, <3>1 DEF OnTheWay
    <3> QED  BY <2>1, <3>2 DEF Keeps, OnTheWay
  <2> QED  BY <2>2, <2>3
<1>7. crossed \subseteq crossed'
  BY <1>1
<1> QED  BY <1>3, <1>5, <1>6, <1>7, CommitSecured

\* What a check-in does to the transits when it receives its own.
LEMMA ReceivedFields ==
    ASSUME HoldTypeOK, Secured, NEW d \in Desks, desk[d].op = "checkin",
           NEW legs, legs \in {transit, Received(desk[d])}, NEW i \in TransitIds
    PROVE  /\ legs[i] = transit[i]
              \/ /\ i = desk[d].via /\ transit[i].copy = desk[d].copy /\ transit[i].state # "none"
                 /\ legs[i].copy = desk[d].copy /\ legs[i].state = "received"
           /\ legs \in [TransitIds -> Leg \cup {NoLeg}]
<1> DEFINE q == desk[d]
<1>1. legs \in [TransitIds -> Leg \cup {NoLeg}]
  BY ReceivedType DEF HoldTypeOK
<1>2. CASE q.via = 0 \/ legs = transit
  BY <1>1, <1>2 DEF Received
<1>3. CASE q.via # 0 /\ legs = Received(q)
  <2> DEFINE l == [q.leg EXCEPT !.state = "received"]
  <2>1. q.leg \in Leg /\ transit[q.via].copy = q.leg.copy /\ q.leg.copy = q.copy
        /\ transit[q.via].state # "none"
    BY <1>3, ViaType DEF Secured, KnowsTransit
  <2>2. l.state = "received" /\ l.copy = q.copy
    BY <2>1 DEF Leg
  <2>3. legs = [transit EXCEPT ![q.via] = l]
    BY <1>3 DEF Received
  <2> HIDE DEF l
  <2>4. legs[i] = IF i = q.via THEN l ELSE transit[i]
    BY <2>3 DEF HoldTypeOK
  <2> QED  BY <1>1, <2>1, <2>2, <2>4
<1> QED  BY <1>2, <1>3

\* A copy departs: with a new transit, which no request has read.
LEMMA DepartSecured ==
    ASSUME HoldTypeOK, Secured, NEW d \in Desks, desk[d].op = "checkin", Finish(d), UNCHANGED crossed,
           NEW legs, legs \in {transit, Received(desk[d])}, NEW h, NEW l, NEW s,
           Depart(desk[d], legs, h, l, s)
    PROVE  Secured'
<1> DEFINE q == desk[d]
           new == [state |-> "open", copy |-> q.copy, hold |-> h, dest |-> l, to |-> s]
<1>1. /\ new.state = "open" /\ new.copy = q.copy
      /\ desk' = [desk EXCEPT ![d] = IdleDesk] /\ IdleDesk.via = 0
  BY DEF Finish, IdleDesk
<1>2. PICK j \in TransitIds : legs[j].state = "none" /\ transit' = [legs EXCEPT ![j] = new]
  BY DEF Depart
<1>3. copy' = [copy EXCEPT ![q.copy] = "in_transit"]
  BY DEF Depart
<1> HIDE DEF new
<1>4. \A i \in TransitIds : transit'[i] = IF i = j THEN new ELSE legs[i]
  BY <1>2, ReceivedFields
<1>5. transit[j].state = "none"
  BY <1>2, ReceivedFields
<1>6. Grows
  BY <1>4, <1>5, ReceivedFields DEF Grows
<1>7. Departs(q.copy)
  BY <1>1, <1>4, <1>5 DEF Departs
<1>8. ASSUME NEW c \in Copies, c # q.copy, copy'[c] = "in_transit" PROVE Keeps(d, c)
  <2>1. copy[c] = "in_transit"
    BY <1>3, <1>8 DEF HoldTypeOK
  <2>2. ASSUME NEW i \in OnTheWay(c) PROVE transit'[i] = transit[i]
    <3>1. i \in TransitIds /\ transit[i].state = "open" /\ transit[i].copy = c
      BY DEF OnTheWay
    <3>2. legs[i] = transit[i]
      BY <1>8, <3>1, ReceivedFields
    <3> QED  BY <1>4, <1>5, <3>1, <3>2
  <2> QED  BY <2>1, <2>2 DEF Keeps, OnTheWay
<1> QED  BY <1>1, <1>6, <1>7, <1>8, CommitSecured

\* A copy arrives: its transit is received, and it is in transit no more.
LEMMA ArriveSecured ==
    ASSUME HoldTypeOK, Secured, NEW d \in Desks, desk[d].op = "checkin", Finish(d), UNCHANGED crossed,
           transit' = Received(desk[d]), NEW s, s # "in_transit",
           \/ copy' = [copy EXCEPT ![desk[d].copy] = s]
           \/ UNCHANGED copy /\ desk[d].status = "available"
    PROVE  Secured'
<1> DEFINE q == desk[d]
<1>1. desk' = [desk EXCEPT ![d] = IdleDesk] /\ IdleDesk.via = 0
  BY DEF Finish, IdleDesk
<1>2. Grows
  BY ReceivedFields DEF Grows
<1>3. ASSUME NEW c \in Copies, copy'[c] = "in_transit" PROVE Keeps(d, c)
  <2>1. copy[c] = "in_transit" /\ (c # q.copy \/ q.via = 0)
    BY <1>3 DEF HoldTypeOK, Secured, KnowsTransit
  <2>2. ASSUME NEW i \in OnTheWay(c) PROVE transit'[i] = transit[i]
    <3>1. i \in TransitIds /\ transit[i].copy = c /\ i # 0
      BY RowsAssumption DEF OnTheWay, TransitIds
    <3> QED  BY <2>1, <3>1, ReceivedFields
  <2> QED  BY <2>1, <2>2 DEF Keeps, OnTheWay
<1> QED  BY <1>1, <1>2, <1>3, CommitSecured

\* The steps of a check-in.
LEMMA CheckinSecured ==
    ASSUME HoldTypeOK, Secured, NEW d \in Desks, Checkin(d)
    PROVE  Secured'
<1> DEFINE q == desk[d]
<1>1. q.pc \in {"forward", "arrive", "capture", "shelve"} => q.op = "checkin"
  BY DeskFields
<1>2. CASE NothingToDo(d)
  BY <1>2, FinishSecured DEF NothingToDo, rows
<1>3. CASE CommitForward(d)
  BY <1>1, <1>3, DepartSecured DEF CommitForward
<1>4. CASE CommitArrive(d)
  <2>1. q.leg.to # "in_transit"
    BY DeskFields DEF Leg, NoLeg
  <2> QED  BY <1>1, <1>4, <2>1, ArriveSecured DEF CommitArrive
<1>5. CASE CommitCapture(d)
  <2>1. q.op = "checkin" /\ Finish(d) /\ UNCHANGED crossed
    BY <1>1, <1>5 DEF CommitCapture
  <2>2. CASE PickupLib[q.who] = q.lib
    BY <1>5, <2>1, <2>2, ArriveSecured DEF CommitCapture
  <2>3. CASE PickupLib[q.who] # q.lib
    BY <1>5, <2>1, <2>3, DepartSecured DEF CommitCapture
  <2> QED  BY <2>2, <2>3
<1>6. CASE CommitShelve(d)
  <2>1. q.op = "checkin" /\ Finish(d) /\ UNCHANGED crossed
    BY <1>1, <1>6 DEF CommitShelve
  <2>2. CASE HomeLib[q.copy] # q.lib
    BY <1>6, <2>1, <2>2, DepartSecured DEF CommitShelve
  <2>3. CASE HomeLib[q.copy] = q.lib
    <3>1. transit' = Received(q)
      BY <1>6, <2>3 DEF CommitShelve
    <3>2. \/ UNCHANGED copy /\ q.status = "available"
          \/ copy' = [copy EXCEPT ![q.copy] = "available"]
      BY <1>6, <2>3 DEF CommitShelve
    <3>3. "available" # "in_transit"
      OBVIOUS
    <3> QED  BY <2>1, <3>1, <3>2, <3>3, ArriveSecured
  <2> QED  BY <2>2, <2>3
<1> QED  BY <1>2, <1>3, <1>4, <1>5, <1>6, ScanSecured, FindSecured, AbortForCircSecured,
            ResetForCircSecured DEF Checkin

\* A borrowed copy is not in transit.
LEMMA CheckoutSecured ==
    ASSUME HoldTypeOK, Secured, NEW d \in Desks, CommitCheckout(d)
    PROVE  Secured'
<1>1. /\ desk' = [desk EXCEPT ![d] = IdleDesk] /\ IdleDesk.via = 0 /\ UNCHANGED <<transit, crossed>>
      /\ copy' = [copy EXCEPT ![desk[d].copy] = "checked_out"]
  BY DEF CommitCheckout, Finish, IdleDesk
<1>2. Grows
  BY <1>1 DEF Grows
<1>3. ASSUME NEW c \in Copies, copy'[c] = "in_transit" PROVE Keeps(d, c)
  BY <1>1, <1>3 DEF Keeps, OnTheWay, HoldTypeOK
<1> QED  BY <1>1, <1>2, <1>3, CommitSecured

\* Every step keeps a transit open for each copy that is in transit.
LEMMA StepSecured ==
    ASSUME HoldTypeOK, Secured, [Next]_vars
    PROVE  Secured'
<1>1. ASSUME UNCHANGED <<copy, transit, desk, crossed>> PROVE Secured'
  BY <1>1 DEF Secured, Secure, OnTheWay, KnowsTransit, Closes
<1>2. ASSUME NEW t \in Targeters, Target(t) PROVE Secured'
  <2>1. UNCHANGED <<copy, transit, desk, crossed>>
    BY <1>2 DEF Target, TargetRead, TargetAsked, TargetChoose, TargetWrite, TargetCancel, TargetExit,
                WriteColumns, rows
  <2> QED  BY <1>1, <2>1
<1>3. ASSUME NEW d \in Desks, HoldRequest(d) PROVE Secured'
  <2>1. CASE CommitUncancel(d) \/ CommitFreeze(d)
    BY <2>1, FinishSecured DEF CommitUncancel, CommitFreeze
  <2> QED  BY <1>3, <2>1, BeginSecured, BeginAbortSecured, ReadResetSecured, CancelSecured,
              ResetSecured, AbortSecured DEF HoldRequest
<1>4. ASSUME NEW d \in Desks, Checkout(d) PROVE Secured'
  BY <1>4, ScanSecured, FindSecured, CheckoutSecured DEF Checkout
<1>5. ASSUME NEW d \in Desks, Bail(d) PROVE Secured'
  BY <1>5, FinishSecured DEF Bail, rows
<1>6. CASE UNCHANGED vars
  BY <1>1, <1>6 DEF vars
<1> QED  BY <1>2, <1>3, <1>4, <1>5, <1>6, CheckinSecured DEF Next

\* The invariant in two parts.
LEMMA TransitInvParts == TransitInv <=> HoldTypeOK /\ Secured
BY DEF TransitInv, Secured, Secure

\* What requests know of their transits holds in every state, and an open transit
\* of each copy in transit stays open until the copy's status changes with it.
THEOREM TransitsKnown == Spec => []TransitInv
<1>1. Init => TransitInv
  <2> SUFFICES ASSUME Init PROVE HoldTypeOK /\ Secured
    BY TransitInvParts
  <2>1. Secured
    BY DEF Init, Secured, KnowsTransit, IdleDesk
  <2> QED  BY <2>1, InitType
<1>2. TransitInv /\ [Next]_vars => TransitInv'
  <2> SUFFICES ASSUME TransitInv, [Next]_vars PROVE TransitInv'
    OBVIOUS
  <2>1. HoldTypeOK /\ Secured
    BY TransitInvParts
  <2>2. HoldTypeOK' /\ Secured'
    BY <2>1, StepType, StepSecured
  <2> QED  BY <2>2 DEF TransitInv, Secured, Secure
<1> QED  BY <1>1, <1>2, PTL DEF Spec

\* Every variable keeps its type, and a transaction has read what its next step
\* writes.
THEOREM TypeCorrect == Spec => []HoldTypeOK
<1>1. TransitInv => HoldTypeOK
  BY DEF TransitInv
<1> QED  BY <1>1, TransitsKnown, PTL

\* No abort, cancel, check-in or checkout, working from rows it read earlier,
\* leaves a copy in transit without an open transit: only a crossing reset does.
THEOREM TransitsOpen == Spec => []InTransitHasTransit
<1>1. TransitInv => InTransitHasTransit
  BY DEF TransitInv, InTransitHasTransit
<1> QED  BY <1>1, TransitsKnown, PTL

-----------------------------------------------------------------------------
(* The rows of suspended and of filled holds.                              *)

\* The changes that are made to rows leave them sound.
LEMMA RowsSoundAfter ==
    ASSUME NEW h, NEW r \in Row, Sound(h, r)
    PROVE  /\ Sound(h, [r EXCEPT !.cancelled = TRUE]) /\ Sound(h, Untargeted(r))
           /\ Sound(h, [Untargeted(r) EXCEPT !.cancelled = FALSE])
           /\ Sound(h, [r EXCEPT !.frozen = FALSE])
           /\ ~(r.fulfilled /\ r.captured) => Sound(h, [r EXCEPT !.frozen = TRUE, !.current = NoCopy])
           /\ ~r.captured => Sound(h, [r EXCEPT !.current = NoCopy])
           /\ \A l : Sound(h, [r EXCEPT !.shelf = l])
           /\ \A c : ~r.frozen /\ ~r.captured => Sound(h, [r EXCEPT !.current = c])
           /\ \A c, l : Sound(h, [r EXCEPT !.current = c, !.captured = TRUE, !.cancelled = FALSE,
                                        !.fulfilled = FALSE, !.shelf = l])
           /\ \A c \in Copies : Sound(h, [r EXCEPT !.current = c, !.captured = TRUE, !.fulfilled = TRUE])
BY NullsAssumption DEF Sound, Untargeted, Waiting, Open, Row

\* Rows written back.
LEMMA WriteSound ==
    ASSUME RowsInv, NEW f, WriteHolds(f), \A h \in DOMAIN f : Sound(h, f[h])
    PROVE  \A h \in Holds : Sound(h, hold'[h])
<1>1. hold' = [h \in Holds |-> IF h \in DOMAIN f THEN f[h] ELSE hold[h]]
  BY DEF WriteHolds
<1> QED  BY <1>1 DEF RowsInv

\* Rows of which one is changed.
LEMMA ExceptSound ==
    ASSUME NEW f, \A h \in DOMAIN f : Sound(h, f[h]), NEW k, NEW r, k \in DOMAIN f => Sound(k, r)
    PROVE  \A h \in DOMAIN [f EXCEPT ![k] = r] : Sound(h, [f EXCEPT ![k] = r][h])
<1> DEFINE g == [f EXCEPT ![k] = r]
<1>1. DOMAIN g = DOMAIN f /\ \A h \in DOMAIN f : g[h] = IF h = k THEN r ELSE f[h]
  OBVIOUS
<1> HIDE DEF g
<1>2. \A h \in DOMAIN g : Sound(h, g[h])
  BY <1>1
<1> QED  BY <1>2 DEF g

\* A desk takes up a request with rows that were read before, or goes on.
LEMMA DeskSound ==
    ASSUME HoldTypeOK, RowsInv, NEW d \in Desks, NEW q, desk' = [desk EXCEPT ![d] = q],
           Writable(q), overtaken \subseteq overtaken', \A h \in Holds : Sound(h, hold'[h])
    PROVE  RowsInv'
<1>1. \A e \in Desks : desk'[e] = IF e = d THEN q ELSE desk[e]
  BY DEF HoldTypeOK
<1>2. \A e \in Desks : Writable(desk'[e])
  BY <1>1 DEF RowsInv
<1>3. (\A e \in Desks : Writable(desk[e]))'
  BY <1>2 DEF Writable, Sound
<1>4. (\A h \in Holds : Sound(h, hold[h]))'
  BY DEF Sound
<1> QED  BY <1>3, <1>4 DEF RowsInv

\* A desk that reads holds.
LEMMA ReadSound ==
    ASSUME HoldTypeOK, HoldTypeOK', RowsInv, NEW d \in Desks, NEW q,
           desk' = [desk EXCEPT ![d] = q], NEW S, q.held = Read(S), UNCHANGED <<hold, overtaken>>,
           q.op = "freeze" => \A h \in S : ~(hold[h].fulfilled /\ hold[h].captured)
    PROVE  RowsInv'
<1>1. desk'[d] = q /\ IsRequest(desk'[d])
  <2>1. IsRequest(desk[d])'
    BY DEF HoldTypeOK
  <2> QED  BY <2>1 DEF HoldTypeOK, IsRequest
<1>2. DOMAIN q.held \subseteq Holds
  BY <1>1 DEF IsRequest
<1>3. Writable(q)
  BY <1>2 DEF Read, RowsInv, Writable
<1>4. \A h \in Holds : Sound(h, hold'[h])
  BY DEF RowsInv
<1> QED  BY <1>3, <1>4, DeskSound

\* A desk that is done, or goes on without the rows of holds.
LEMMA FinishSound ==
    ASSUME HoldTypeOK, RowsInv, NEW d \in Desks, NEW q, desk' = [desk EXCEPT ![d] = q],
           q.held = IdleDesk.held, overtaken \subseteq overtaken', \A h \in Holds : Sound(h, hold'[h])
    PROVE  RowsInv'
<1>1. DOMAIN q.held = {}
  BY DEF IdleDesk
<1> QED  BY <1>1, DeskSound DEF Writable

\* A targeter writes into a hold that is to be targeted, or overtakes a request.
LEMMA TargetSound ==
    ASSUME HoldTypeOK, RowsInv, NEW t \in Targeters, Target(t)
    PROVE  RowsInv'
<1>1. UNCHANGED desk
  BY DEF Target, TargetRead, TargetAsked, TargetChoose, TargetWrite, TargetCancel, TargetExit,
         WriteColumns
<1>2. ASSUME (\A h \in Holds : Sound(h, hold[h]))', overtaken \subseteq overtaken' PROVE RowsInv'
  <2>1. (\A v \in Desks : Writable(desk[v]))'
    BY <1>1, <1>2 DEF RowsInv, Writable, Sound, HoldTypeOK, IsRequest
  <2>2. (\A h \in Holds : Sound(h, hold[h]))'
    BY <1>2
  <2> QED  BY <2>1, <2>2 DEF RowsInv
<1>3. ASSUME NEW r, tgt[t].hold \in Holds, WriteColumns(t, r),
             hold[tgt[t].hold].frozen \/ hold[tgt[t].hold].captured \/ Sound(tgt[t].hold, r)
      PROVE  RowsInv'
  <2> DEFINE k == tgt[t].hold
  <2>1. /\ WriteHolds([h \in {k} |-> r])
        /\ overtaken' = overtaken \cup IF ToBeTargeted(k) THEN {} ELSE {k}
    BY <1>3 DEF WriteColumns
  <2>2. \A h \in Holds : hold'[h] = IF h = k THEN r ELSE hold[h]
    BY <2>1 DEF WriteHolds
  <2>3. k \in overtaken' \/ Sound(k, r)
    BY <1>3, <2>1 DEF ToBeTargeted, Waiting
  <2> HIDE DEF k
  <2>4. \A h \in Holds : h \in overtaken' \/ Sound(h, hold'[h])
    BY <2>2, <2>3 DEF RowsInv
  <2>5. overtaken \subseteq overtaken'
    BY <2>1
  <2>6. (\A h \in Holds : Sound(h, hold[h]))'
    BY <2>4, <2>5 DEF Sound
  <2> QED  BY <1>2, <2>5, <2>6
<1>4. tgt[t].pc # "idle" => tgt[t].hold \in Holds /\ hold[tgt[t].hold] \in Row
  <2>1. tgt[t] \in Targeter
    BY DEF HoldTypeOK
  <2> QED  BY <2>1 DEF Targeter, IdleTargeter, HoldTypeOK
<1>5. CASE UNCHANGED <<hold, overtaken>>
  <2>1. (\A h \in Holds : Sound(h, hold[h]))'
    BY <1>5 DEF RowsInv, Sound
  <2> QED  BY <1>2, <1>5, <2>1
<1>6. CASE TargetWrite(t)
  <2>1. PICK c : WriteColumns(t, [hold[tgt[t].hold] EXCEPT !.current = c])
    BY <1>6 DEF TargetWrite
  <2>2. tgt[t].hold \in Holds /\ hold[tgt[t].hold] \in Row /\ Sound(tgt[t].hold, hold[tgt[t].hold])
    BY <1>4, <1>6 DEF TargetWrite, RowsInv
  <2>3. hold[tgt[t].hold].frozen \/ hold[tgt[t].hold].captured
        \/ Sound(tgt[t].hold, [hold[tgt[t].hold] EXCEPT !.current = c])
    BY <2>2, RowsSoundAfter
  <2> QED  BY <1>3, <2>1, <2>2, <2>3
<1>7. CASE TargetCancel(t)
  <2>1. PICK c : WriteColumns(t, [hold[tgt[t].hold] EXCEPT !.cancelled = TRUE, !.current = c])
    BY <1>7 DEF TargetCancel
  <2>2. tgt[t].hold \in Holds /\ hold[tgt[t].hold] \in Row
    BY <1>4, <1>7 DEF TargetCancel
  <2>3. hold[tgt[t].hold].frozen \/ hold[tgt[t].hold].captured
        \/ Sound(tgt[t].hold, [hold[tgt[t].hold] EXCEPT !.cancelled = TRUE, !.current = c])
    BY <2>2 DEF Sound, Waiting, Open, Row
  <2> QED  BY <1>3, <2>1, <2>2, <2>3
<1> QED  BY <1>5, <1>6, <1>7 DEF Target, TargetRead, TargetAsked, TargetChoose, TargetExit, rows, marks

\* A desk that begins a request, or reads the holds it is about.
LEMMA RequestSound ==
    ASSUME HoldTypeOK, HoldTypeOK', RowsInv, NEW d \in Desks,
           \/ \E h \in Holds : \/ BeginCancel(d, h) \/ BeginUncancel(d, h) \/ BeginFreeze(d, h)
                              \/ BeginThaw(d, h) \/ BeginReset(d, h)
           \/ \E i \in TransitIds : BeginAbort(d, i)
           \/ ReadReset(d)
           \/ \E c \in Copies, l \in Libs : ScanIn(d, c, l)
           \/ \E c \in Copies, w \in Holds \cup {NoHold} : ScanOut(d, c, w)
           \/ FindRemoteHold(d) \/ FindArrivedHold(d) \/ FindHold(d) \/ FindNoHold(d)
           \/ FindOpenHold(d)
    PROVE  RowsInv'
<1>1. ASSUME NEW q, Serve(d, q), NEW S, q.held = Read(S),
             q.op = "freeze" => \A h \in S : ~(hold[h].fulfilled /\ hold[h].captured)
      PROVE  RowsInv'
  BY <1>1, ReadSound DEF Serve, rows, marks
<1>2. ASSUME NEW q, Serve(d, q), q.held = IdleDesk.held PROVE RowsInv'
  <2>1. \A h \in Holds : Sound(h, hold'[h])
    BY <1>2 DEF Serve, rows, RowsInv
  <2> QED  BY <1>2, <2>1, FinishSound DEF Serve, marks
<1>3. ASSUME NEW q, desk' = [desk EXCEPT ![d] = q], NEW S, q.held = Read(S), UNCHANGED <<rows, marks>>,
             q.op # "freeze"
      PROVE  RowsInv'
  BY <1>3, ReadSound DEF rows, marks
<1>4. ASSUME NEW h \in Holds, BeginCancel(d, h) PROVE RowsInv'
  <2>1. PICK i : Serve(d, ReadyLeg("cancel", h, i))
    BY <1>4 DEF BeginCancel, ReadyLeg
  <2>2. ReadyLeg("cancel", h, i).held = Read({h}) /\ ReadyLeg("cancel", h, i).op = "cancel"
    BY DEF ReadyLeg, IdleDesk
  <2> QED  BY <1>1, <2>1, <2>2
<1>5. ASSUME NEW h \in Holds, BeginUncancel(d, h) \/ BeginFreeze(d, h) \/ BeginThaw(d, h)
      PROVE  RowsInv'
  <2>1. PICK op : /\ Serve(d, Ready(op, h))
                  /\ op = "freeze" => ~(hold[h].fulfilled /\ hold[h].captured)
    <3>1. CASE BeginUncancel(d, h)
      BY <3>1 DEF BeginUncancel, Ready
    <3>2. CASE BeginFreeze(d, h)
      <4>1. Serve(d, Ready("freeze", h)) /\ ~(hold[h].fulfilled /\ hold[h].captured)
        BY <3>2 DEF BeginFreeze, MayFreeze, Ready
      <4> QED  BY SMTT(30), <4>1
    <3>3. CASE BeginThaw(d, h)
      <4>1. Serve(d, Ready("thaw", h))
        BY <3>3 DEF BeginThaw, Ready
      <4>2. "thaw" # "freeze"
        OBVIOUS
      <4> QED  BY <4>1, <4>2
    <3> QED  BY <1>5, <3>1, <3>2, <3>3
  <2>2. Ready(op, h).held = Read({h}) /\ Ready(op, h).op = op
    BY DEF Ready, IdleDesk
  <2> QED  BY <1>1, <2>1, <2>2
<1>6. ASSUME NEW h \in Holds, BeginReset(d, h) PROVE RowsInv'
  BY <1>2, <1>6 DEF BeginReset, IdleDesk
<1>7. ASSUME NEW i \in TransitIds, BeginAbort(d, i) PROVE RowsInv'
  BY <1>2, <1>7 DEF BeginAbort, IdleDesk
<1>8. ASSUME NEW c \in Copies, NEW l \in Libs, ScanIn(d, c, l) PROVE RowsInv'
  BY <1>2, <1>8 DEF ScanIn, IdleDesk
<1>9. ASSUME NEW c \in Copies, NEW w \in Holds \cup {NoHold}, ScanOut(d, c, w) PROVE RowsInv'
  BY <1>2, <1>9 DEF ScanOut, IdleDesk
<1>10. IsRequest(desk[d])
  BY DeskFields
<1>11. CASE ReadReset(d)
  <2> DEFINE r == hold[desk[d].who]
             has == r.captured /\ r.current # NoCopy
             moving == has /\ copy[r.current] = "in_transit"
             q(i) == [desk[d] EXCEPT !.pc = "ready", !.copy = IF has THEN r.current ELSE NoCopy,
                            !.status = IF has THEN copy[r.current] ELSE "available",
                            !.via = i, !.leg = LegAt(i), !.held = Read({desk[d].who})]
  <2>1. PICK i \in IF moving THEN First(LegsOf(desk[d].who)) ELSE {0} :
           desk' = [desk EXCEPT ![d] = q(i)]
    BY <1>11 DEF ReadReset
  <2>2. q(i).held = Read({desk[d].who}) /\ q(i).op = "reset"
    BY ZenonT(30), <1>10, <1>11 DEF IsRequest, ReadReset
  <2>3. UNCHANGED <<rows, marks>>
    BY <1>11 DEF ReadReset
  <2> HIDE DEF q
  <2> QED  BY ZenonT(30), <1>3, <2>1, <2>2, <2>3
<1>12. ASSUME NEW p, NEW h, NEW S, Continues(d, p, h, Read(S)), UNCHANGED <<rows, marks>>,
              desk[d].op # "freeze"
       PROVE  RowsInv'
  <2> DEFINE q == [desk[d] EXCEPT !.pc = p, !.who = h, !.held = Read(S)]
  <2>1. desk' = [desk EXCEPT ![d] = q] /\ q.held = Read(S) /\ q.op # "freeze"
    BY <1>10, <1>12 DEF IsRequest, Continues
  <2> HIDE DEF q
  <2> QED  BY <1>3, <1>12, <2>1
<1>13. ASSUME NEW p, NEW S, UNCHANGED <<rows, marks>>, desk[d].op # "freeze",
              desk' = [desk EXCEPT ![d] = [desk[d] EXCEPT !.pc = p, !.held = Read(S)]]
       PROVE  RowsInv'
  <2>1. [desk[d] EXCEPT !.pc = p, !.held = Read(S)]
           = [desk[d] EXCEPT !.pc = p, !.who = desk[d].who, !.held = Read(S)]
    BY <1>10 DEF IsRequest
  <2> QED  BY <1>12, <1>13, <2>1 DEF Continues
<1>20. Scanned(d) => desk[d].op # "freeze"
  BY DEF Scanned
<1>14. CASE FindRemoteHold(d)
  <2>1. UNCHANGED <<rows, marks>> /\ \E h : Continues(d, "forward", h, Read({h}))
    BY <1>14 DEF FindRemoteHold, Continues
  <2> QED  BY <1>12, <1>14, <1>20, <2>1 DEF FindRemoteHold
<1>15. CASE FindArrivedHold(d)
  <2>1. UNCHANGED <<rows, marks>> /\ \E h : Continues(d, "arrive", h, Read({h}))
    BY <1>15 DEF FindArrivedHold, Continues
  <2> QED  BY <1>12, <1>15, <1>20, <2>1 DEF FindArrivedHold
<1>16. CASE FindHold(d)
  <2>1. UNCHANGED <<rows, marks>> /\ \E h, S : GoesOn(d, "capture", h, S)
    BY <1>16 DEF FindHold, GoesOn
  <2>2. desk[d].op # "freeze"
    BY <1>16, <1>20 DEF FindHold, Unneeded
  <2> QED  BY <1>12, <2>1, <2>2 DEF GoesOn, Continues
<1>17. CASE FindNoHold(d)
  BY <1>13, <1>17, <1>20 DEF FindNoHold, Unneeded
<1>18. CASE FindOpenHold(d)
  <2>1. PICK S : desk' = [desk EXCEPT ![d] = [desk[d] EXCEPT !.pc = "ready", !.held = Read(S)]]
    BY <1>18 DEF FindOpenHold
  <2>2. UNCHANGED <<rows, marks>> /\ desk[d].op # "freeze"
    BY <1>18 DEF FindOpenHold
  <2> QED  BY <1>13, <2>1, <2>2
<1> QED  BY <1>4, <1>5, <1>6, <1>7, <1>8, <1>9, <1>11, <1>14, <1>15, <1>16, <1>17, <1>18

\* A check-in writes the rows of the holds it has read.
LEMMA SettledSound ==
    ASSUME HoldTypeOK, RowsInv, NEW d \in Desks
    PROVE  /\ \A h \in DOMAIN Settled(desk[d]) : Sound(h, Settled(desk[d])[h])
           /\ \A h \in DOMAIN Captured(desk[d]) : Sound(h, Captured(desk[d])[h])
<1> DEFINE q == desk[d]
<1>1. Held(q.held) /\ Held(Settled(q)) /\ DOMAIN Settled(q) = DOMAIN q.held
  BY DeskFields, SettledType
<1>2. ASSUME NEW h \in DOMAIN q.held PROVE Sound(h, Settled(q)[h]) /\ Settled(q)[h] \in Row
  <2>1. q.held[h] \in Row /\ Sound(h, q.held[h])
    BY <1>1 DEF Held, RowsInv, Writable
  <2>2. Settled(q)[h] \in {q.held[h], [q.held[h] EXCEPT !.shelf = q.lib]}
    BY DEF Settled
  <2>3. Settled(q)[h] \in Row
    BY SMTT(30), <1>1 DEF Held
  <2>4. Sound(h, [q.held[h] EXCEPT !.shelf = q.lib])
    BY <2>1, RowsSoundAfter
  <2> QED  BY <2>1, <2>2, <2>3, <2>4
<1>3. ASSUME NEW h \in DOMAIN q.held PROVE Sound(h, Captured(q)[h])
  <2>1. CASE h = q.who
    <3>1. PICK l : Captured(q)[h] = [Settled(q)[h] EXCEPT !.current = q.copy, !.captured = TRUE,
                                        !.cancelled = FALSE, !.fulfilled = FALSE, !.shelf = l]
      <4> DEFINE l == IF PickupLib[h] = q.lib THEN q.lib ELSE Settled(q)[h].shelf
      <4>1. Captured(q)[h] = [Settled(q)[h] EXCEPT !.current = q.copy, !.captured = TRUE,
                                 !.cancelled = FALSE, !.fulfilled = FALSE, !.shelf = l]
        BY <1>2, <2>1 DEF Captured
      <4> QED  BY <4>1
    <3>2. Sound(h, [Settled(q)[h] EXCEPT !.current = q.copy, !.captured = TRUE,
                                          !.cancelled = FALSE, !.fulfilled = FALSE, !.shelf = l])
      BY ZenonT(30), <1>2, RowsSoundAfter
    <3> QED  BY <3>1, <3>2
  <2>2. CASE h # q.who
    <3>1. \/ Captured(q)[h] = Settled(q)[h]
          \/ ~q.held[h].captured /\ Captured(q)[h] = [Settled(q)[h] EXCEPT !.current = NoCopy]
      BY <2>2 DEF Captured, Losing
    <3>2. Settled(q)[h].captured = q.held[h].captured
      BY SMTT(30), <1>1 DEF Held, Row, Settled
    <3>3. ~Settled(q)[h].captured => Sound(h, [Settled(q)[h] EXCEPT !.current = NoCopy])
      BY <1>2, RowsSoundAfter
    <3> QED  BY <1>2, <3>1, <3>2, <3>3
  <2> QED  BY <2>1, <2>2
<1>4. DOMAIN Captured(q) = DOMAIN q.held
  BY DEF Captured
<1> QED  BY <1>1, <1>2, <1>3, <1>4

\* A request that writes.
LEMMA WritesSound ==
    ASSUME HoldTypeOK, RowsInv, NEW d \in Desks,
           \/ CommitCancel(d) \/ CommitUncancel(d) \/ CommitFreeze(d) \/ CommitReset(d)
           \/ CommitForward(d) \/ CommitArrive(d) \/ CommitCapture(d) \/ CommitShelve(d)
           \/ CommitCheckout(d)
    PROVE  RowsInv'
<1> DEFINE q == desk[d]
<1>1. /\ Held(q.held) /\ \A h \in DOMAIN q.held : q.held[h] \in Row /\ Sound(h, q.held[h])
  BY SMTT(30), DeskFields DEF Held, RowsInv, Writable
<1>2. desk' = [desk EXCEPT ![d] = IdleDesk] /\ UNCHANGED overtaken
  BY DEF CommitCancel, CommitUncancel, CommitFreeze, CommitReset, CommitForward, CommitArrive,
         CommitCapture, CommitShelve, CommitCheckout, Finish, marks
<1>3. ASSUME NEW f, WriteHolds(f), \A h \in DOMAIN f : Sound(h, f[h]) PROVE RowsInv'
  <2>1. \A h \in Holds : Sound(h, hold'[h])
    BY <1>3, WriteSound
  <2> QED  BY <1>2, <2>1, FinishSound
<1>4. ASSUME NEW r, q.who \in DOMAIN q.held => Sound(q.who, r), WriteHolds([q.held EXCEPT ![q.who] = r])
      PROVE  RowsInv'
  <2>1. \A h \in DOMAIN [q.held EXCEPT ![q.who] = r] : Sound(h, [q.held EXCEPT ![q.who] = r][h])
    BY <1>1, <1>4, ExceptSound
  <2> QED  BY <1>3, <1>4, <2>1
<1>5. CASE CommitCancel(d)
  <2> DEFINE r == [q.held[q.who] EXCEPT !.cancelled = TRUE]
  <2>1. WriteHolds([q.held EXCEPT ![q.who] = r]) /\ (q.who \in DOMAIN q.held => Sound(q.who, r))
    BY ZenonT(30), <1>1, <1>5, RowsSoundAfter DEF CommitCancel
  <2> HIDE DEF r
  <2> QED  BY SMTT(30), <1>4, <2>1
<1>6. CASE CommitUncancel(d)
  <2> DEFINE r == [Untargeted(q.held[q.who]) EXCEPT !.cancelled = FALSE]
  <2>1. WriteHolds([q.held EXCEPT ![q.who] = r]) /\ (q.who \in DOMAIN q.held => Sound(q.who, r))
    BY <1>1, <1>6, RowsSoundAfter DEF CommitUncancel
  <2> HIDE DEF r
  <2> QED  BY <1>4, <2>1
<1>7. CASE CommitFreeze(d)
  <2> DEFINE r == IF q.op = "thaw" THEN [q.held[q.who] EXCEPT !.frozen = FALSE]
                  ELSE [q.held[q.who] EXCEPT !.frozen = TRUE, !.current = NoCopy]
  <2>1. q.who \in DOMAIN q.held /\ q.op # "thaw"
           => ~(q.held[q.who].fulfilled /\ q.held[q.who].captured)
    BY SMTT(30), <1>7 DEF CommitFreeze, RowsInv, Writable
  <2>2. WriteHolds([q.held EXCEPT ![q.who] = r]) /\ (q.who \in DOMAIN q.held => Sound(q.who, r))
    BY ZenonT(30), <1>1, <1>7, <2>1, RowsSoundAfter DEF CommitFreeze
  <2> HIDE DEF r
  <2> QED  BY <1>4, <2>2
<1>8. CASE CommitReset(d)
  <2> DEFINE r == Untargeted(q.held[q.who])
  <2>1. WriteHolds([q.held EXCEPT ![q.who] = r]) /\ (q.who \in DOMAIN q.held => Sound(q.who, r))
    BY ZenonT(30), <1>1, <1>8, RowsSoundAfter DEF CommitReset
  <2> HIDE DEF r
  <2> QED  BY <1>4, <2>1
<1>9. CASE CommitForward(d)
  <2> DEFINE r == [q.held[q.who] EXCEPT !.shelf = NoLib]
  <2>1. WriteHolds([q.held EXCEPT ![q.who] = r]) /\ (q.who \in DOMAIN q.held => Sound(q.who, r))
    BY ZenonT(30), <1>1, <1>9, RowsSoundAfter DEF CommitForward
  <2> HIDE DEF r
  <2> QED  BY <1>4, <2>1
<1>10. CASE CommitArrive(d)
  <2> DEFINE r == [q.held[q.who] EXCEPT !.shelf = q.lib]
  <2>1. WriteHolds([q.held EXCEPT ![q.who] = r]) /\ (q.who \in DOMAIN q.held => Sound(q.who, r))
    BY <1>1, <1>10, RowsSoundAfter DEF CommitArrive
  <2> HIDE DEF r
  <2> QED  BY <1>4, <2>1
<1>11. CASE CommitCapture(d)
  BY <1>3, <1>11, SettledSound DEF CommitCapture
<1>12. CASE CommitShelve(d)
  BY <1>3, <1>12, SettledSound DEF CommitShelve
<1>13. CASE CommitCheckout(d)
  <2> DEFINE r(h) == IF h = q.who
                     THEN [q.held[h] EXCEPT !.current = q.copy, !.captured = TRUE, !.fulfilled = TRUE]
                     ELSE Untargeted(q.held[h])
             f == [h \in DOMAIN q.held |-> r(h)]
  <2>1. q.copy \in Copies
    BY ZenonT(30), <1>13, DeskFields, RequestFields DEF CommitCheckout
  <2>4. \A h \in DOMAIN q.held : Sound(h, r(h))
    BY <1>1, <2>1, RowsSoundAfter
  <2>2. WriteHolds(f)
    BY <1>13 DEF CommitCheckout
  <2> HIDE DEF r
  <2>3. \A h \in DOMAIN f : Sound(h, f[h])
    BY <2>4
  <2> HIDE DEF f
  <2> QED  BY <1>3, <2>2, <2>3
<1> QED  BY <1>5, <1>6, <1>7, <1>8, <1>9, <1>10, <1>11, <1>12, <1>13

\* A transit is aborted: for its own sake, or because its copy was borrowed.
LEMMA AbortSound ==
    ASSUME HoldTypeOK, RowsInv, NEW d \in Desks, CommitAbort(d) \/ AbortForCirc(d) \/ ResetForCirc(d)
    PROVE  RowsInv'
<1> DEFINE q == desk[d]
<1>1. UNCHANGED hold => \A h \in Holds : Sound(h, hold'[h])
  BY DEF RowsInv
<1>2. CASE CommitAbort(d)
  <2> DEFINE n == IF q.leg.hold = NoHold THEN IdleDesk
                  ELSE [IdleDesk EXCEPT !.op = "reset", !.pc = "scanned", !.who = q.leg.hold]
  <2>1. desk' = [desk EXCEPT ![d] = n] /\ n.held = IdleDesk.held /\ UNCHANGED <<hold, overtaken>>
    BY <1>2 DEF CommitAbort, Finish, IdleDesk, marks
  <2> HIDE DEF n
  <2> QED  BY <1>1, <2>1, FinishSound
<1>3. ASSUME NEW n, desk' = [desk EXCEPT ![d] = n], n.held = q.held, n.op = q.op,
             UNCHANGED overtaken, \A h \in Holds : Sound(h, hold'[h])
      PROVE  RowsInv'
  <2>1. Writable(n)
    BY <1>3 DEF RowsInv, Writable
  <2> QED  BY <1>3, <2>1, DeskSound
<1>4. CASE AbortForCirc(d)
  <2> DEFINE l == IF q.leg.hold = NoHold THEN NoLeg ELSE q.leg
             n == [q EXCEPT !.via = 0, !.leg = l]
  <2>1. desk' = [desk EXCEPT ![d] = n] /\ UNCHANGED <<hold, overtaken>>
    BY <1>4 DEF AbortForCirc, HoldTypeOK, marks
  <2>2. n.held = q.held /\ n.op = q.op
    BY DeskFields DEF IsRequest
  <2> HIDE DEF n
  <2> QED  BY <1>1, <1>3, <2>1, <2>2
<1>5. CASE ResetForCirc(d)
  <2> DEFINE n == [q EXCEPT !.leg = NoLeg]
  <2>1. desk' = [desk EXCEPT ![d] = n] /\ UNCHANGED overtaken
    BY <1>5 DEF ResetForCirc, HoldTypeOK, marks
  <2>2. n.held = q.held /\ n.op = q.op
    BY DeskFields DEF IsRequest
  <2>3. \A h \in Holds : Sound(h, hold'[h])
    <3>1. \A h \in Holds : hold'[h] \in {hold[h], Untargeted(hold[h])}
      BY <1>5 DEF ResetForCirc, HoldTypeOK
    <3>2. \A h \in Holds : hold[h] \in Row /\ Sound(h, hold[h])
      BY SMTT(30) DEF HoldTypeOK, RowsInv
    <3>3. \A h \in Holds : Sound(h, Untargeted(hold[h]))
      BY <3>2, RowsSoundAfter
    <3> QED  BY SMTT(30), <3>1, <3>2, <3>3
  <2> HIDE DEF n
  <2> QED  BY <1>3, <2>1, <2>2, <2>3
<1> QED  BY <1>2, <1>4, <1>5

\* Every step keeps the rows that are there, or will be written, sound.
LEMMA StepSound ==
    ASSUME HoldTypeOK, HoldTypeOK', RowsInv, [Next]_vars
    PROVE  RowsInv'
<1>1. UNCHANGED hold => \A h \in Holds : Sound(h, hold'[h])
  BY DEF RowsInv
<1>2. ASSUME NEW d \in Desks, NothingToDo(d) \/ Bail(d) PROVE RowsInv'
  BY <1>1, <1>2, FinishSound DEF NothingToDo, Bail, Finish, rows, marks
<1>3. ASSUME NEW d \in Desks, HoldRequest(d) PROVE RowsInv'
  BY <1>3, RequestSound, WritesSound, AbortSound DEF HoldRequest
<1>4. ASSUME NEW d \in Desks, Checkin(d) PROVE RowsInv'
  BY <1>2, <1>4, RequestSound, WritesSound, AbortSound DEF Checkin
<1>5. ASSUME NEW d \in Desks, Checkout(d) PROVE RowsInv'
  BY <1>5, RequestSound, WritesSound DEF Checkout
<1>6. CASE UNCHANGED vars
  BY <1>6 DEF vars, RowsInv, Sound, Writable
<1> QED  BY <1>2, <1>3, <1>4, <1>5, <1>6, TargetSound DEF Next

\* No transaction of a desk ever holds a row, to be written back, that would give a
\* target to a suspended hold or take the copy from a filled one, unless copy_targeter
\* has written into the hold after it was no longer to be targeted.
THEOREM RowsSound == Spec => []RowsInv
<1>1. Init => RowsInv
  BY DEF Init, RowsInv, Sound, Writable, NewRow, IdleDesk
<1>2. HoldTypeOK /\ HoldTypeOK' /\ RowsInv /\ [Next]_vars => RowsInv'
  BY StepSound
<1> QED  BY <1>1, <1>2, TypeCorrect, PTL DEF Spec

\* A suspended hold that waits has no target, however the check-ins and requests that
\* overwrite its row interleave with one another and with any number of targeters: only
\* a targeter that overtakes the suspension gives it one.
THEOREM FrozenHoldsUntargeted == Spec => []FrozenUntargeted
<1>1. RowsInv => FrozenUntargeted
  BY DEF RowsInv, FrozenUntargeted, Sound
<1> QED  BY <1>1, RowsSound, PTL

\* And a filled hold keeps its copy, whatever counter and office overwrite
\* (handle_checkout_holds, update_hold_impl), unless a targeter overtook them.
THEOREM FilledHoldsKeepCopy == Spec => []FilledHasCopy
<1>1. RowsInv => FilledHasCopy
  BY DEF RowsInv, FilledHasCopy, Sound
<1> QED  BY <1>1, RowsSound, PTL

-----------------------------------------------------------------------------
(* What a request has read of the holds it will write, and what it writes. *)

\* The requests about one hold.
OfOne == {"cancel", "uncancel", "freeze", "thaw", "reset"}

\* Which holds a request has read, and in what state they were.
ReadFor(q) ==
    /\ q.pc \in {"idle", "scanned"} => DOMAIN q.held = {}
    /\ q.op \in OfOne \/ q.pc \in {"forward", "arrive"} => DOMAIN q.held \subseteq {q.who}
    /\ q.pc = "forward" => \A h \in DOMAIN q.held : q.held[h].captured
    /\ q.pc = "capture" => \A h \in DOMAIN q.held :
          IF h = q.who THEN Waiting(q.held[h]) => ~q.held[h].frozen \/ h \in overtaken
          ELSE Open(q.held[h]) => q.held[h].current = q.copy /\ ~q.held[h].captured
    /\ q.pc = "shelve" => \A h \in DOMAIN q.held : ~Open(q.held[h])
HeldFor == \A d \in Desks : ReadFor(desk[d])

\* The request of a desk after it has read rows that are still those of the tables.
ReadsRows(d) ==
    \E q : /\ desk' = [desk EXCEPT ![d] = q] /\ ReadFor(q)
           /\ \A h \in DOMAIN q.held : q.held[h] = hold[h]

\* A desk that begins a request, or reads the holds it is about.
LEMMA ReadsWhat ==
    ASSUME HoldTypeOK, RowsInv, NEW d \in Desks,
           \/ \E h \in Holds : \/ BeginCancel(d, h) \/ BeginUncancel(d, h) \/ BeginFreeze(d, h)
                              \/ BeginThaw(d, h) \/ BeginReset(d, h)
           \/ \E i \in TransitIds : BeginAbort(d, i)
           \/ ReadReset(d)
           \/ \E c \in Copies, l \in Libs : ScanIn(d, c, l)
           \/ \E c \in Copies, w \in Holds \cup {NoHold} : ScanOut(d, c, w)
           \/ FindRemoteHold(d) \/ FindArrivedHold(d) \/ FindHold(d) \/ FindNoHold(d)
           \/ FindOpenHold(d)
    PROVE  ReadsRows(d) /\ UNCHANGED <<rows, tgt, marks>>
<1> DEFINE Goal == ReadsRows(d) /\ UNCHANGED <<rows, tgt, marks>>
<1> SUFFICES Goal
  OBVIOUS
<1>1. IsRequest(desk[d])
  BY DeskFields
<1>2. ASSUME NEW op \in OfOne, NEW h, NEW q, Serve(d, q) \/ (desk' = [desk EXCEPT ![d] = q] /\ UNCHANGED <<rows, tgt, marks>>),
             q.op = op, q.pc = "ready", q.who = h, q.held = Read({h})
      PROVE  Goal
  <2>1. DOMAIN q.held = {h} /\ q.held[h] = hold[h]
    BY <1>2 DEF Read
  <2>2. ReadFor(q)
    BY <1>2, <2>1 DEF ReadFor, OfOne
  <2> QED  BY <1>2, <2>1, <2>2 DEF Serve, ReadsRows
<1>3. ASSUME NEW q, Serve(d, q), q.pc \in {"scanned", "ready"}, q.held = IdleDesk.held
      PROVE  Goal
  <2>1. DOMAIN q.held = {}
    BY <1>3 DEF IdleDesk
  <2>2. ReadFor(q)
    BY <1>3, <2>1 DEF ReadFor
  <2> QED  BY <1>3, <2>1, <2>2 DEF Serve, ReadsRows
<1>4. ASSUME NEW p \in {"forward", "arrive", "capture", "shelve", "ready"}, NEW h, NEW S \in SUBSET Holds,
             Continues(d, p, h, Read(S)), UNCHANGED <<rows, tgt, marks>>, desk[d].op \in {"checkin", "checkout"},
             p \in {"forward", "arrive"} => S \subseteq {h},
             p = "forward" => \A g \in S : hold[g].captured,
             p = "capture" => \A g \in S :
                 IF g = h THEN Waiting(hold[g]) => ~hold[g].frozen \/ g \in overtaken
                 ELSE Open(hold[g]) => hold[g].current = desk[d].copy /\ ~hold[g].captured,
             p = "shelve" => \A g \in S : ~Open(hold[g])
      PROVE  Goal
  <2> DEFINE q == [desk[d] EXCEPT !.pc = p, !.who = h, !.held = Read(S)]
  <2>1. /\ q.pc = p /\ q.who = h /\ q.held = Read(S) /\ q.copy = desk[d].copy /\ q.op = desk[d].op
        /\ desk' = [desk EXCEPT ![d] = q]
    BY <1>1, <1>4 DEF IsRequest, Continues
  <2>2. DOMAIN q.held = S /\ \A g \in S : q.held[g] = hold[g]
    BY <2>1 DEF Read
  <2> HIDE DEF q
  <2>3. ReadFor(q)
    BY <1>4, <2>1, <2>2 DEF ReadFor, OfOne
  <2> QED  BY <1>4, <2>1, <2>2, <2>3 DEF ReadsRows
<1> HIDE DEF Goal
<1>5. ASSUME NEW h \in Holds, BeginCancel(d, h) PROVE Goal
  <2>1. PICK i : Serve(d, ReadyLeg("cancel", h, i))
    BY <1>5 DEF BeginCancel, ReadyLeg
  <2> DEFINE q == ReadyLeg("cancel", h, i)
  <2>2. q.op = "cancel" /\ q.pc = "ready" /\ q.who = h /\ q.held = Read({h})
    BY DEF ReadyLeg, IdleDesk
  <2> HIDE DEF q
  <2> QED  BY <1>2, <2>1, <2>2 DEF q, OfOne
<1>6. ASSUME NEW h \in Holds, BeginUncancel(d, h) \/ BeginFreeze(d, h) \/ BeginThaw(d, h)
      PROVE  Goal
  <2>1. PICK op \in {"uncancel", "freeze", "thaw"} : Serve(d, Ready(op, h))
    BY <1>6 DEF BeginUncancel, BeginFreeze, BeginThaw, Ready
  <2> DEFINE q == Ready(op, h)
  <2>2. q.op = op /\ q.pc = "ready" /\ q.who = h /\ q.held = Read({h}) /\ op \in OfOne
    BY DEF Ready, IdleDesk, OfOne
  <2> HIDE DEF q
  <2> QED  BY SMTT(30), <1>2, <2>1, <2>2 DEF q
<1>7. ASSUME NEW h \in Holds, BeginReset(d, h) PROVE Goal
  BY <1>3, <1>7 DEF BeginReset, IdleDesk
<1>8. ASSUME NEW i \in TransitIds, BeginAbort(d, i) PROVE Goal
  BY <1>3, <1>8 DEF BeginAbort, IdleDesk
<1>9. ASSUME NEW c \in Copies, NEW l \in Libs, ScanIn(d, c, l) PROVE Goal
  BY <1>3, <1>9 DEF ScanIn, IdleDesk
<1>10. ASSUME NEW c \in Copies, NEW w \in Holds \cup {NoHold}, ScanOut(d, c, w) PROVE Goal
  BY <1>3, <1>10 DEF ScanOut, IdleDesk
<1>11. CASE ReadReset(d)
  <2> DEFINE r == hold[desk[d].who]
             has == r.captured /\ r.current # NoCopy
             moving == has /\ copy[r.current] = "in_transit"
             q(i) == [desk[d] EXCEPT !.pc = "ready", !.copy = IF has THEN r.current ELSE NoCopy,
                            !.status = IF has THEN copy[r.current] ELSE "available",
                            !.via = i, !.leg = LegAt(i), !.held = Read({desk[d].who})]
  <2>1. PICK i \in IF moving THEN First(LegsOf(desk[d].who)) ELSE {0} :
           desk' = [desk EXCEPT ![d] = q(i)]
    BY <1>11 DEF ReadReset
  <2>2. /\ q(i).held = Read({desk[d].who}) /\ q(i).op = "reset" /\ q(i).pc = "ready"
        /\ q(i).who = desk[d].who
    BY ZenonT(30), <1>1, <1>11 DEF IsRequest, ReadReset
  <2>3. UNCHANGED <<rows, tgt, marks>>
    BY <1>11 DEF ReadReset
  <2> HIDE DEF q
  <2> QED  BY <1>2, <2>1, <2>2, <2>3 DEF OfOne
<1>12. ASSUME NEW p, NEW S, desk' = [desk EXCEPT ![d] = [desk[d] EXCEPT !.pc = p, !.held = Read(S)]]
       PROVE  Continues(d, p, desk[d].who, Read(S))
  <2>1. [desk[d] EXCEPT !.pc = p, !.held = Read(S)]
           = [desk[d] EXCEPT !.pc = p, !.who = desk[d].who, !.held = Read(S)]
    BY <1>1 DEF IsRequest
  <2> QED  BY <1>12, <2>1 DEF Continues
<1>13. GoneHold(d) \subseteq Holds
  BY DeskFields DEF GoneHold, Leg, NoLeg, Arrived
<1>14. CASE FindRemoteHold(d)
  <2>1. PICK h \in Holding(desk[d].copy) : Continues(d, "forward", h, Read({h}))
    BY <1>14 DEF FindRemoteHold, Shelved, Continues
  <2>2. UNCHANGED <<rows, tgt, marks>> /\ desk[d].op = "checkin"
    BY <1>14 DEF FindRemoteHold, Scanned
  <2>3. {h} \in SUBSET Holds /\ \A g \in {h} : hold[g].captured
    BY <2>1 DEF Holding
  <2> QED  BY <1>4, <2>1, <2>2, <2>3
<1>15. CASE FindArrivedHold(d)
  <2> DEFINE h == desk[d].leg.hold
  <2>1. UNCHANGED <<rows, tgt, marks>> /\ desk[d].op = "checkin" /\ Continues(d, "arrive", h, Read({h}))
    BY <1>15 DEF FindArrivedHold, Scanned, Continues
  <2>2. {h} \in SUBSET Holds
    BY <1>15, DeskFields DEF FindArrivedHold, Leg, NoLeg
  <2> HIDE DEF h
  <2> QED  BY <1>4, <2>1, <2>2
<1>16. CASE FindHold(d)
  <2> DEFINE c == desk[d].copy
             S(h) == {h} \cup Targeting(c) \cup GoneHold(d)
  <2>1. PICK h \in Candidates(c) : Continues(d, "capture", h, Read(S(h)))
    BY <1>16 DEF FindHold, Continues
  <2>2. UNCHANGED <<rows, tgt, marks>> /\ desk[d].op = "checkin"
    BY <1>16 DEF FindHold, Unneeded, Scanned
  <2>3. S(h) \in SUBSET Holds
    BY <1>13 DEF Candidates, Targeting
  <2>4. c \in Copies /\ c # NoCopy
    BY <2>2, DeskFields, NullsAssumption
  <2>5. Waiting(hold[h]) => ~hold[h].frozen \/ h \in overtaken
    BY SMTT(30), <2>4 DEF Candidates, Targeting, RowsInv, Sound
  <2>6. ASSUME NEW g \in S(h), g # h PROVE Open(hold[g]) => hold[g].current = c /\ ~hold[g].captured
    BY <1>16, <2>6 DEF Targeting, FindHold, Unneeded
  <2> HIDE DEF S
  <2> QED  BY <1>4, <2>1, <2>2, <2>3, <2>5, <2>6
<1>17. CASE FindNoHold(d)
  <2>1. UNCHANGED <<rows, tgt, marks>> /\ desk[d].op = "checkin" /\ \A g \in GoneHold(d) : ~Open(hold[g])
    BY <1>17 DEF FindNoHold, Unneeded, Scanned
  <2>2. Continues(d, "shelve", desk[d].who, Read(GoneHold(d)))
    BY <1>12, <1>17 DEF FindNoHold
  <2> QED  BY <1>4, <1>13, <2>1, <2>2
<1>18. CASE FindOpenHold(d)
  <2> DEFINE claims == {h \in Holds : Open(hold[h]) /\ hold[h].current = desk[d].copy}
             fills(S) == IF desk[d].who \in S THEN S ELSE Related(desk[d].who, desk[d].copy)
  <2>1. /\ UNCHANGED <<rows, tgt, marks>> /\ desk[d].op = "checkout"
        /\ \E S \in IF claims = {} THEN {{}} ELSE {{h} : h \in claims} :
              desk' = [desk EXCEPT ![d] = [desk[d] EXCEPT !.pc = "ready", !.held = Read(S \cup fills(S))]]
    BY <1>18 DEF FindOpenHold
  <2>2. PICK S \in IF claims = {} THEN {{}} ELSE {{h} : h \in claims} :
           desk' = [desk EXCEPT ![d] = [desk[d] EXCEPT !.pc = "ready", !.held = Read(S \cup fills(S))]]
    BY <2>1
  <2>3. S \cup fills(S) \in SUBSET Holds
    <3>1. S \subseteq Holds
      BY <2>2
    <3>2. Related(desk[d].who, desk[d].copy) \subseteq Holds
      BY DeskFields DEF Related
    <3> QED  BY <3>1, <3>2
  <2>4. Continues(d, "ready", desk[d].who, Read(S \cup fills(S)))
    BY <1>12, <2>2
  <2> HIDE DEF claims, fills
  <2> QED  BY <1>4, <2>1, <2>3, <2>4
<1> QED  BY <1>5, <1>6, <1>7, <1>8, <1>9, <1>10, <1>11, <1>14, <1>15, <1>16, <1>17, <1>18

\* A desk goes on with a request.
LEMMA DeskReads ==
    ASSUME HoldTypeOK, HeldFor, NEW d \in Desks, NEW q, desk' = [desk EXCEPT ![d] = q], ReadFor(q),
           overtaken \subseteq overtaken'
    PROVE  HeldFor'
<1>1. \A e \in Desks : desk'[e] = IF e = d THEN q ELSE desk[e]
  BY DEF HoldTypeOK
<1>2. \A e \in Desks : ReadFor(desk'[e])
  BY <1>1 DEF HeldFor
<1>3. (\A e \in Desks : ReadFor(desk[e]))'
  BY <1>2 DEF ReadFor, Waiting, Open
<1> QED  BY <1>3 DEF HeldFor

\* What has been overtaken stays on record.
LEMMA OvertakenGrows == [Next]_vars => overtaken \subseteq overtaken'
<1> SUFFICES ASSUME [Next]_vars PROVE overtaken \subseteq overtaken'
  OBVIOUS
<1>1. ASSUME NEW t \in Targeters, Target(t) PROVE overtaken \subseteq overtaken'
  BY SMTT(30), <1>1 DEF Target, TargetRead, TargetAsked, TargetChoose, TargetWrite, TargetCancel, WriteColumns,
              TargetExit, marks
<1>2. ASSUME NEW d \in Desks, HoldRequest(d) PROVE UNCHANGED overtaken
  BY ZenonT(30), <1>2 DEF HoldRequest, BeginCancel, BeginUncancel, BeginFreeze, BeginThaw, BeginReset, BeginAbort,
              Serve, CommitCancel, CommitUncancel, CommitFreeze, ReadReset, CommitReset, CommitAbort, marks
<1>3. ASSUME NEW d \in Desks, Checkin(d) PROVE UNCHANGED overtaken
  BY <1>3 DEF Checkin, ScanIn, Serve, AbortForCirc, ResetForCirc, NothingToDo, FindRemoteHold,
              FindArrivedHold, FindHold, FindNoHold, CommitForward, CommitArrive, CommitCapture,
              CommitShelve, marks
<1>4. ASSUME NEW d \in Desks, Checkout(d) \/ Bail(d) PROVE UNCHANGED overtaken
  BY <1>4 DEF Checkout, ScanOut, Serve, FindOpenHold, CommitCheckout, Bail, marks
<1>5. CASE UNCHANGED vars
  BY <1>5 DEF vars
<1> QED  BY <1>1, <1>2, <1>3, <1>4, <1>5 DEF Next

\* A check-in that aborts a transit, and resets its hold, goes on as it was.
LEMMA AbortRequest ==
    ASSUME HoldTypeOK, NEW d \in Desks, AbortForCirc(d) \/ ResetForCirc(d)
    PROVE  \E q : /\ desk' = [desk EXCEPT ![d] = q]
                  /\ q.held = desk[d].held /\ q.pc = "scanned" /\ q.op = "checkin"
                  /\ q.copy = desk[d].copy /\ q.who = desk[d].who /\ q.lib = desk[d].lib
                  /\ q.via = 0 /\ q.leg \in {NoLeg, desk[d].leg} /\ q.status = desk[d].status
<1>1. IsRequest(desk[d])
  BY DeskFields
<1>2. CASE AbortForCirc(d)
  <2> DEFINE l == IF desk[d].leg.hold = NoHold THEN NoLeg ELSE desk[d].leg
             q == [desk[d] EXCEPT !.via = 0, !.leg = l]
  <2>1. desk' = [desk EXCEPT ![d] = q]
    BY <1>2 DEF AbortForCirc, HoldTypeOK
  <2>2. l \in {NoLeg, desk[d].leg} /\ desk[d].pc = "scanned" /\ desk[d].op = "checkin"
    BY <1>2 DEF AbortForCirc, Scanned
  <2> HIDE DEF l
  <2>3. /\ q.held = desk[d].held /\ q.pc = "scanned" /\ q.op = "checkin"
        /\ q.copy = desk[d].copy /\ q.who = desk[d].who /\ q.lib = desk[d].lib
        /\ q.via = 0 /\ q.leg = l /\ q.status = desk[d].status
    BY <1>1, <2>2 DEF IsRequest
  <2> HIDE DEF q
  <2> QED  BY <2>1, <2>2, <2>3
<1>3. CASE ResetForCirc(d)
  <2> DEFINE q == [desk[d] EXCEPT !.leg = NoLeg]
  <2>1. desk' = [desk EXCEPT ![d] = q]
    BY <1>3 DEF ResetForCirc, HoldTypeOK
  <2>2. desk[d].via = 0 /\ desk[d].pc = "scanned" /\ desk[d].op = "checkin"
    BY <1>3 DEF ResetForCirc, Resetting
  <2>3. /\ q.held = desk[d].held /\ q.pc = "scanned" /\ q.op = "checkin"
        /\ q.copy = desk[d].copy /\ q.who = desk[d].who /\ q.lib = desk[d].lib
        /\ q.via = 0 /\ q.leg = NoLeg /\ q.status = desk[d].status
    BY <1>1, <2>2 DEF IsRequest
  <2> HIDE DEF q
  <2> QED  BY ZenonT(30), <2>1, <2>3
<1> QED  BY <1>2, <1>3

\* Every step keeps to what a request may have read.
LEMMA StepHeldFor ==
    ASSUME HoldTypeOK, RowsInv, HeldFor, [Next]_vars
    PROVE  HeldFor'
<1>0. overtaken \subseteq overtaken'
  BY OvertakenGrows
<1>1. CASE UNCHANGED desk
  BY <1>0, <1>1 DEF HeldFor, ReadFor, Waiting, Open
<1>2. ASSUME NEW q, q.held = IdleDesk.held, q.pc \in {"idle", "scanned"} PROVE ReadFor(q)
  <2>1. DOMAIN q.held = {}
    BY <1>2 DEF IdleDesk
  <2> QED  BY <1>2, <2>1 DEF ReadFor
<1>3. IdleDesk.held = IdleDesk.held /\ IdleDesk.pc = "idle"
  BY DEF IdleDesk
<1>4. ASSUME NEW d \in Desks, Finish(d) PROVE HeldFor'
  BY <1>0, <1>2, <1>3, <1>4, DeskReads DEF Finish
<1>5. ASSUME NEW d \in Desks, ReadsRows(d) PROVE HeldFor'
  BY <1>0, <1>5, DeskReads DEF ReadsRows
<1>6. ASSUME NEW d \in Desks, CommitAbort(d) PROVE HeldFor'
  <2> DEFINE q == [IdleDesk EXCEPT !.op = "reset", !.pc = "scanned", !.who = desk[d].leg.hold]
  <2>1. q.held = IdleDesk.held /\ q.pc = "scanned"
    BY DEF IdleDesk
  <2>2. Finish(d) \/ desk' = [desk EXCEPT ![d] = q]
    BY <1>6 DEF CommitAbort
  <2> HIDE DEF q
  <2> QED  BY <1>0, <1>2, <1>4, <2>1, <2>2, DeskReads
<1>7. ASSUME NEW d \in Desks, AbortForCirc(d) \/ ResetForCirc(d) PROVE HeldFor'
  <2>1. PICK q : desk' = [desk EXCEPT ![d] = q] /\ q.held = desk[d].held /\ q.pc = "scanned" /\ q.op = "checkin"
    BY <1>7, AbortRequest
  <2>2. DOMAIN q.held = {}
    BY <1>7, <2>1 DEF AbortForCirc, ResetForCirc, Scanned, HeldFor, ReadFor
  <2>3. ReadFor(q)
    BY <2>1, <2>2 DEF ReadFor, OfOne
  <2> QED  BY <1>0, <2>1, <2>3, DeskReads
<1>8. ASSUME NEW d \in Desks, NothingToDo(d) \/ Bail(d) PROVE Finish(d)
  BY SMTT(30), <1>8 DEF NothingToDo, Bail
<1>9. ASSUME NEW d \in Desks,
             \/ CommitCancel(d) \/ CommitUncancel(d) \/ CommitFreeze(d) \/ CommitReset(d)
             \/ CommitForward(d) \/ CommitArrive(d) \/ CommitCapture(d) \/ CommitShelve(d)
             \/ CommitCheckout(d)
      PROVE  Finish(d)
  BY <1>9 DEF CommitCancel, CommitUncancel, CommitFreeze, CommitReset, CommitForward, CommitArrive,
              CommitCapture, CommitShelve, CommitCheckout
<1>10. ASSUME NEW d \in Desks, HoldRequest(d) PROVE HeldFor'
  BY <1>4, <1>5, <1>6, <1>9, <1>10, ReadsWhat DEF HoldRequest
<1>11. ASSUME NEW d \in Desks, Checkin(d) PROVE HeldFor'
  BY <1>4, <1>5, <1>7, <1>8, <1>9, <1>11, ReadsWhat DEF Checkin
<1>12. ASSUME NEW d \in Desks, Checkout(d) PROVE HeldFor'
  BY <1>4, <1>5, <1>9, <1>12, ReadsWhat DEF Checkout
<1>13. ASSUME NEW t \in Targeters, Target(t) PROVE UNCHANGED desk
  BY <1>13 DEF Target, TargetRead, TargetAsked, TargetChoose, TargetWrite, TargetCancel, WriteColumns, TargetExit
<1>14. CASE UNCHANGED vars
  BY <1>1, <1>14 DEF vars
<1> QED  BY <1>1, <1>4, <1>8, <1>10, <1>11, <1>12, <1>13, <1>14 DEF Next

\* A row that targets nothing, or is not about a waiting hold; and what a row r that
\* replaces row s leaves as it was: the target of a waiting hold, the wait of a
\* suspended one.
NoTarget(r) == Waiting(r) => r.current = NoCopy
Came(r, s) == Waiting(s) /\ r.current = s.current
Stays(r, s) == s.frozen /\ Waiting(s) /\ r.frozen /\ Open(r) => ~r.captured
Gives(r, s) == Stays(r, s) /\ NoTarget(r)

\* What the requests make of a row.
LEMMA RowWrites ==
    ASSUME NEW r \in Row
    PROVE  /\ Gives([r EXCEPT !.cancelled = TRUE], r)
           /\ Gives(Untargeted(r), r) /\ Gives([Untargeted(r) EXCEPT !.cancelled = FALSE], r)
           /\ Stays([r EXCEPT !.frozen = FALSE], r)
           /\ NoTarget([r EXCEPT !.frozen = FALSE]) \/ Came([r EXCEPT !.frozen = FALSE], r)
           /\ Gives([r EXCEPT !.frozen = TRUE, !.current = NoCopy], r)
           /\ \A l : Stays([r EXCEPT !.shelf = l], r)
           /\ \A l : NoTarget([r EXCEPT !.shelf = l]) \/ Came([r EXCEPT !.shelf = l], r)
           /\ \A l : r.captured \/ ~Open(r) => Gives([r EXCEPT !.shelf = l], r)
           /\ ~Open(r) => Gives(r, r)
           /\ ~r.captured => Gives([r EXCEPT !.current = NoCopy], r)
           /\ \A c : Gives([r EXCEPT !.current = c, !.captured = TRUE, !.fulfilled = TRUE], r)
BY DEF Gives, Stays, NoTarget, Came, Untargeted, Waiting, Open, Row

\* And of the row of the hold a copy is captured for.
LEMMA CaptureWrites ==
    ASSUME NEW r \in Row, NEW c, NEW l, NEW s,
           s = [r EXCEPT !.current = c, !.captured = TRUE, !.cancelled = FALSE,
                         !.fulfilled = FALSE, !.shelf = l]
    PROVE  NoTarget(s) /\ ((Waiting(r) => ~r.frozen) => Stays(s, r))
BY DEF Stays, NoTarget, Waiting, Open, Row

\* The requests that write back the target they read of a waiting hold.
WritesBack(q) == q.pc = "arrive" \/ q.op = "thaw"

\* The rows a request writes.
Writes(d) ==
    \E f : /\ WriteHolds(f) /\ DOMAIN f = DOMAIN desk[d].held
           /\ \A h \in DOMAIN f :
                 /\ Stays(f[h], desk[d].held[h]) \/ h \in overtaken
                 /\ NoTarget(f[h]) \/ (h = desk[d].who /\ WritesBack(desk[d]) /\ Came(f[h], desk[d].held[h]))

\* A request gives no waiting hold a target, and captures no suspended one that no
\* targeter has overtaken, but that a check-in writes back the target it read of a
\* waiting hold the copy came for, and so does the request that activates a hold.
LEMMA WritesWhat ==
    ASSUME HoldTypeOK, RowsInv, HeldFor, NEW d \in Desks,
           \/ CommitCancel(d) \/ CommitUncancel(d) \/ CommitFreeze(d) \/ CommitReset(d)
           \/ CommitForward(d) \/ CommitArrive(d) \/ CommitCapture(d) \/ CommitShelve(d)
           \/ CommitCheckout(d)
    PROVE  Writes(d)
<1> DEFINE q == desk[d]
<1>1. \A h \in DOMAIN q.held : q.held[h] \in Row
  BY DeskFields DEF Held
<1>2. ReadFor(q) /\ Writable(q)
  BY DEF HeldFor, RowsInv
<1>3. ASSUME NEW r, WriteHolds([q.held EXCEPT ![q.who] = r]), DOMAIN q.held \subseteq {q.who},
             q.who \in DOMAIN q.held =>
                /\ Stays(r, q.held[q.who])
                /\ NoTarget(r) \/ (WritesBack(q) /\ Came(r, q.held[q.who]))
      PROVE  Writes(d)
  <2> DEFINE f == [q.held EXCEPT ![q.who] = r]
  <2>1. DOMAIN f = DOMAIN q.held /\ \A h \in DOMAIN f : h = q.who /\ f[h] = r
    BY <1>3
  <2> HIDE DEF f
  <2> QED  BY <1>3, <2>1 DEF Writes, f
<1>4. ASSUME NEW f, WriteHolds(f), DOMAIN f = DOMAIN q.held,
             \A h \in DOMAIN f : Gives(f[h], q.held[h])
      PROVE  Writes(d)
  <2>1. \A h \in DOMAIN f : Stays(f[h], q.held[h]) /\ NoTarget(f[h])
    BY <1>4 DEF Gives
  <2> QED  BY <1>4, <2>1 DEF Writes
<1>5. CASE CommitCancel(d)
  <2> DEFINE r == [q.held[q.who] EXCEPT !.cancelled = TRUE]
  <2>1. WriteHolds([q.held EXCEPT ![q.who] = r]) /\ (q.who \in DOMAIN q.held => Gives(r, q.held[q.who]))
    BY <1>1, <1>5, RowWrites DEF CommitCancel
  <2> HIDE DEF r
  <2>3. DOMAIN q.held \subseteq {q.who}
    BY SMTT(30), <1>2, <1>5 DEF CommitCancel, ReadFor, OfOne
  <2> QED  BY SMTT(30), <1>3, <2>1, <2>3 DEF Gives
<1>6. CASE CommitUncancel(d)
  <2> DEFINE r == [Untargeted(q.held[q.who]) EXCEPT !.cancelled = FALSE]
  <2>1. WriteHolds([q.held EXCEPT ![q.who] = r]) /\ (q.who \in DOMAIN q.held => Gives(r, q.held[q.who]))
    BY <1>1, <1>6, RowWrites DEF CommitUncancel
  <2> HIDE DEF r
  <2>3. DOMAIN q.held \subseteq {q.who}
    BY <1>2, <1>6 DEF CommitUncancel, ReadFor, OfOne
  <2> QED  BY <1>3, <2>1, <2>3 DEF Gives
<1>7. CASE CommitFreeze(d)
  <2> DEFINE r == IF q.op = "thaw" THEN [q.held[q.who] EXCEPT !.frozen = FALSE]
                  ELSE [q.held[q.who] EXCEPT !.frozen = TRUE, !.current = NoCopy]
  <2>1. /\ WriteHolds([q.held EXCEPT ![q.who] = r])
        /\ q.who \in DOMAIN q.held => /\ Stays(r, q.held[q.who])
                                      /\ NoTarget(r) \/ (q.op = "thaw" /\ Came(r, q.held[q.who]))
    BY <1>1, <1>7, RowWrites DEF CommitFreeze, Gives
  <2> HIDE DEF r
  <2>3. DOMAIN q.held \subseteq {q.who}
    BY SMTT(30), <1>2, <1>7 DEF CommitFreeze, ReadFor, OfOne
  <2> QED  BY SMTT(30), <1>3, <2>1, <2>3 DEF WritesBack
<1>8. CASE CommitReset(d)
  <2> DEFINE r == Untargeted(q.held[q.who])
  <2>1. WriteHolds([q.held EXCEPT ![q.who] = r]) /\ (q.who \in DOMAIN q.held => Gives(r, q.held[q.who]))
    BY <1>1, <1>8, RowWrites DEF CommitReset
  <2> HIDE DEF r
  <2>3. DOMAIN q.held \subseteq {q.who}
    BY <1>2, <1>8 DEF CommitReset, ReadFor, OfOne
  <2> QED  BY <1>3, <2>1, <2>3 DEF Gives
<1>9. CASE CommitForward(d)
  <2> DEFINE r == [q.held[q.who] EXCEPT !.shelf = NoLib]
  <2>0. q.who \in DOMAIN q.held => q.held[q.who].captured
    BY SMTT(30), <1>2, <1>9 DEF CommitForward, ReadFor
  <2>1. WriteHolds([q.held EXCEPT ![q.who] = r]) /\ (q.who \in DOMAIN q.held => Gives(r, q.held[q.who]))
    BY <1>1, <1>9, <2>0, RowWrites DEF CommitForward
  <2> HIDE DEF r
  <2>3. DOMAIN q.held \subseteq {q.who}
    BY <1>2, <1>9 DEF CommitForward, ReadFor
  <2> QED  BY <1>3, <2>1, <2>3 DEF Gives
<1>10. CASE CommitArrive(d)
  <2> DEFINE r == [q.held[q.who] EXCEPT !.shelf = q.lib]
  <2>1. /\ WriteHolds([q.held EXCEPT ![q.who] = r])
        /\ q.who \in DOMAIN q.held =>
              Stays(r, q.held[q.who]) /\ (NoTarget(r) \/ Came(r, q.held[q.who]))
    BY <1>1, <1>10, RowWrites DEF CommitArrive
  <2> HIDE DEF r
  <2>3. DOMAIN q.held \subseteq {q.who} /\ q.pc = "arrive"
    BY <1>2, <1>10 DEF CommitArrive, ReadFor
  <2> QED  BY SMTT(30), <1>3, <2>1, <2>3 DEF WritesBack
<1>11. ASSUME NEW h \in DOMAIN q.held PROVE Settled(q)[h] = q.held[h] \/ Settled(q)[h] = [q.held[h] EXCEPT !.shelf = q.lib]
  BY DEF Settled
<1>12. CASE CommitCapture(d)
  <2>1. ASSUME NEW h \in DOMAIN q.held
        PROVE  (Stays(Captured(q)[h], q.held[h]) \/ h \in overtaken) /\ NoTarget(Captured(q)[h])
    <3>1. CASE h = q.who
      <4> DEFINE l == IF PickupLib[h] = q.lib THEN q.lib ELSE Settled(q)[h].shelf
      <4>1. Captured(q)[h] = [Settled(q)[h] EXCEPT !.current = q.copy, !.captured = TRUE,
                                 !.cancelled = FALSE, !.fulfilled = FALSE, !.shelf = l]
        BY <3>1, <1>1, <1>11 DEF Captured, Row
      <4>2. Captured(q)[h] = [q.held[h] EXCEPT !.current = q.copy, !.captured = TRUE,
                                 !.cancelled = FALSE, !.fulfilled = FALSE, !.shelf = l]
        BY ZenonT(30), <4>1, <1>1, <1>11 DEF Row
      <4>3. Waiting(q.held[h]) => ~q.held[h].frozen \/ h \in overtaken
        BY <1>2, <1>12, <3>1 DEF CommitCapture, ReadFor
      <4> HIDE DEF l
      <4>4. q.held[h] \in Row
        BY <1>1
      <4>5. /\ NoTarget(Captured(q)[h])
            /\ (Waiting(q.held[h]) => ~q.held[h].frozen) => Stays(Captured(q)[h], q.held[h])
        BY <4>2, <4>4, CaptureWrites
      <4> QED  BY <4>3, <4>5
    <3>2. CASE h # q.who
      <4>1. Open(q.held[h]) => q.held[h].current = q.copy /\ ~q.held[h].captured
        BY <1>2, <1>12, <3>2 DEF CommitCapture, ReadFor
      <4>2. CASE Open(q.held[h])
        <5>1. Captured(q)[h] = [Settled(q)[h] EXCEPT !.current = NoCopy]
          BY <3>2, <4>1, <4>2 DEF Captured, Losing, Open
        <5>2. \/ Captured(q)[h] = [q.held[h] EXCEPT !.current = NoCopy]
              \/ Captured(q)[h] = [[q.held[h] EXCEPT !.shelf = q.lib] EXCEPT !.current = NoCopy]
          BY <5>1, <1>11
        <5> QED  BY <1>1, <4>1, <4>2, <5>2 DEF Gives, Stays, NoTarget, Waiting, Open, Row
      <4>3. CASE ~Open(q.held[h])
        <5> DEFINE s == Settled(q)[h]
        <5>1. s \in Row /\ ~Open(s)
          <6>1. q.held[h] \in Row /\ q.lib \in Libs \cup {NoLib}
            BY <1>1, DeskFields
          <6>2. [q.held[h] EXCEPT !.shelf = q.lib] \in Row /\ ~Open([q.held[h] EXCEPT !.shelf = q.lib])
            BY <6>1, <4>3 DEF Row, Open
          <6> QED  BY <1>11, <4>3, <6>1, <6>2
        <5>2. Captured(q)[h] = s \/ Captured(q)[h] = [s EXCEPT !.current = NoCopy]
          BY <3>2 DEF Captured
        <5> HIDE DEF s
        <5> QED  BY <5>1, <5>2 DEF Gives, Stays, NoTarget, Waiting, Open, Row
      <4> QED  BY <4>2, <4>3
    <3> QED  BY <3>1, <3>2
  <2>2. WriteHolds(Captured(q)) /\ DOMAIN Captured(q) = DOMAIN q.held
    BY <1>12 DEF CommitCapture, Captured
  <2> QED  BY <2>1, <2>2 DEF Writes
<1>13. CASE CommitShelve(d)
  <2>1. ASSUME NEW h \in DOMAIN q.held PROVE Gives(Settled(q)[h], q.held[h])
    <3>1. ~Open(q.held[h])
      BY SMTT(30), <1>2, <1>13 DEF CommitShelve, ReadFor
    <3>2. Gives(q.held[h], q.held[h]) /\ Gives([q.held[h] EXCEPT !.shelf = q.lib], q.held[h])
      BY <1>1, <3>1, RowWrites
    <3> QED  BY <1>11, <3>2
  <2>2. WriteHolds(Settled(q)) /\ DOMAIN Settled(q) = DOMAIN q.held
    BY <1>13 DEF CommitShelve, Settled
  <2> QED  BY <1>4, <2>1, <2>2
<1>14. CASE CommitCheckout(d)
  <2> DEFINE r(h) == IF h = q.who
                     THEN [q.held[h] EXCEPT !.current = q.copy, !.captured = TRUE, !.fulfilled = TRUE]
                     ELSE Untargeted(q.held[h])
             f == [h \in DOMAIN q.held |-> r(h)]
  <2>1. \A h \in DOMAIN q.held : Gives(r(h), q.held[h])
    BY <1>1, RowWrites
  <2>2. WriteHolds(f)
    BY <1>14 DEF CommitCheckout
  <2> HIDE DEF r
  <2>3. DOMAIN f = DOMAIN q.held /\ \A h \in DOMAIN f : Gives(f[h], q.held[h])
    BY <2>1
  <2> HIDE DEF f
  <2> QED  BY <1>4, <2>2, <2>3
<1> QED  BY <1>5, <1>6, <1>7, <1>8, <1>9, <1>10, <1>12, <1>13, <1>14

-----------------------------------------------------------------------------
(* The targets of waiting holds.                                           *)

\* A targeter of the cron job works in its slot; a copy that any targeter has picked is
\* one the hold may have, and, unless it is contested, no other waiting hold has it.
KeepsSlot(t) ==
    /\ tgt[t].pc # "idle" /\ t \notin OnDemand => SlotOf[tgt[t].hold] = t
    /\ tgt[t].pc = "chosen" /\ tgt[t].pick # NoCopy =>
          /\ tgt[t].pick \in Potential[tgt[t].hold]
          /\ tgt[t].pick \notin contested => \A g \in Holds \ {tgt[t].hold} :
                Waiting(hold[g]) => hold[g].current # tgt[t].pick

\* Targeters that have picked the same copy contest it.
PicksApart ==
    \A t, u \in Targeters :
        /\ t # u /\ tgt[t].pc = "chosen" /\ tgt[u].pc = "chosen"
        /\ tgt[t].pick # NoCopy /\ tgt[t].pick \notin contested
        => tgt[t].pick # tgt[u].pick
TargetsInv == DistinctTargets /\ PicksApart /\ \A t \in Targeters : KeepsSlot(t)

\* A step after which no waiting hold has a target it did not have before, but for
\* contested copies.
NoNewTarget ==
    /\ contested \subseteq contested'
    /\ \A h \in Holds : Waiting(hold'[h]) /\ hold'[h].current \notin contested' \cup {NoCopy}
           => Waiting(hold[h]) /\ hold'[h].current = hold[h].current

\* What such a step leaves.
LEMMA NoNewKeeps ==
    ASSUME TargetsInv, NoNewTarget
    PROVE  /\ DistinctTargets'
           /\ UNCHANGED tgt => TargetsInv'
<1>1. DistinctTargets'
  BY DEF TargetsInv, DistinctTargets, NoNewTarget, Waiting, Open
<1>2. ASSUME NEW t \in Targeters, UNCHANGED tgt PROVE KeepsSlot(t)'
  BY <1>2 DEF TargetsInv, KeepsSlot, NoNewTarget, Waiting, Open
<1>3. ASSUME UNCHANGED tgt PROVE PicksApart'
  BY <1>3 DEF TargetsInv, PicksApart, NoNewTarget
<1> QED  BY <1>1, <1>2, <1>3 DEF TargetsInv

\* A desk takes no target away that a targeter counts on.
LEMMA DeskTargets ==
    ASSUME HoldTypeOK, RowsInv, HeldFor, TargetsInv, NEW d \in Desks,
           HoldRequest(d) \/ Checkin(d) \/ Checkout(d) \/ Bail(d)
    PROVE  TargetsInv'
<1>1. ASSUME UNCHANGED <<hold, tgt, contested>> PROVE TargetsInv'
  BY <1>1, NoNewKeeps DEF NoNewTarget
<1>2. ASSUME ReadsRows(d) /\ UNCHANGED <<rows, tgt, marks>> PROVE TargetsInv'
  BY <1>1, <1>2 DEF rows, marks
<1>3. ASSUME \/ CommitCancel(d) \/ CommitUncancel(d) \/ CommitFreeze(d) \/ CommitReset(d)
             \/ CommitForward(d) \/ CommitArrive(d) \/ CommitCapture(d) \/ CommitShelve(d)
             \/ CommitCheckout(d)
      PROVE  TargetsInv'
  <2>1. PICK f : /\ WriteHolds(f) /\ DOMAIN f = DOMAIN desk[d].held
                 /\ \A h \in DOMAIN f :
                       \/ NoTarget(f[h])
                       \/ h = desk[d].who /\ WritesBack(desk[d]) /\ Came(f[h], desk[d].held[h])
    BY <1>3, WritesWhat DEF Writes
  <2>2. hold' = [h \in Holds |-> IF h \in DOMAIN f THEN f[h] ELSE hold[h]]
    BY SMTT(30), <2>1 DEF WriteHolds
  <2>4. UNCHANGED tgt
    BY ZenonT(30), <1>3 DEF CommitCancel, CommitUncancel, CommitFreeze, CommitReset, CommitForward,
                CommitArrive, CommitCapture, CommitShelve, CommitCheckout
  <2>5. contested \subseteq contested'
    BY <1>3 DEF CommitCancel, CommitUncancel, CommitFreeze, CommitReset, CommitForward,
                CommitArrive, CommitCapture, CommitShelve, CommitCheckout, marks
  <2>6. WritesBack(desk[d]) => WrittenBack(desk[d]) \subseteq contested'
    <3>1. CASE CommitArrive(d) \/ CommitFreeze(d)
      BY <3>1, DeskFields DEF CommitArrive, CommitFreeze, WritesBack
    <3>2. CASE ~(CommitArrive(d) \/ CommitFreeze(d))
      <4>1. desk[d].pc # "arrive" /\ desk[d].op # "thaw"
        BY <1>3, <3>2, DeskFields DEF CommitCancel, CommitUncancel, CommitReset, CommitForward,
              CommitCapture, CommitShelve, CommitCheckout
      <4> QED  BY SMTT(30), <4>1 DEF WritesBack
    <3> QED  BY <3>1, <3>2
  <2>7. ASSUME NEW h \in DOMAIN f, Waiting(f[h]), f[h].current # NoCopy PROVE f[h].current \in contested'
    BY <2>1, <2>6, <2>7 DEF NoTarget, Came, WrittenBack
  <2>8. NoNewTarget
    BY <2>2, <2>5, <2>7 DEF NoNewTarget
  <2> QED  BY <2>4, <2>8, NoNewKeeps
<1>4. CASE ResetForCirc(d)
  <2>1. \A h \in Holds : hold'[h] \in {hold[h], Untargeted(hold[h])} /\ hold[h] \in Row
    BY <1>4 DEF ResetForCirc, HoldTypeOK
  <2>2. \A r \in Row : Untargeted(r).current = NoCopy
    BY DEF Untargeted, Row
  <2>3. UNCHANGED <<tgt, contested>>
    BY <1>4 DEF ResetForCirc, marks
  <2>4. NoNewTarget
    BY <2>1, <2>2, <2>3 DEF NoNewTarget
  <2> QED  BY <2>3, <2>4, NoNewKeeps
<1>5. CASE CommitAbort(d) \/ AbortForCirc(d) \/ NothingToDo(d) \/ Bail(d)
  BY <1>1, <1>5 DEF CommitAbort, AbortForCirc, NothingToDo, Bail, rows, marks
<1>6. CASE HoldRequest(d)
  BY <1>2, <1>3, <1>5, <1>6, ReadsWhat DEF HoldRequest
<1>7. CASE Checkin(d)
  BY <1>2, <1>3, <1>4, <1>5, <1>7, ReadsWhat DEF Checkin
<1>8. CASE Checkout(d)
  BY <1>2, <1>3, <1>8, ReadsWhat DEF Checkout
<1> QED  BY <1>5, <1>6, <1>7, <1>8

\* A targeter that reads a hold, or picks a copy for it.
LEMMA PickTargets ==
    ASSUME HoldTypeOK, TargetsInv, NEW t \in Targeters, NEW x,
           tgt' = [tgt EXCEPT ![t] = x], UNCHANGED hold, contested \subseteq contested',
           x.pc # "idle" => (t \notin OnDemand => SlotOf[x.hold] = t),
           x.pc = "chosen" /\ x.pick # NoCopy =>
              /\ x.pick \in Potential[x.hold]
              /\ x.pick \notin contested' =>
                    /\ \A g \in Holds \ {x.hold} : Waiting(hold[g]) => hold[g].current # x.pick
                    /\ \A u \in Targeters \ {t} : tgt[u].pc = "chosen" => tgt[u].pick # x.pick
    PROVE  TargetsInv'
<1>1. NoNewTarget
  BY DEF NoNewTarget
<1>2. \A u \in Targeters : tgt'[u] = IF u = t THEN x ELSE tgt[u]
  BY DEF HoldTypeOK
<1>3. ASSUME NEW u \in Targeters PROVE KeepsSlot(u)'
  <2>1. CASE u = t
    BY <1>2, <2>1 DEF KeepsSlot, Waiting, Open
  <2>2. CASE u # t
    BY <1>2, <2>2 DEF TargetsInv, KeepsSlot, Waiting, Open
  <2> QED  BY <2>1, <2>2
<1>4. PicksApart'
  BY <1>2 DEF TargetsInv, PicksApart
<1> QED  BY <1>1, <1>3, <1>4, NoNewKeeps DEF TargetsInv

\* A targeter that writes the row of its hold.
LEMMA WriteTargets ==
    ASSUME HoldTypeOK, TargetsInv, NEW t \in Targeters, NEW r, WriteColumns(t, r),
           tgt[t].pc # "idle", tgt[t].hold \in Holds,
           Waiting(r) /\ r.current # NoCopy =>
              \/ tgt[t].pc = "chosen" /\ r.current = tgt[t].pick
              \/ Waiting(hold[tgt[t].hold]) /\ r.current = hold[tgt[t].hold].current
    PROVE  TargetsInv'
<1> DEFINE h == tgt[t].hold
<1>1. \A k \in Holds : hold'[k] = IF k = h THEN r ELSE hold[k]
  BY DEF WriteColumns, WriteHolds
<1>2. contested' = contested /\ \A u \in Targeters : tgt'[u] = IF u = t THEN IdleTargeter ELSE tgt[u]
  BY DEF WriteColumns, HoldTypeOK
<1>3. IdleTargeter.pc = "idle"
  BY DEF IdleTargeter
<1>4. ASSUME NEW g \in Holds, g # h, Waiting(hold[g]), Waiting(r), r.current # NoCopy,
             r.current \notin contested
      PROVE  hold[g].current # r.current
  BY <1>4 DEF TargetsInv, KeepsSlot, DistinctTargets
<1>5. ASSUME NEW g \in Holds, NEW k \in Holds, g # k, Waiting(hold'[g]), Waiting(hold'[k]),
             hold'[g].current # NoCopy, hold'[g].current \notin contested
      PROVE  hold'[g].current # hold'[k].current
  BY <1>1, <1>4, <1>5 DEF TargetsInv, DistinctTargets
<1>6. DistinctTargets'
  BY <1>2, <1>5 DEF DistinctTargets, Waiting, Open
<1>7. PicksApart'
  BY <1>2, <1>3 DEF TargetsInv, PicksApart
<1>8. ASSUME NEW u \in Targeters PROVE KeepsSlot(u)'
  <2>1. CASE u = t
    BY <1>2, <1>3, <2>1 DEF KeepsSlot
  <2>2. CASE u # t
    <3>1. ASSUME tgt[u].pc = "chosen", tgt[u].pick # NoCopy, tgt[u].pick \notin contested,
                 NEW g \in Holds \ {tgt[u].hold}, Waiting(hold'[g])
          PROVE  hold'[g].current # tgt[u].pick
      <4>1. CASE g # h
        BY <1>1, <3>1, <4>1 DEF TargetsInv, KeepsSlot
      <4>2. CASE g = h
        <5>1. hold'[g] = r
          BY <1>1, <4>2
        <5>2. tgt[t].pc = "chosen" => tgt[u].pick # tgt[t].pick
          BY <2>2, <3>1 DEF TargetsInv, PicksApart
        <5>3. Waiting(hold[h]) => hold[h].current # tgt[u].pick
          BY <3>1, <4>2 DEF TargetsInv, KeepsSlot
        <5> QED  BY <3>1, <5>1, <5>2, <5>3
      <4> QED  BY <4>1, <4>2
    <3>2. tgt'[u] = tgt[u]
      BY <1>2, <2>2
    <3>3. ASSUME tgt[u].pc = "chosen", tgt[u].pick # NoCopy, tgt[u].pick \notin contested
          PROVE  \A g \in Holds \ {tgt[u].hold} : Waiting(hold[g])' => hold'[g].current # tgt[u].pick
      BY <3>1, <3>3 DEF Waiting, Open
    <3> QED  BY <1>2, <3>2, <3>3 DEF TargetsInv, KeepsSlot
  <2> QED  BY <2>1, <2>2
<1> QED  BY <1>6, <1>7, <1>8 DEF TargetsInv

\* The steps of a targeter.
LEMMA TargetTargets ==
    ASSUME HoldTypeOK, RowsInv, TargetsInv, NEW t \in Targeters, Target(t)
    PROVE  TargetsInv'
<1> DEFINE h == tgt[t].hold
<1>1. tgt[t].pc # "idle" =>
        h \in Holds /\ tgt[t].pick \in Copies \cup {NoCopy} /\ tgt[t].pc \in {"read", "chosen"}
  BY DEF HoldTypeOK, Targeter, IdleTargeter
<1>2. tgt[t].pc # "idle" /\ t \notin OnDemand => SlotOf[h] = t
  BY DEF TargetsInv, KeepsSlot
<1>3. IdleTargeter.pc = "idle"
  BY DEF IdleTargeter
<1>4. ASSUME NEW k \in Holds, TargetRead(t, k) \/ TargetAsked(t, k) PROVE TargetsInv'
  <2> DEFINE x == [pc |-> "read", hold |-> k, old |-> hold[k].current, pick |-> NoCopy]
  <2>1. x.pc = "read" /\ x.hold = k /\ UNCHANGED <<hold, contested>>
    BY <1>4 DEF TargetRead, TargetAsked, rows, marks
  <2>2. tgt' = [tgt EXCEPT ![t] = x] \/ UNCHANGED tgt
    BY <1>4 DEF TargetRead, TargetAsked, Takes
  <2>3. t \notin OnDemand => SlotOf[k] = t
    BY <1>4 DEF TargetRead, TargetAsked
  <2> HIDE DEF x
  <2>4. CASE tgt' = [tgt EXCEPT ![t] = x]
    BY <2>1, <2>3, <2>4, PickTargets
  <2>5. CASE UNCHANGED tgt
    BY <2>1, <2>5, NoNewKeeps DEF NoNewTarget
  <2> QED  BY <2>2, <2>4, <2>5
<1>5. CASE TargetChoose(t)
  <2>1. PICK c \in Usable(h) \cup OldBest(t) \cup {NoCopy} :
           /\ tgt' = [tgt EXCEPT ![t].pc = "chosen", ![t].pick = c]
           /\ contested' = contested \cup (IF c # NoCopy /\ Contested(t, c) THEN {c} ELSE {})
    BY <1>5 DEF TargetChoose
  <2> DEFINE x == [tgt[t] EXCEPT !.pc = "chosen", !.pick = c]
  <2>2. tgt' = [tgt EXCEPT ![t] = x]
    BY <2>1 DEF HoldTypeOK
  <2>0. tgt[t].pc = "read" /\ h \in Holds
    BY <1>1, <1>5 DEF TargetChoose
  <2>3. x.pc = "chosen" /\ x.hold = h /\ x.pick = c
    <3>1. tgt[t] \in Targeter /\ tgt[t].pc # "idle"
      BY <2>0 DEF HoldTypeOK
    <3> QED  BY <3>1 DEF Targeter, IdleTargeter
  <2>4. UNCHANGED hold
    BY <1>5 DEF TargetChoose, rows
  <2> HIDE DEF x
  <2>5. c # NoCopy => c \in Potential[h]
    BY <2>1 DEF Usable, OldBest
  <2>6. ASSUME c # NoCopy, c \notin contested' PROVE ~Contested(t, c)
    BY <2>1, <2>6
  <2>7. ASSUME c # NoCopy, c \notin contested', NEW g \in Holds \ {h}, Waiting(hold[g])
        PROVE  hold[g].current # c
    <3>1. ~Taken(h, c)
      BY <2>1, <2>6, <2>7 DEF Usable, OldBest, Contested
    <3> QED  BY <2>7, <3>1 DEF Taken, Waiting
  <2>8. ASSUME c # NoCopy, c \notin contested', NEW u \in Targeters \ {t}, tgt[u].pc = "chosen"
        PROVE  tgt[u].pick # c
    <3> SUFFICES ASSUME tgt[u].pick = c PROVE FALSE
      OBVIOUS
    <3>1. t \notin OnDemand /\ u \notin OnDemand
      BY <2>6, <2>8 DEF Contested
    <3>2. SlotOf[h] = t /\ SlotOf[tgt[u].hold] = u /\ c \in Potential[tgt[u].hold]
      BY <1>2, <2>0, <2>8, <3>1 DEF TargetsInv, KeepsSlot
    <3>3. tgt[u].hold \in Holds
      BY <2>8 DEF HoldTypeOK, Targeter, IdleTargeter
    <3>4. Potential[h] \cap Potential[tgt[u].hold] # {}
      BY <2>5, <2>8, <3>2
    <3> QED  BY <2>0, <2>8, <3>2, <3>3, <3>4, SlotAssumption
  <2>9. contested \subseteq contested' /\ (t \notin OnDemand => SlotOf[h] = t)
    BY <1>2, <2>0, <2>1
  <2> QED  BY <2>2, <2>3, <2>4, <2>5, <2>7, <2>8, <2>9, PickTargets
<1>6. CASE TargetWrite(t)
  <2> DEFINE b == hold[h]
  <2>1. PICK c \in Written(t) : WriteColumns(t, [b EXCEPT !.current = c])
    BY <1>6 DEF TargetWrite
  <2>2. tgt[t].pc = "chosen" /\ h \in Holds /\ b \in Row
    BY <1>1, <1>6 DEF TargetWrite, HoldTypeOK
  <2>3. c = tgt[t].pick \/ c = NoCopy \/ c = b.current
    BY <2>1 DEF Written
  <2> DEFINE r == [b EXCEPT !.current = c]
  <2>4. r.current = c /\ (Waiting(r) => Waiting(b))
    BY <2>2 DEF Row, Waiting, Open
  <2> HIDE DEF r
  <2>5. WriteColumns(t, r)
    BY <2>1 DEF r
  <2> QED  BY <2>2, <2>3, <2>4, <2>5, WriteTargets
<1>7. CASE TargetCancel(t)
  <2> DEFINE b == hold[h]
             c == IF tgt[t].pc = "read" \/ tgt[t].old = NoCopy THEN b.current ELSE NoCopy
             r == [b EXCEPT !.cancelled = TRUE, !.current = c]
  <2>1. WriteColumns(t, r) /\ tgt[t].pc # "idle"
    BY <1>7 DEF TargetCancel
  <2>2. h \in Holds /\ b \in Row
    BY <1>1, <2>1 DEF HoldTypeOK
  <2> HIDE DEF c
  <2>3. ~Waiting(r)
    BY <2>2 DEF Waiting, Open, Row
  <2> HIDE DEF r
  <2> QED  BY <2>1, <2>2, <2>3, WriteTargets
<1>8. CASE TargetExit(t)
  <2>1. tgt' = [tgt EXCEPT ![t] = IdleTargeter] /\ UNCHANGED <<hold, contested>>
    BY <1>8 DEF TargetExit, rows, marks
  <2> QED  BY <1>3, <2>1, PickTargets
<1> QED  BY <1>4, <1>5, <1>6, <1>7, <1>8 DEF Target

\* No two waiting holds have the same target, however many targeters and desks interleave
\* and whatever rows they overwrite, but for a copy that was contested when it was given
\* to one of them: by a targeter that raced one that was asked for its hold, or went back
\* to an old target that had been given away; or by a request that wrote back the row of
\* a hold that waits, from an arriving copy or when the hold is activated.
THEOREM TargetsDistinct == Spec => []DistinctTargets
<1>1. Init => HeldFor /\ TargetsInv
  BY DEF Init, HeldFor, ReadFor, IdleDesk, OfOne, TargetsInv, DistinctTargets, PicksApart,
         KeepsSlot, IdleTargeter, NewRow
<1>2. HoldTypeOK /\ RowsInv /\ HeldFor /\ TargetsInv /\ [Next]_vars => HeldFor' /\ TargetsInv'
  <2> SUFFICES ASSUME HoldTypeOK, RowsInv, HeldFor, TargetsInv, [Next]_vars
               PROVE  HeldFor' /\ TargetsInv'
    OBVIOUS
  <2>1. HeldFor'
    BY StepHeldFor
  <2>2. CASE UNCHANGED vars
    BY <2>1, <2>2, NoNewKeeps DEF vars, NoNewTarget
  <2>3. ASSUME NEW t \in Targeters, Target(t) PROVE TargetsInv'
    BY <2>3, TargetTargets
  <2> QED  BY <2>1, <2>2, <2>3, DeskTargets DEF Next
<1>3. TargetsInv => DistinctTargets
  BY DEF TargetsInv
<1> QED  BY <1>1, <1>2, <1>3, TypeCorrect, RowsSound, PTL DEF Spec

-----------------------------------------------------------------------------
(* The wait of suspended holds.                                            *)

\* The requests of the desks do not overlap; targeters overlap with all of them.
DesksInTurn == \A d, e \in Desks : desk[d].pc # "idle" /\ desk[e].pc # "idle" => d = e

\* The rows a desk has read are still those of the tables, but where a targeter has
\* written: that is the row of a hold that is not suspended, or one it has overtaken.
AsRead ==
    \A d \in Desks : \A h \in DOMAIN desk[d].held :
        hold[h] = desk[d].held[h] \/ ~hold[h].frozen \/ h \in overtaken

\* No step captures a suspended hold that has not been overtaken.
StillWaits ==
    \A h \in Holds : hold[h].frozen /\ Waiting(hold[h]) /\ hold'[h].frozen /\ Open(hold'[h])
        => ~hold'[h].captured \/ h \in overtaken

\* A desk that is alone among the desks.
LEMMA DeskStays ==
    ASSUME HoldTypeOK, RowsInv, HeldFor, DesksInTurn, AsRead, NEW d \in Desks,
           HoldRequest(d) \/ Checkin(d) \/ Checkout(d) \/ Bail(d)
    PROVE  AsRead' /\ StillWaits
<1>1. UNCHANGED hold => StillWaits
  BY DEF StillWaits, Waiting
<1>2. ASSUME NEW q, desk' = [desk EXCEPT ![d] = q], UNCHANGED <<hold, overtaken>>,
             \A h \in DOMAIN q.held : q.held[h] = hold[h]
      PROVE  AsRead'
  <2>1. \A e \in Desks : desk'[e] = IF e = d THEN q ELSE desk[e]
    BY <1>2 DEF HoldTypeOK
  <2> QED  BY <1>2, <2>1 DEF AsRead
<1>3. ASSUME NEW q, desk' = [desk EXCEPT ![d] = q], DOMAIN q.held = {}, desk[d].pc # "idle"
      PROVE  AsRead'
  <2>1. \A e \in Desks : desk'[e] = IF e = d THEN q ELSE desk[e]
    BY <1>3 DEF HoldTypeOK
  <2>2. \A e \in Desks : e # d => DOMAIN desk[e].held = {}
    BY <1>3 DEF DesksInTurn, HeldFor, ReadFor
  <2> QED  BY <1>3, <2>1, <2>2 DEF AsRead
<1>4. DOMAIN IdleDesk.held = {}
  BY DEF IdleDesk
<1>5. ASSUME ReadsRows(d) /\ UNCHANGED <<rows, tgt, marks>> PROVE AsRead' /\ StillWaits
  BY <1>1, <1>2, <1>5 DEF ReadsRows, rows, marks
<1>6. ASSUME \/ CommitCancel(d) \/ CommitUncancel(d) \/ CommitFreeze(d) \/ CommitReset(d)
             \/ CommitForward(d) \/ CommitArrive(d) \/ CommitCapture(d) \/ CommitShelve(d)
             \/ CommitCheckout(d)
      PROVE  AsRead' /\ StillWaits
  <2>1. PICK f : /\ WriteHolds(f) /\ DOMAIN f = DOMAIN desk[d].held
                 /\ \A h \in DOMAIN f : Stays(f[h], desk[d].held[h]) \/ h \in overtaken
    BY <1>6, WritesWhat DEF Writes
  <2>2. hold' = [h \in Holds |-> IF h \in DOMAIN f THEN f[h] ELSE hold[h]]
    BY <2>1 DEF WriteHolds
  <2>3. StillWaits
    BY SMTT(30), <2>1, <2>2 DEF StillWaits, Stays, AsRead, Waiting
  <2>4. Finish(d) /\ desk[d].pc # "idle"
    BY <1>6 DEF CommitCancel, CommitUncancel, CommitFreeze, CommitReset, CommitForward,
                CommitArrive, CommitCapture, CommitShelve, CommitCheckout
  <2> QED  BY <1>3, <1>4, <2>3, <2>4 DEF Finish
<1>7. CASE AbortForCirc(d) \/ ResetForCirc(d)
  <2>1. PICK q : desk' = [desk EXCEPT ![d] = q] /\ q.held = desk[d].held
    BY <1>7, AbortRequest
  <2>2. DOMAIN desk[d].held = {} /\ desk[d].pc # "idle"
    BY <1>7 DEF AbortForCirc, ResetForCirc, Scanned, HeldFor, ReadFor
  <2>3. \A h \in Holds : hold'[h] \in {hold[h], Untargeted(hold[h])} /\ hold[h] \in Row
    BY <1>7 DEF AbortForCirc, ResetForCirc, HoldTypeOK
  <2>4. \A r \in Row : ~Untargeted(r).captured
    BY DEF Untargeted, Row
  <2>5. StillWaits
    BY <2>3, <2>4 DEF StillWaits, Waiting
  <2> QED  BY ZenonT(30), <1>3, <2>1, <2>2, <2>5
<1>8. CASE CommitAbort(d)
  <2> DEFINE q == IF desk[d].leg.hold = NoHold THEN IdleDesk
                  ELSE [IdleDesk EXCEPT !.op = "reset", !.pc = "scanned", !.who = desk[d].leg.hold]
  <2>1. /\ desk' = [desk EXCEPT ![d] = q] /\ q.held = IdleDesk.held /\ UNCHANGED hold
        /\ desk[d].pc # "idle"
    BY <1>8 DEF CommitAbort, Finish, IdleDesk
  <2> HIDE DEF q
  <2> QED  BY <1>1, <1>3, <1>4, <2>1
<1>9. CASE NothingToDo(d) \/ Bail(d)
  <2>1. Finish(d) /\ UNCHANGED hold /\ desk[d].pc # "idle"
    BY <1>9 DEF NothingToDo, Bail, Scanned, rows
  <2> QED  BY <1>1, <1>3, <1>4, <2>1 DEF Finish
<1>10. CASE HoldRequest(d)
  BY <1>5, <1>6, <1>8, <1>10, ReadsWhat DEF HoldRequest
<1>11. CASE Checkin(d)
  BY <1>5, <1>6, <1>7, <1>9, <1>11, ReadsWhat DEF Checkin
<1>12. CASE Checkout(d)
  BY <1>5, <1>6, <1>12, ReadsWhat DEF Checkout
<1> QED  BY <1>9, <1>10, <1>11, <1>12

\* A targeter captures no hold and suspends none.
LEMMA TargetStays ==
    ASSUME HoldTypeOK, AsRead, NEW t \in Targeters, Target(t)
    PROVE  AsRead' /\ StillWaits
<1>1. ASSUME UNCHANGED <<hold, desk, overtaken>> PROVE AsRead' /\ StillWaits
  BY <1>1 DEF AsRead, StillWaits, Waiting
<1> DEFINE h == tgt[t].hold
<1>2. ASSUME NEW r, WriteColumns(t, r), r.frozen = hold[h].frozen, r.captured = hold[h].captured
      PROVE  AsRead' /\ StillWaits
  <2>1. \A k \in Holds : hold'[k] = IF k = h THEN r ELSE hold[k]
    BY <1>2 DEF WriteColumns, WriteHolds
  <2>2. \A d \in Desks : DOMAIN desk[d].held \subseteq Holds
    BY DeskFields DEF Held
  <2>3. UNCHANGED desk /\ overtaken \subseteq overtaken' /\ (h \in overtaken' \/ ~r.frozen)
    BY <1>2 DEF WriteColumns, ToBeTargeted
  <2> QED  BY <1>2, <2>1, <2>2, <2>3 DEF AsRead, StillWaits, Waiting
<1>3. tgt[t].pc \in {"read", "chosen"} => hold[h] \in Row
  BY DEF HoldTypeOK, Targeter, IdleTargeter
<1>4. CASE TargetWrite(t)
  <2>1. PICK c : WriteColumns(t, [hold[h] EXCEPT !.current = c])
    BY <1>4 DEF TargetWrite
  <2> DEFINE r == [hold[h] EXCEPT !.current = c]
  <2>2. r.frozen = hold[h].frozen /\ r.captured = hold[h].captured
    BY <1>3, <1>4 DEF TargetWrite, Row
  <2> HIDE DEF r
  <2>3. WriteColumns(t, r)
    BY <2>1 DEF r
  <2> QED  BY <1>2, <2>2, <2>3
<1>5. CASE TargetCancel(t)
  <2> DEFINE c == IF tgt[t].pc = "read" \/ tgt[t].old = NoCopy THEN hold[h].current ELSE NoCopy
             r == [hold[h] EXCEPT !.cancelled = TRUE, !.current = c]
  <2>1. WriteColumns(t, r) /\ tgt[t].pc \in {"read", "chosen"}
    BY <1>5 DEF TargetCancel
  <2> HIDE DEF c
  <2>2. r.frozen = hold[h].frozen /\ r.captured = hold[h].captured
    BY <1>3, <2>1 DEF Row
  <2> HIDE DEF r
  <2> QED  BY <1>2, <2>1, <2>2
<1>6. CASE TargetExit(t) \/ TargetChoose(t) \/ \E k \in Holds : TargetRead(t, k) \/ TargetAsked(t, k)
  BY <1>1, <1>6 DEF TargetExit, TargetChoose, TargetRead, TargetAsked, rows, marks
<1> QED  BY <1>4, <1>5, <1>6 DEF Target

\* A suspended hold is not captured until it is activated, whatever the targeters write
\* meanwhile, as long as the requests of the desks do not overlap and no targeter has
\* written its old choice into the hold.
THEOREM SuspendedHoldsWait == Spec /\ []DesksInTurn => SuspendedWaits
<1>1. Init => HeldFor /\ AsRead
  BY DEF Init, HeldFor, ReadFor, IdleDesk, OfOne, AsRead
<1>2. HoldTypeOK /\ RowsInv /\ HeldFor /\ DesksInTurn /\ AsRead /\ [Next]_vars
        => HeldFor' /\ AsRead' /\ StillWaits
  <2> SUFFICES ASSUME HoldTypeOK, RowsInv, HeldFor, DesksInTurn, AsRead, [Next]_vars
               PROVE  HeldFor' /\ AsRead' /\ StillWaits
    OBVIOUS
  <2>1. HeldFor'
    BY StepHeldFor
  <2>2. CASE UNCHANGED vars
    BY <2>1, <2>2 DEF vars, AsRead, StillWaits, Waiting
  <2>3. ASSUME NEW t \in Targeters, Target(t) PROVE AsRead' /\ StillWaits
    BY <2>3, TargetStays
  <2> QED  BY <2>1, <2>2, <2>3, DeskStays DEF Next
<1> QED  BY <1>1, <1>2, TypeCorrect, RowsSound, PTL DEF Spec, SuspendedWaits, StillWaits

-----------------------------------------------------------------------------
(* The trips of copies.                                                    *)

\* The open transits of a copy among some transits; a copy makes one trip at a time.
OpenLegs(legs, c) == {i \in TransitIds : legs[i].state = "open" /\ legs[i].copy = c}
OneTrip == \A c \in Copies : \A i, j \in OnTheWay(c) : i = j

\* Transits of which some may be closed, but none is open that was not.
Shuts(legs) ==
    \A i \in TransitIds : legs[i].state = "open"
        => transit[i].state = "open" /\ legs[i].copy = transit[i].copy

\* A step that opens no transit.
LEMMA ShutsOne ==
    ASSUME OneTrip, Shuts(transit')
    PROVE  OneTrip'
BY DEF OneTrip, OnTheWay, Shuts

\* A copy departs: with one open transit, the new one.
LEMMA DepartsOnce ==
    ASSUME NEW legs \in [TransitIds -> Leg \cup {NoLeg}], NEW q, NEW h, NEW l, NEW s,
           Depart(q, legs, h, l, s)
    PROVE  /\ \E i \in TransitIds : OpenLegs(transit', q.copy) = {i}
           /\ OneTrip /\ Shuts(legs) => OneTrip'
<1> DEFINE new == [state |-> "open", copy |-> q.copy, hold |-> h, dest |-> l, to |-> s]
<1>1. PICK i \in TransitIds : transit' = [legs EXCEPT ![i] = new]
  BY DEF Depart
<1>2. new.state = "open" /\ new.copy = q.copy
  OBVIOUS
<1> HIDE DEF new
<1>3. \A j \in TransitIds : transit'[j] = IF j = i THEN new ELSE legs[j]
  BY <1>1
<1>4. \A j \in TransitIds : legs[j].state = "open" => legs[j].copy # q.copy
  BY DEF Depart
<1>5. OpenLegs(transit', q.copy) = {i}
  BY <1>2, <1>3, <1>4 DEF OpenLegs
<1>6. ASSUME OneTrip, Shuts(legs) PROVE OneTrip'
  BY <1>2, <1>3, <1>4, <1>6 DEF OneTrip, OnTheWay, Shuts
<1> QED  BY <1>5, <1>6

\* A check-in receives its transit.
LEMMA ReceivedShuts ==
    ASSUME HoldTypeOK, NEW d \in Desks
    PROVE  /\ Received(desk[d]) \in [TransitIds -> Leg \cup {NoLeg}]
           /\ Shuts(Received(desk[d])) /\ Shuts(transit)
           /\ desk[d].via # 0 => Received(desk[d])[desk[d].via].state = "received"
<1> DEFINE q == desk[d]
           l == [q.leg EXCEPT !.state = "received"]
<1>1. q.via # 0 => q.via \in TransitIds /\ l.state = "received"
  BY ViaType DEF Leg
<1>2. q.via # 0 => Received(q) = [transit EXCEPT ![q.via] = l]
  BY DEF Received
<1>3. q.via = 0 => Received(q) = transit
  BY DEF Received
<1> HIDE DEF l
<1>4. q.via # 0 => \A i \in TransitIds : Received(q)[i] = IF i = q.via THEN l ELSE transit[i]
  BY <1>1, <1>2 DEF HoldTypeOK
<1>5. Shuts(Received(q)) /\ Shuts(transit)
  BY <1>1, <1>3, <1>4 DEF Shuts
<1>6. q.via # 0 => Received(q)[q.via].state = "received"
  BY <1>1, <1>4
<1> QED  BY <1>5, <1>6, ReceivedType

\* A request that ends its transit, or changes what it was sent for.
LEMMA WriteShuts ==
    ASSUME HoldTypeOK, NEW i \in TransitIds, NEW l, WriteLeg(i, l),
           l.state = "open" => transit[i].state = "open" /\ l.copy = transit[i].copy
    PROVE  Shuts(transit')
<1>1. \A j \in TransitIds : transit'[j] = IF j = i THEN l ELSE transit[j]
  BY DEF WriteLeg, HoldTypeOK
<1> QED  BY <1>1 DEF Shuts

\* Without overlap a request knows its transit as it is.
LegsTrue ==
    \A d \in Desks : desk[d].pc # "idle" /\ desk[d].via # 0 => desk[d].leg = transit[desk[d].via]
TripsInv == OneTrip /\ LegsTrue

\* The transit of a copy that circulates is aborted, and the hold it was for is reset.
LEMMA CircShuts ==
    ASSUME HoldTypeOK, Secured, NEW d \in Desks, AbortForCirc(d) \/ ResetForCirc(d)
    PROVE  Shuts(transit')
<1>1. UNCHANGED transit \/ \E i \in TransitIds :
         WriteLeg(i, [transit[i] EXCEPT !.state = "cancelled"]) /\ transit[i].state # "none"
  <2>1. CASE AbortForCirc(d)
    <3>1. desk[d].via \in TransitIds /\ transit[desk[d].via].state # "none"
      BY <2>1, ViaType DEF AbortForCirc, Secured, KnowsTransit
    <3> QED  BY <2>1, <3>1 DEF AbortForCirc
  <2>2. CASE ResetForCirc(d)
    <3> DEFINE h == desk[d].leg.hold
               r == hold[h]
               c == IF r.captured THEN r.current ELSE NoCopy
    <3>1. PICK i \in IF c # NoCopy /\ copy[c] = "in_transit" THEN First(LegsOf(h)) ELSE {0} :
             IF i = 0 THEN UNCHANGED transit
             ELSE WriteLeg(i, [transit[i] EXCEPT !.state = "cancelled"])
      BY <2>2 DEF ResetForCirc
    <3>2. i = 0 \/ i \in LegsOf(h)
      BY <3>1 DEF First
    <3> QED  BY SMTT(30), <3>1, <3>2 DEF LegsOf
  <2> QED  BY <2>1, <2>2
<1>2. CASE UNCHANGED transit
  BY <1>2 DEF Shuts
<1>3. ASSUME NEW i \in TransitIds, transit[i].state # "none",
             WriteLeg(i, [transit[i] EXCEPT !.state = "cancelled"])
      PROVE  Shuts(transit')
  <2> DEFINE l == [transit[i] EXCEPT !.state = "cancelled"]
  <2>1. l.state # "open"
    <3>1. transit[i] \in Leg
      BY <1>3 DEF HoldTypeOK, NoLeg
    <3> QED  BY <3>1 DEF Leg
  <2>2. WriteLeg(i, l)
    BY <1>3
  <2> HIDE DEF l
  <2> QED  BY <2>1, <2>2, WriteShuts
<1> QED  BY <1>1, <1>2, <1>3

\* A desk whose requests no other overlaps keeps the copies to one trip each.
LEMMA DeskTrips ==
    ASSUME HoldTypeOK, Secured, NoOverlap, TripsInv, NEW d \in Desks,
           HoldRequest(d) \/ Checkin(d) \/ Checkout(d) \/ Bail(d)
    PROVE  TripsInv'
<1> DEFINE q == desk[d]
<1>1. ASSUME NEW n, desk' = [desk EXCEPT ![d] = n], UNCHANGED transit,
             n.via # 0 => n.leg = LegAt(n.via)
      PROVE  TripsInv'
  <2>1. \A e \in Desks : desk'[e] = IF e = d THEN n ELSE desk[e]
    BY <1>1 DEF HoldTypeOK
  <2>2. LegsTrue'
    BY <1>1, <2>1 DEF TripsInv, LegsTrue, LegAt
  <2>3. OneTrip'
    BY <1>1 DEF TripsInv, OneTrip, OnTheWay
  <2> QED  BY <2>2, <2>3 DEF TripsInv
<1>2. ASSUME NEW n, desk' = [desk EXCEPT ![d] = n], n.via = 0, q.pc # "idle", OneTrip'
      PROVE  TripsInv'
  <2>1. \A e \in Desks : desk'[e] = IF e = d THEN n ELSE desk[e]
    BY <1>2 DEF HoldTypeOK
  <2>2. \A e \in Desks : e # d => desk[e].pc = "idle"
    BY <1>2 DEF NoOverlap
  <2>3. LegsTrue'
    BY <1>2, <2>1, <2>2 DEF LegsTrue
  <2> QED  BY <1>2, <2>3 DEF TripsInv
<1>3. IdleDesk.via = 0
  BY DEF IdleDesk
<1>4. ASSUME Finish(d), q.pc # "idle", Shuts(transit') PROVE TripsInv'
  BY <1>2, <1>3, <1>4, ShutsOne DEF Finish, TripsInv
<1>5. ASSUME Finish(d), q.pc # "idle", UNCHANGED transit PROVE TripsInv'
  BY <1>1, <1>3, <1>5 DEF Finish
<1>6. ASSUME NEW n, Serve(d, n), n.via # 0 => n.leg = LegAt(n.via) PROVE TripsInv'
  BY <1>1, <1>6 DEF Serve, rows
<1>7. ASSUME NEW h \in Holds, BeginCancel(d, h) PROVE TripsInv'
  <2>1. PICK i : Serve(d, ReadyLeg("cancel", h, i))
    BY <1>7 DEF BeginCancel, ReadyLeg
  <2>2. ReadyLeg("cancel", h, i).via = i /\ ReadyLeg("cancel", h, i).leg = LegAt(i)
    BY DEF ReadyLeg, IdleDesk
  <2> QED  BY <1>6, <2>1, <2>2
<1>8. ASSUME NEW h \in Holds, BeginUncancel(d, h) \/ BeginFreeze(d, h) \/ BeginThaw(d, h)
      PROVE  TripsInv'
  <2>1. PICK op \in {"uncancel", "freeze", "thaw"} : Serve(d, Ready(op, h))
    BY <1>8 DEF BeginUncancel, BeginFreeze, BeginThaw, Ready
  <2>2. Ready(op, h).via = 0
    BY DEF Ready, IdleDesk
  <2> QED  BY <1>6, <2>1, <2>2
<1>9. ASSUME NEW h \in Holds, BeginReset(d, h) PROVE TripsInv'
  <2>1. [IdleDesk EXCEPT !.op = "reset", !.pc = "scanned", !.who = h].via = 0
    BY DEF IdleDesk
  <2> QED  BY <1>6, <1>9, <2>1 DEF BeginReset
<1>10. ASSUME NEW i \in TransitIds, BeginAbort(d, i) PROVE TripsInv'
  <2> DEFINE n == [IdleDesk EXCEPT !.op = "abort", !.pc = "ready", !.copy = transit[i].copy,
                       !.status = copy[transit[i].copy], !.via = i, !.leg = transit[i]]
  <2>1. n.via = i /\ n.leg = transit[i]
    BY DEF IdleDesk
  <2>2. i # 0
    BY RowsAssumption DEF TransitIds
  <2>3. Serve(d, n)
    BY <1>10 DEF BeginAbort
  <2> HIDE DEF n
  <2> QED  BY <1>6, <2>1, <2>2, <2>3 DEF LegAt
<1>11. ASSUME NEW c \in Copies, NEW l \in Libs, ScanIn(d, c, l) PROVE TripsInv'
  <2> DEFINE n(i) == [IdleDesk EXCEPT !.op = "checkin", !.pc = "scanned", !.copy = c, !.lib = l,
                         !.status = IF i = 0 THEN copy[c] ELSE "in_transit",
                         !.via = i, !.leg = LegAt(i)]
  <2>1. PICK i : Serve(d, n(i))
    BY <1>11 DEF ScanIn
  <2>2. n(i).via = i /\ n(i).leg = LegAt(i)
    BY DEF IdleDesk
  <2> HIDE DEF n
  <2> QED  BY <1>6, <2>1, <2>2
<1>12. ASSUME NEW c \in Copies, NEW w \in Holds \cup {NoHold}, ScanOut(d, c, w) PROVE TripsInv'
  <2>1. [IdleDesk EXCEPT !.op = "checkout", !.pc = "scanned", !.copy = c, !.who = w,
                         !.status = copy[c]].via = 0
    BY DEF IdleDesk
  <2> QED  BY <1>6, <1>12, <2>1 DEF ScanOut
<1>13. CASE ReadReset(d)
  <2> DEFINE r == hold[q.who]
             has == r.captured /\ r.current # NoCopy
             moving == has /\ copy[r.current] = "in_transit"
             n(i) == [q EXCEPT !.pc = "ready", !.copy = IF has THEN r.current ELSE NoCopy,
                            !.status = IF has THEN copy[r.current] ELSE "available",
                            !.via = i, !.leg = LegAt(i), !.held = Read({q.who})]
  <2>1. PICK i : desk' = [desk EXCEPT ![d] = n(i)]
    BY <1>13 DEF ReadReset
  <2>2. n(i).via = i /\ n(i).leg = LegAt(i)
    BY DeskFields DEF IsRequest
  <2>3. UNCHANGED transit
    BY <1>13 DEF ReadReset, rows
  <2> HIDE DEF n
  <2> QED  BY <1>1, <2>1, <2>2, <2>3
<1>14. ASSUME NEW p, NEW h, NEW f, desk' = [desk EXCEPT ![d] = [q EXCEPT !.pc = p, !.who = h, !.held = f]],
              UNCHANGED transit, q.pc # "idle"
       PROVE  TripsInv'
  <2> DEFINE n == [q EXCEPT !.pc = p, !.who = h, !.held = f]
  <2>1. n.via = q.via /\ n.leg = q.leg
    BY DeskFields DEF IsRequest
  <2>2. n.via # 0 => n.leg = LegAt(n.via)
    BY <1>14, <2>1 DEF TripsInv, LegsTrue, LegAt
  <2> HIDE DEF n
  <2> QED  BY <1>1, <1>14, <2>2 DEF n
<1>15. ASSUME NEW p, NEW f, desk' = [desk EXCEPT ![d] = [q EXCEPT !.pc = p, !.held = f]],
              UNCHANGED transit, q.pc # "idle"
       PROVE  TripsInv'
  <2>1. [q EXCEPT !.pc = p, !.held = f] = [q EXCEPT !.pc = p, !.who = q.who, !.held = f]
    BY DeskFields DEF IsRequest
  <2> QED  BY <1>14, <1>15, <2>1
<1>16. CASE FindRemoteHold(d) \/ FindArrivedHold(d) \/ FindHold(d)
  <2>1. \E h, f, p : desk' = [desk EXCEPT ![d] = [q EXCEPT !.pc = p, !.who = h, !.held = f]]
    BY <1>16 DEF FindRemoteHold, FindArrivedHold, FindHold
  <2>2. UNCHANGED transit /\ q.pc # "idle"
    BY <1>16 DEF FindRemoteHold, FindArrivedHold, FindHold, Unneeded, Scanned, rows
  <2> QED  BY <1>14, <2>1, <2>2
<1>17. CASE FindNoHold(d) \/ FindOpenHold(d)
  <2>1. \E f, p : desk' = [desk EXCEPT ![d] = [q EXCEPT !.pc = p, !.held = f]]
    BY <1>17 DEF FindNoHold, FindOpenHold
  <2>2. UNCHANGED transit /\ q.pc # "idle"
    BY ZenonT(30), <1>17 DEF FindNoHold, FindOpenHold, Unneeded, Scanned, rows
  <2> QED  BY <1>15, <2>1, <2>2
<1>18. CASE CommitUncancel(d) \/ CommitFreeze(d) \/ CommitCheckout(d) \/ NothingToDo(d) \/ Bail(d)
  BY <1>5, <1>18 DEF CommitUncancel, CommitFreeze, CommitCheckout, NothingToDo, Bail, Scanned, rows
<1>19. q.via # 0 /\ q.pc # "idle" => q.via \in TransitIds /\ q.leg \in Leg /\ q.leg = transit[q.via]
  BY ViaType DEF TripsInv, LegsTrue
<1>20. CASE CommitCancel(d)
  <2> DEFINE l == [q.leg EXCEPT !.to = "available"]
  <2>1. Finish(d) /\ q.pc # "idle" /\ (IF q.via = 0 THEN UNCHANGED transit ELSE WriteLeg(q.via, l))
    BY <1>20 DEF CommitCancel
  <2>2. q.via # 0 => l.state = transit[q.via].state /\ l.copy = transit[q.via].copy
    BY <1>19, <2>1 DEF Leg
  <2> HIDE DEF l
  <2> QED  BY <1>4, <1>5, <1>19, <2>1, <2>2, WriteShuts
<1>21. [q.leg EXCEPT !.state = "cancelled"].state # "open" \/ q.leg \notin Leg
  BY DEF Leg
<1>22. CASE CommitReset(d)
  <2>1. /\ Finish(d) /\ q.pc # "idle"
        /\ IF q.via = 0 THEN UNCHANGED transit
           ELSE WriteLeg(q.via, [q.leg EXCEPT !.state = "cancelled"])
    BY <1>22 DEF CommitReset
  <2> QED  BY <1>4, <1>5, <1>19, <1>21, <2>1, WriteShuts
<1>23. CASE CommitAbort(d)
  <2> DEFINE n == IF q.leg.hold = NoHold THEN IdleDesk
                  ELSE [IdleDesk EXCEPT !.op = "reset", !.pc = "scanned", !.who = q.leg.hold]
  <2>1. /\ desk' = [desk EXCEPT ![d] = n] /\ n.via = 0 /\ q.pc # "idle" /\ q.via # 0
        /\ WriteLeg(q.via, [q.leg EXCEPT !.state = "cancelled"])
    BY <1>23, DeskFields DEF CommitAbort, Finish, IdleDesk
  <2>2. OneTrip'
    BY <1>19, <1>21, <2>1, WriteShuts, ShutsOne DEF TripsInv
  <2> HIDE DEF n
  <2> QED  BY <1>2, <2>1, <2>2
<1>24. CASE AbortForCirc(d) \/ ResetForCirc(d)
  <2>1. PICK n : desk' = [desk EXCEPT ![d] = n] /\ n.via = 0
    BY SMTT(30), <1>24, AbortRequest
  <2>2. q.pc # "idle"
    BY <1>24 DEF AbortForCirc, ResetForCirc, Scanned
  <2>3. OneTrip'
    BY <1>24, CircShuts, ShutsOne DEF TripsInv
  <2> QED  BY <1>2, <2>1, <2>2, <2>3
<1>25. CASE CommitArrive(d)
  BY <1>4, <1>25, ReceivedShuts DEF CommitArrive
<1>26. ASSUME NEW legs \in {transit, Received(q)}, NEW h, NEW l, NEW s, Depart(q, legs, h, l, s),
              Finish(d), q.pc # "idle"
       PROVE  TripsInv'
  <2>1. legs \in [TransitIds -> Leg \cup {NoLeg}] /\ Shuts(legs)
    BY ReceivedShuts DEF HoldTypeOK
  <2>2. OneTrip'
    BY <1>26, <2>1, DepartsOnce DEF TripsInv
  <2> QED  BY <1>2, <1>3, <1>26, <2>2 DEF Finish
<1>27. CASE CommitForward(d)
  BY <1>26, <1>27 DEF CommitForward
<1>28. CASE CommitCapture(d)
  <2>1. \/ transit' = Received(q)
        \/ Depart(q, Received(q), q.who, PickupLib[q.who], "on_shelf")
    BY <1>28 DEF CommitCapture
  <2>2. Finish(d) /\ q.pc # "idle"
    BY <1>28 DEF CommitCapture
  <2> QED  BY <1>4, <1>26, <2>1, <2>2, ReceivedShuts
<1>29. CASE CommitShelve(d)
  <2>1. \/ transit' = Received(q)
        \/ Depart(q, Received(q), NoHold, HomeLib[q.copy], Settling(q))
    BY <1>29 DEF CommitShelve
  <2>2. Finish(d) /\ q.pc # "idle"
    BY <1>29 DEF CommitShelve
  <2> QED  BY <1>4, <1>26, <2>1, <2>2, ReceivedShuts
<1>30. CASE HoldRequest(d)
  BY <1>7, <1>8, <1>9, <1>10, <1>13, <1>18, <1>20, <1>22, <1>23, <1>30 DEF HoldRequest
<1>31. CASE Checkin(d)
  BY <1>11, <1>16, <1>17, <1>18, <1>24, <1>25, <1>27, <1>28, <1>29, <1>31 DEF Checkin
<1>32. CASE Checkout(d)
  BY <1>12, <1>17, <1>18, <1>32 DEF Checkout
<1> QED  BY <1>18, <1>30, <1>31, <1>32

\* While transactions do not overlap, no copy has two open transits.
THEOREM TripsOne == Spec /\ []NoOverlap => []OneTrip
<1>1. Init => TripsInv
  BY DEF Init, TripsInv, OneTrip, OnTheWay, LegsTrue, NoLeg, IdleDesk
<1>2. TransitInv /\ NoOverlap /\ TripsInv /\ [Next]_vars => TripsInv'
  <2> SUFFICES ASSUME TransitInv, NoOverlap, TripsInv, [Next]_vars PROVE TripsInv'
    OBVIOUS
  <2>1. HoldTypeOK /\ Secured
    BY TransitInvParts
  <2>2. CASE UNCHANGED <<transit, desk>>
    BY <2>2 DEF TripsInv, OneTrip, OnTheWay, LegsTrue
  <2>3. ASSUME NEW t \in Targeters, Target(t) PROVE UNCHANGED <<transit, desk>>
    BY <2>3 DEF Target, TargetRead, TargetAsked, TargetChoose, TargetWrite, TargetCancel,
                WriteColumns, TargetExit, rows
  <2>4. CASE UNCHANGED vars
    BY <2>2, <2>4 DEF vars
  <2> QED  BY <2>1, <2>2, <2>3, <2>4, DeskTrips DEF Next
<1>3. TripsInv => OneTrip
  BY DEF TripsInv
<1> QED  BY <1>1, <1>2, <1>3, TransitsKnown, PTL DEF Spec

-----------------------------------------------------------------------------
(* A check-in that nothing overlaps.                                       *)

\* Nothing else runs beside the request of d.
Undisturbed(d) ==
    /\ \A t \in Targeters : tgt[t].pc = "idle"
    /\ \A e \in Desks : e # d => desk[e].pc = "idle"

\* Then a check-in knows all open transits of its copy, and its status unless it is
\* in transit.
KnowsTrip(q, legs, status) ==
    q.op = "checkin" =>
        /\ q.via = 0 => OpenLegs(legs, q.copy) = {}
        /\ q.via # 0 => OpenLegs(legs, q.copy) \subseteq {q.via}
        /\ q.status # "in_transit" => status[q.copy] = q.status /\ (q.via = 0 => q.leg.hold = NoHold)
AloneInv == \A d \in alone : Undisturbed(d) /\ KnowsTrip(desk[d], transit, copy)

\* A desk that is alone goes on with its request, or begins one.
LEMMA AloneGoesOn ==
    ASSUME HoldTypeOK, AloneInv, NEW d \in Desks, NEW q, desk' = [desk EXCEPT ![d] = q],
           UNCHANGED tgt, KnowsTrip(q, transit', copy'),
           \/ desk[d].pc # "idle" /\ UNCHANGED alone
           \/ alone' = {}
           \/ alone' = {d} /\ Busy = {}
    PROVE  AloneInv'
<1>1. \A e \in Desks : desk'[e] = IF e = d THEN q ELSE desk[e]
  BY DEF HoldTypeOK
<1>2. ASSUME NEW e \in alone' PROVE e = d /\ Undisturbed(d)
  <2>1. CASE desk[d].pc # "idle" /\ UNCHANGED alone
    BY <1>2, <2>1 DEF AloneInv, Undisturbed
  <2>2. CASE alone' = {d} /\ Busy = {}
    BY <1>2, <2>2 DEF Busy, Undisturbed
  <2> QED  BY <1>2, <2>1, <2>2
<1>3. ASSUME NEW e \in alone' PROVE Undisturbed(e)'
  BY <1>1, <1>2, <1>3 DEF Undisturbed
<1>4. ASSUME NEW e \in alone' PROVE KnowsTrip(desk'[e], transit', copy')
  BY <1>1, <1>2, <1>4
<1>5. (\A e \in alone : KnowsTrip(desk[e], transit, copy))'
  BY <1>4 DEF KnowsTrip, OpenLegs
<1>6. (\A e \in alone : Undisturbed(e))'
  BY <1>3
<1> QED  BY <1>5, <1>6 DEF AloneInv

\* The steps of a desk.
LEMMA DeskAlone ==
    ASSUME HoldTypeOK, Secured, OneTrip, AloneInv, NEW d \in Desks,
           HoldRequest(d) \/ Checkin(d) \/ Checkout(d) \/ Bail(d)
    PROVE  AloneInv'
<1> DEFINE q == desk[d]
<1>1. ASSUME NEW n, Serve(d, n), n.op # "checkin" PROVE AloneInv'
  <2>1. KnowsTrip(n, transit', copy')
    BY <1>1 DEF KnowsTrip
  <2> QED  BY <1>1, <2>1, AloneGoesOn DEF Serve
<1>2. ASSUME NEW n, desk' = [desk EXCEPT ![d] = n], n.op # "checkin", q.pc # "idle",
             UNCHANGED <<tgt, alone>>
      PROVE  AloneInv'
  <2>1. KnowsTrip(n, transit', copy')
    BY <1>2 DEF KnowsTrip
  <2> QED  BY <1>2, <2>1, AloneGoesOn
<1>3. ASSUME Finish(d), q.pc # "idle", UNCHANGED <<tgt, alone>> PROVE AloneInv'
  <2>1. IdleDesk.op # "checkin"
    BY DEF IdleDesk
  <2> QED  BY <1>2, <1>3, <2>1 DEF Finish
<1>4. ASSUME NEW n, desk' = [desk EXCEPT ![d] = n], q.pc # "idle", UNCHANGED <<rows, tgt, alone>>,
             n.op = q.op, n.via = q.via, n.copy = q.copy, n.status = q.status, n.leg = q.leg
      PROVE  AloneInv'
  <2>1. CASE d \in alone
    <3>1. KnowsTrip(n, transit', copy')
      BY <1>4, <2>1 DEF AloneInv, KnowsTrip, rows
    <3> QED  BY <1>4, <3>1, AloneGoesOn
  <2>2. CASE d \notin alone
    <3>1. alone' = {}
      BY <1>4, <2>2 DEF AloneInv, Undisturbed, HoldTypeOK
    <3> QED  BY <3>1 DEF AloneInv
  <2> QED  BY <2>1, <2>2
<1>5. ASSUME NEW c \in Copies, NEW l \in Libs, ScanIn(d, c, l) PROVE AloneInv'
  <2> DEFINE n(i) == [IdleDesk EXCEPT !.op = "checkin", !.pc = "scanned", !.copy = c, !.lib = l,
                         !.status = IF i = 0 THEN copy[c] ELSE "in_transit",
                         !.via = i, !.leg = LegAt(i)]
  <2>1. PICK i \in First(OnTheWay(c)) : Serve(d, n(i))
    BY <1>5 DEF ScanIn
  <2>2. /\ n(i).via = i /\ n(i).copy = c /\ (n(i).status # "in_transit" => n(i).status = copy[c])
        /\ n(i).leg = LegAt(i)
    BY DEF IdleDesk
  <2>3. OnTheWay(c) = OpenLegs(transit, c) /\ 0 \notin OnTheWay(c)
    BY RowsAssumption DEF OnTheWay, OpenLegs, TransitIds
  <2>4. (i = 0 => OpenLegs(transit, c) = {}) /\ (i # 0 => OpenLegs(transit, c) \subseteq {i})
    BY <2>1, <2>3 DEF First, OneTrip
  <2>5. UNCHANGED <<rows, tgt>> /\ desk' = [desk EXCEPT ![d] = n(i)]
        /\ (alone' = {} \/ (alone' = {d} /\ Busy = {}))
    BY <2>1 DEF Serve
  <2> HIDE DEF n
  <2>6. KnowsTrip(n(i), transit', copy')
    BY <2>2, <2>4, <2>5 DEF KnowsTrip, rows, LegAt, NoLeg
  <2> QED  BY <2>5, <2>6, AloneGoesOn
<1>6. CASE AbortForCirc(d) \/ ResetForCirc(d)
  <2>1. PICK n : /\ desk' = [desk EXCEPT ![d] = n]
                 /\ n.op = "checkin" /\ n.via = 0 /\ n.copy = q.copy /\ n.status = q.status
    BY SMTT(30), <1>6, AbortRequest
  <2>2. q.op = "checkin" /\ q.pc # "idle" /\ UNCHANGED <<tgt, alone>>
    BY <1>6 DEF AbortForCirc, ResetForCirc, Scanned
  <2>3. CASE d \in alone
    <3>1. KnowsTrip(q, transit, copy)
      BY <2>3 DEF AloneInv
    <3>2. q.status = "in_transit"
      <4>1. CASE AbortForCirc(d)
        BY <2>2, <4>1 DEF AbortForCirc, Secured, KnowsTransit
      <4>2. CASE ResetForCirc(d)
        BY <2>2, <3>1, <4>2 DEF ResetForCirc, Resetting, KnowsTrip
      <4> QED  BY <1>6, <4>1, <4>2
    <3>3. OpenLegs(transit', q.copy) = {}
      <4>1. CASE AbortForCirc(d)
        <5> DEFINE l == [transit[q.via] EXCEPT !.state = "cancelled"]
        <5>1. q.via # 0 /\ WriteLeg(q.via, l)
          BY <4>1 DEF AbortForCirc
        <5>2. q.via \in TransitIds /\ l.state = "cancelled"
          BY <5>1, ViaType DEF Secured, KnowsTransit, HoldTypeOK, Leg, NoLeg
        <5> HIDE DEF l
        <5>3. \A i \in TransitIds : transit'[i] = IF i = q.via THEN l ELSE transit[i]
          BY <5>1 DEF WriteLeg, HoldTypeOK
        <5> QED  BY <2>2, <3>1, <5>1, <5>2, <5>3 DEF OpenLegs, KnowsTrip
      <4>2. CASE ResetForCirc(d)
        <5>1. OpenLegs(transit, q.copy) = {}
          BY <2>2, <3>1, <4>2 DEF ResetForCirc, Resetting, KnowsTrip
        <5>2. Shuts(transit')
          BY <4>2, CircShuts
        <5> QED  BY <5>1, <5>2 DEF Shuts, OpenLegs
      <4> QED  BY <1>6, <4>1, <4>2
    <3>4. KnowsTrip(n, transit', copy')
      BY <2>1, <3>2, <3>3 DEF KnowsTrip
    <3> QED  BY <2>1, <2>2, <3>4, AloneGoesOn
  <2>4. CASE d \notin alone
    <3>1. alone' = {}
      BY <2>2, <2>4 DEF AloneInv, Undisturbed, HoldTypeOK
    <3> QED  BY <3>1 DEF AloneInv
  <2> QED  BY <2>3, <2>4
<1>7. IsRequest(q)
  BY DeskFields
<1>8. CASE FindRemoteHold(d) \/ FindArrivedHold(d) \/ FindHold(d)
  <2>1. PICK p, h, f : desk' = [desk EXCEPT ![d] = [q EXCEPT !.pc = p, !.who = h, !.held = f]]
    BY <1>8 DEF FindRemoteHold, FindArrivedHold, FindHold
  <2> DEFINE n == [q EXCEPT !.pc = p, !.who = h, !.held = f]
  <2>2. n.op = q.op /\ n.via = q.via /\ n.copy = q.copy /\ n.status = q.status /\ n.leg = q.leg
    BY <1>7 DEF IsRequest
  <2>3. UNCHANGED <<rows, tgt, alone>> /\ q.pc # "idle"
    BY <1>8 DEF FindRemoteHold, FindArrivedHold, FindHold, Unneeded, Scanned
  <2>4. desk' = [desk EXCEPT ![d] = n]
    BY <2>1
  <2> HIDE DEF n
  <2> QED  BY <1>4, <2>2, <2>3, <2>4
<1>9. CASE FindNoHold(d)
  <2> DEFINE n == [q EXCEPT !.pc = "shelve", !.held = Read(GoneHold(d))]
  <2>1. desk' = [desk EXCEPT ![d] = n] /\ UNCHANGED <<rows, tgt, alone>> /\ q.pc # "idle"
    BY <1>9 DEF FindNoHold, Unneeded, Scanned
  <2>2. n.op = q.op /\ n.via = q.via /\ n.copy = q.copy /\ n.status = q.status /\ n.leg = q.leg
    BY <1>7 DEF IsRequest
  <2> HIDE DEF n
  <2> QED  BY <1>4, <2>1, <2>2
<1>10. CASE FindOpenHold(d)
  <2>1. PICK f : desk' = [desk EXCEPT ![d] = [q EXCEPT !.pc = "ready", !.held = f]]
    BY <1>10 DEF FindOpenHold
  <2>2. [q EXCEPT !.pc = "ready", !.held = f].op # "checkin"
    BY <1>7, <1>10 DEF IsRequest, FindOpenHold
  <2>3. UNCHANGED <<tgt, alone>> /\ q.pc # "idle"
    BY <1>10 DEF FindOpenHold
  <2> QED  BY <1>2, <2>1, <2>2, <2>3
<1>11. CASE ReadReset(d)
  <2> DEFINE r == hold[q.who]
             has == r.captured /\ r.current # NoCopy
             moving == has /\ copy[r.current] = "in_transit"
             n(i) == [q EXCEPT !.pc = "ready", !.copy = IF has THEN r.current ELSE NoCopy,
                            !.status = IF has THEN copy[r.current] ELSE "available",
                            !.via = i, !.leg = LegAt(i), !.held = Read({q.who})]
  <2>1. PICK i : desk' = [desk EXCEPT ![d] = n(i)]
    BY <1>11 DEF ReadReset
  <2>2. n(i).op # "checkin"
    BY <1>7, <1>11 DEF IsRequest, ReadReset
  <2>3. UNCHANGED <<tgt, alone>> /\ q.pc # "idle"
    BY <1>11 DEF ReadReset
  <2> HIDE DEF n
  <2> QED  BY <1>2, <2>1, <2>2, <2>3
<1>12. CASE CommitAbort(d)
  <2> DEFINE n == IF q.leg.hold = NoHold THEN IdleDesk
                  ELSE [IdleDesk EXCEPT !.op = "reset", !.pc = "scanned", !.who = q.leg.hold]
  <2>1. /\ desk' = [desk EXCEPT ![d] = n] /\ n.op # "checkin" /\ q.pc # "idle"
        /\ UNCHANGED <<tgt, alone>>
    BY <1>12 DEF CommitAbort, Finish, IdleDesk
  <2> HIDE DEF n
  <2> QED  BY <1>2, <2>1
<1>13. CASE NothingToDo(d) \/ Bail(d)
  BY <1>3, <1>13 DEF NothingToDo, Bail, Scanned
<1>14. CASE \/ CommitCancel(d) \/ CommitUncancel(d) \/ CommitFreeze(d) \/ CommitReset(d)
            \/ CommitForward(d) \/ CommitArrive(d) \/ CommitCapture(d) \/ CommitShelve(d)
            \/ CommitCheckout(d)
  <2>1. Finish(d) /\ q.pc # "idle" /\ UNCHANGED <<tgt, alone>>
    BY <1>14 DEF CommitCancel, CommitUncancel, CommitFreeze, CommitReset, CommitForward,
                 CommitArrive, CommitCapture, CommitShelve, CommitCheckout
  <2> QED  BY SMTT(30), <1>3, <2>1
<1>15. ASSUME NEW h \in Holds, \/ BeginCancel(d, h) \/ BeginUncancel(d, h) \/ BeginFreeze(d, h)
                               \/ BeginThaw(d, h) \/ BeginReset(d, h)
       PROVE  AloneInv'
  <2>1. CASE BeginCancel(d, h)
    <3>1. PICK i : Serve(d, ReadyLeg("cancel", h, i))
      BY <2>1 DEF BeginCancel, ReadyLeg
    <3>2. ReadyLeg("cancel", h, i).op # "checkin"
      BY DEF ReadyLeg, IdleDesk
    <3> QED  BY <1>1, <3>1, <3>2
  <2>2. CASE BeginUncancel(d, h) \/ BeginFreeze(d, h) \/ BeginThaw(d, h)
    <3>1. PICK op \in {"uncancel", "freeze", "thaw"} : Serve(d, Ready(op, h))
      BY <2>2 DEF BeginUncancel, BeginFreeze, BeginThaw, Ready
    <3>2. Ready(op, h).op # "checkin"
      BY DEF Ready, IdleDesk
    <3> QED  BY <1>1, <3>1, <3>2
  <2>3. CASE BeginReset(d, h)
    BY <1>1, <2>3 DEF BeginReset, IdleDesk
  <2> QED  BY <1>15, <2>1, <2>2, <2>3
<1>16. ASSUME NEW i \in TransitIds, BeginAbort(d, i) PROVE AloneInv'
  BY <1>1, <1>16 DEF BeginAbort, IdleDesk
<1>17. ASSUME NEW c \in Copies, NEW w \in Holds \cup {NoHold}, ScanOut(d, c, w) PROVE AloneInv'
  BY <1>1, <1>17 DEF ScanOut, IdleDesk
<1>18. CASE HoldRequest(d)
  BY <1>11, <1>12, <1>14, <1>15, <1>16, <1>18 DEF HoldRequest
<1>19. CASE Checkin(d)
  BY <1>5, <1>6, <1>8, <1>9, <1>13, <1>14, <1>19 DEF Checkin
<1>20. CASE Checkout(d)
  BY <1>10, <1>14, <1>17, <1>20 DEF Checkout
<1> QED  BY <1>13, <1>18, <1>19, <1>20

\* A targeter that begins ends the solitude of every desk, and none goes on beside one.
LEMMA TargetAlone ==
    ASSUME HoldTypeOK, AloneInv, NEW t \in Targeters, Target(t)
    PROVE  AloneInv'
<1>1. CASE tgt[t].pc # "idle"
  <2>1. alone = {}
    BY <1>1 DEF AloneInv, Undisturbed
  <2>2. alone' = {}
    BY <1>1, <2>1 DEF Target, TargetRead, TargetAsked, TargetChoose, TargetWrite, TargetCancel,
                      WriteColumns, TargetExit
  <2> QED  BY <2>2 DEF AloneInv
<1>2. CASE tgt[t].pc = "idle"
  <2>1. alone' = {} \/ UNCHANGED <<rows, tgt, desk, alone>>
    BY <1>2 DEF Target, TargetRead, TargetAsked, TargetChoose, TargetWrite, TargetCancel, TargetExit
  <2>2. CASE alone' = {}
    BY <2>2 DEF AloneInv
  <2>3. CASE UNCHANGED <<rows, tgt, desk, alone>>
    BY <2>3 DEF AloneInv, Undisturbed, KnowsTrip, OpenLegs, rows
  <2> QED  BY <2>1, <2>2, <2>3
<1> QED  BY <1>1, <1>2

\* What a check-in that knows its trip leaves.
LEMMA SettlesWell ==
    ASSUME HoldTypeOK, Secured, AloneInv, NEW d \in Desks, d \in alone, Settles(d)
    PROVE  /\ copy'[desk[d].copy] = "in_transit" <=> OpenLegs(transit', desk[d].copy) # {}
           /\ Cardinality(OpenLegs(transit', desk[d].copy)) <= 1
<1> DEFINE q == desk[d]
           open == OpenLegs(transit', q.copy)
<1>1. q.op = "checkin" /\ q.copy \in Copies /\ KnowsTrip(q, transit, copy)
  BY DeskFields DEF Settles, CommitForward, CommitArrive, CommitCapture, CommitShelve, AloneInv
<1>2. ASSUME NEW legs \in {transit, Received(q)}, NEW h, NEW l, NEW s, Depart(q, legs, h, l, s)
      PROVE  copy'[q.copy] = "in_transit" /\ \E i : open = {i}
  <2>1. legs \in [TransitIds -> Leg \cup {NoLeg}]
    BY ReceivedShuts DEF HoldTypeOK
  <2>2. copy' = [copy EXCEPT ![q.copy] = "in_transit"]
    BY <1>2 DEF Depart
  <2> QED  BY <1>1, <1>2, <2>1, <2>2, DepartsOnce DEF HoldTypeOK
<1>3. ASSUME transit' = Received(q) PROVE open = {}
  <2>1. CASE q.via = 0
    BY <1>1, <1>3, <2>1 DEF Received, KnowsTrip
  <2>2. CASE q.via # 0
    BY <1>1, <1>3, <2>2, ReceivedShuts DEF OpenLegs, KnowsTrip, Shuts
  <2> QED  BY <2>1, <2>2
<1>4. \A s : copy' = [copy EXCEPT ![q.copy] = s] => copy'[q.copy] = s
  BY <1>1 DEF HoldTypeOK
<1>5. \/ copy'[q.copy] = "in_transit" /\ \E i : open = {i}
      \/ copy'[q.copy] # "in_transit" /\ open = {}
  <2>1. CASE CommitForward(d)
    BY <1>2, <2>1 DEF CommitForward
  <2>2. CASE CommitArrive(d)
    <3>1. q.leg.to # "in_transit"
      BY DeskFields DEF Leg, NoLeg
    <3> QED  BY <1>3, <1>4, <2>2, <3>1 DEF CommitArrive
  <2>3. CASE CommitCapture(d)
    BY <1>2, <1>3, <1>4, <2>3 DEF CommitCapture
  <2>4. CASE CommitShelve(d)
    <3>1. \/ Depart(q, Received(q), NoHold, HomeLib[q.copy], Settling(q))
          \/ transit' = Received(q) /\ q.status = "available" /\ UNCHANGED copy
          \/ transit' = Received(q) /\ copy' = [copy EXCEPT ![q.copy] = "available"]
      BY <2>4 DEF CommitShelve
    <3>2. q.status = "available" => copy[q.copy] = "available"
      BY <1>1 DEF KnowsTrip
    <3> QED  BY <1>2, <1>3, <1>4, <3>1, <3>2
  <2> QED  BY <2>1, <2>2, <2>3, <2>4 DEF Settles
<1> HIDE DEF open
<1>6. Cardinality({}) = 0 /\ \A i : Cardinality({i}) = 1
  BY FS_EmptySet, FS_Singleton
<1>7. (copy'[q.copy] = "in_transit" <=> open # {}) /\ Cardinality(open) <= 1
  <2>1. CASE copy'[q.copy] = "in_transit" /\ \E i : open = {i}
    <3>1. PICK i : open = {i}
      BY <2>1
    <3>2. Cardinality(open) = 1
      BY <1>6, <3>1, Zenon
    <3> QED  BY <2>1, <3>1, <3>2
  <2>2. CASE copy'[q.copy] # "in_transit" /\ open = {}
    BY <1>6, <2>2
  <2> QED  BY <1>5, <2>1, <2>2
<1> QED  BY <1>7 DEF open

\* As long as no copy has two open transits, a check-in that nothing overlaps leaves
\* status and transit of its copy in agreement, whatever transactions overlapped before.
THEOREM AloneRepairs == Spec /\ []OneTrip => CheckinRepairs
<1>1. Init => AloneInv
  BY DEF Init, AloneInv
<1>2. TransitInv /\ OneTrip /\ AloneInv /\ [Next]_vars => AloneInv'
  <2> SUFFICES ASSUME TransitInv, OneTrip, AloneInv, [Next]_vars PROVE AloneInv'
    OBVIOUS
  <2>1. HoldTypeOK /\ Secured
    BY TransitInvParts
  <2>2. CASE UNCHANGED vars
    BY <2>2 DEF vars, AloneInv, Undisturbed, KnowsTrip, OpenLegs
  <2> QED  BY <2>1, <2>2, DeskAlone, TargetAlone DEF Next
<1> DEFINE Repairs == \A d \in Desks, c \in Copies :
              d \in alone /\ desk[d].copy = c /\ Settles(d)
                => Tracked(c)' /\ Cardinality(OnTheWay(c)') <= 1
<1>3. TransitInv /\ AloneInv => Repairs
  <2> SUFFICES ASSUME TransitInv, AloneInv, NEW d \in Desks, NEW c \in Copies,
                      d \in alone, desk[d].copy = c, Settles(d)
               PROVE  Tracked(c)' /\ Cardinality(OnTheWay(c)') <= 1
    OBVIOUS
  <2>1. HoldTypeOK /\ Secured
    BY TransitInvParts
  <2>2. OnTheWay(c)' = OpenLegs(transit', c)
    BY DEF OnTheWay, OpenLegs
  <2> QED  BY <2>1, <2>2, SettlesWell DEF Tracked
<1>4. TransitInv /\ AloneInv => [Repairs]_vars
  BY <1>3
<1> HIDE DEF Repairs
<1>5. Spec /\ []OneTrip => [][Repairs]_vars
  BY <1>1, <1>2, <1>4, TransitsKnown, PTL DEF Spec
<1> QED  BY <1>5 DEF CheckinRepairs, Repairs

\* While transactions do not overlap, every check-in repairs: no copy ever has two open
\* transits then, whatever was aborted, cancelled or reset before (do_checkin).
THEOREM CheckinsRepair == Spec /\ []NoOverlap => CheckinRepairs
<1> QED  BY TripsOne, AloneRepairs, PTL

-----------------------------------------------------------------------------
(* Transactions that do not overlap.                                       *)

\* A row after which its hold claims no copy that it did not claim before.
Less(s, r) == Open(s) /\ s.current # NoCopy => Open(r) /\ s.current = r.current

\* The changes that take no copy.
LEMMA LessChanges ==
    ASSUME NEW r \in Row
    PROVE  /\ Less(r, r) /\ Less(Untargeted(r), r)
           /\ Less([Untargeted(r) EXCEPT !.cancelled = FALSE], r)
           /\ \A c : Less([r EXCEPT !.cancelled = TRUE, !.current = c], r)
           /\ Less([r EXCEPT !.cancelled = TRUE], r)
           /\ Less([r EXCEPT !.current = NoCopy], r)
           /\ Less([r EXCEPT !.frozen = FALSE], r)
           /\ Less([r EXCEPT !.frozen = TRUE, !.current = NoCopy], r)
           /\ \A l : Less([r EXCEPT !.shelf = l], r)
           /\ \A c : Less([r EXCEPT !.current = c, !.captured = TRUE, !.fulfilled = TRUE], r)
BY DEF Less, Untargeted, Open, Row

\* If no hold claims more, and no copy is borrowed, claims and loans still agree.
LEMMA LessKeeps ==
    ASSUME HoldTypeOK, SerialInv, \A h \in Holds : Less(hold'[h], hold[h]),
           out' \subseteq out, \A c \in out' : copy'[c] = copy[c]
    PROVE  OneClaimPerCopy' /\ BorrowedIsFree'
<1>1. OneClaimPerCopy'
  BY DEF SerialInv, OneClaimPerCopy, Less, Open
<1>2. ASSUME NEW c \in out' PROVE copy'[c] = "checked_out"
  BY <1>2 DEF SerialInv, BorrowedIsFree
<1>3. ASSUME NEW c \in out', NEW h \in Holds, Open(hold'[h]) PROVE hold'[h].current # c
  <2>1. c \in Copies /\ c # NoCopy
    BY NullsAssumption DEF HoldTypeOK
  <2>2. Open(hold[h]) => hold[h].current # c
    BY DEF SerialInv, BorrowedIsFree
  <2> QED  BY <1>3, <2>1, <2>2 DEF Less
<1>4. BorrowedIsFree'
  BY <1>2, <1>3 DEF BorrowedIsFree, Open
<1> QED  BY <1>1, <1>4

\* When a desk turns, no other transaction is under way.
LEMMA DeskTurn ==
    ASSUME HoldTypeOK, HoldTypeOK', NoOverlap, NoOverlap', SerialIInv, NEW d \in Desks,
           desk[d].pc # "idle" \/ desk'[d].pc # "idle",
           \A e \in Desks : e # d => desk'[e] = desk[e], UNCHANGED tgt,
           OneClaimPerCopy', BorrowedIsFree', ReadsTrue(desk[d])'
    PROVE  SerialIInv'
<1>1. ASSUME NEW t \in Targeters PROVE tgt'[t].pc = "idle"
  BY DEF NoOverlap
<1>2. \A t \in Targeters : TargetTrue(tgt[t])'
  BY <1>1 DEF TargetTrue
<1>3. ASSUME NEW e \in Desks, e # d PROVE desk'[e].pc = "idle"
  <2>1. desk'[e].pc = desk[e].pc
    BY <1>3
  <2> QED  BY <1>3, <2>1 DEF NoOverlap
<1>4. \A e \in Desks : ReadsTrue(desk[e])'
  BY <1>3 DEF ReadsTrue
<1> QED  BY <1>2, <1>4 DEF SerialIInv, SerialInv

\* A desk that finishes.
LEMMA DeskDone ==
    ASSUME HoldTypeOK, HoldTypeOK', NoOverlap, NoOverlap', SerialIInv, NEW d \in Desks,
           desk[d].pc # "idle", Finish(d), UNCHANGED tgt, OneClaimPerCopy', BorrowedIsFree'
    PROVE  SerialIInv'
<1>1. desk'[d] = IdleDesk /\ \A e \in Desks : e # d => desk'[e] = desk[e]
  BY DEF Finish, HoldTypeOK
<1>2. ReadsTrue(desk[d])'
  BY <1>1 DEF ReadsTrue, IdleDesk
<1> QED  BY <1>1, <1>2, DeskTurn

\* Rows are written back that claim no more than those that were read.
LEMMA WriteLess ==
    ASSUME HoldTypeOK, SerialIInv, NEW d \in Desks, desk[d].pc # "idle",
           NEW f, WriteHolds(f), DOMAIN f = DOMAIN desk[d].held,
           \A h \in DOMAIN f : Less(f[h], desk[d].held[h])
    PROVE  \A h \in Holds : Less(hold'[h], hold[h])
<1>1. hold' = [h \in Holds |-> IF h \in DOMAIN f THEN f[h] ELSE hold[h]]
  BY DEF WriteHolds
<1>2. ASSUME NEW h \in Holds PROVE Less(hold'[h], hold[h])
  <2>1. CASE h \in DOMAIN f
    <3>1. desk[d].held[h] = hold[h]
      BY <2>1 DEF SerialIInv, ReadsTrue
    <3> QED  BY <1>1, <2>1, <3>1
  <2>2. CASE h \notin DOMAIN f
    <3>1. hold'[h] = hold[h]
      BY <1>1, <2>2
    <3> QED  BY <3>1 DEF Less
  <2> QED  BY <2>1, <2>2
<1> QED  BY <1>2

\* One of the rows that were read is written back with a change.
LEMMA WriteOneLess ==
    ASSUME HoldTypeOK, SerialIInv, NEW d \in Desks, desk[d].pc # "idle",
           NEW r, WriteHolds([desk[d].held EXCEPT ![desk[d].who] = r]),
           desk[d].who \in DOMAIN desk[d].held => Less(r, desk[d].held[desk[d].who])
    PROVE  \A h \in Holds : Less(hold'[h], hold[h])
<1> DEFINE f == [desk[d].held EXCEPT ![desk[d].who] = r]
<1>1. /\ DOMAIN f = DOMAIN desk[d].held
      /\ \A h \in DOMAIN f : f[h] = IF h = desk[d].who THEN r ELSE desk[d].held[h]
  OBVIOUS
<1>2. WriteHolds(f)
  OBVIOUS
<1> HIDE DEF f
<1>3. \A h \in DOMAIN f : Less(f[h], desk[d].held[h])
  BY <1>1 DEF Less
<1> QED  BY <1>1, <1>2, <1>3, WriteLess

\* A step that leaves rows and transactions as they are.
LEMMA RowsSerial ==
    ASSUME HoldTypeOK', SerialIInv, UNCHANGED <<rows, tgt, desk>>
    PROVE  SerialIInv'
<1>1. (\A t \in Targeters : TargetTrue(tgt[t]))'
  BY DEF rows, SerialIInv, TargetTrue, Usable, Taken, ToBeTargeted, Waiting, Open
<1>2. (\A d \in Desks : ReadsTrue(desk[d]))'
  BY DEF rows, SerialIInv, ReadsTrue, Targeting, Open
<1>3. SerialInv'
  BY DEF rows, SerialIInv, SerialInv, OneClaimPerCopy, BorrowedIsFree, Open
<1> QED  BY <1>1, <1>2, <1>3 DEF SerialIInv

\* The steps of a targeter: no other transaction changes the row of its hold or takes
\* the copy it has chosen.
LEMMA TargetSerial ==
    ASSUME HoldTypeOK, HoldTypeOK', NoOverlap, NoOverlap', SerialIInv, NEW t \in Targeters, Target(t)
    PROVE  SerialIInv'
<1> DEFINE x == tgt[t]
<1>1. ASSUME \A u \in Targeters : u # t => tgt'[u] = tgt[u], UNCHANGED desk,
             x.pc # "idle" \/ tgt'[t].pc # "idle",
             OneClaimPerCopy', BorrowedIsFree', TargetTrue(tgt[t])'
      PROVE  SerialIInv'
  <2>1. ASSUME NEW d \in Desks PROVE desk'[d].pc = "idle"
    BY <1>1, <2>1 DEF NoOverlap
  <2>2. ASSUME NEW u \in Targeters, u # t PROVE tgt'[u].pc = "idle"
    <3>1. tgt'[u].pc = tgt[u].pc
      BY <1>1, <2>2
    <3> QED  BY <1>1, <2>2, <3>1 DEF NoOverlap
  <2>3. \A d \in Desks : ReadsTrue(desk[d])'
    BY <2>1 DEF ReadsTrue
  <2>4. \A u \in Targeters : TargetTrue(tgt[u])'
    BY <1>1, <2>2 DEF TargetTrue
  <2> QED  BY <1>1, <2>3, <2>4 DEF SerialIInv, SerialInv
<1> DEFINE b == hold[x.hold]
<1>2. x.pc # "idle" =>
         /\ x.pc \in {"read", "chosen"} /\ x.hold \in Holds /\ b \in Row
         /\ ToBeTargeted(x.hold) /\ x.old = b.current
         /\ x.pc = "chosen" => x.pick \in Usable(x.hold) \cup {b.current, NoCopy}
  <2>1. x \in Targeter
    BY DEF HoldTypeOK
  <2> QED  BY <2>1 DEF Targeter, IdleTargeter, SerialIInv, TargetTrue, HoldTypeOK
<1>3. UNCHANGED rows => OneClaimPerCopy' /\ BorrowedIsFree'
  BY DEF rows, SerialIInv, SerialInv, OneClaimPerCopy, BorrowedIsFree, Open
<1>4. ASSUME tgt' = [tgt EXCEPT ![t] = IdleTargeter], x.pc # "idle", UNCHANGED desk,
             OneClaimPerCopy', BorrowedIsFree'
      PROVE  SerialIInv'
  <2>1. tgt'[t] = IdleTargeter /\ \A u \in Targeters : u # t => tgt'[u] = tgt[u]
    BY <1>4 DEF HoldTypeOK
  <2>2. TargetTrue(tgt[t])'
    BY <2>1 DEF TargetTrue, IdleTargeter
  <2> QED  BY <1>1, <1>4, <2>1, <2>2
<1>5. ASSUME NEW r, WriteHolds([h \in {x.hold} |-> r]), x.pc # "idle", Less(r, b),
             UNCHANGED <<copy, out>>
      PROVE  OneClaimPerCopy' /\ BorrowedIsFree'
  <2>1. \A h \in Holds : hold'[h] = IF h = x.hold THEN r ELSE hold[h]
    BY <1>5 DEF WriteHolds
  <2>2. \A h \in Holds : Less(hold'[h], hold[h])
    BY <1>2, <1>5, <2>1 DEF Less
  <2> QED  BY <1>5, <2>2, LessKeeps DEF SerialIInv
<1>6. ASSUME NEW h \in Holds, TargetRead(t, h) \/ TargetAsked(t, h) PROVE SerialIInv'
  <2>1. CASE Takes(t, h) /\ ToBeTargeted(h)
    <3>1. /\ tgt'[t] = [pc |-> "read", hold |-> h, old |-> hold[h].current, pick |-> NoCopy]
          /\ \A u \in Targeters : u # t => tgt'[u] = tgt[u]
      BY <2>1 DEF Takes, HoldTypeOK
    <3>2. UNCHANGED rows /\ UNCHANGED desk
      BY <1>6 DEF TargetRead, TargetAsked
    <3>3. TargetTrue(tgt[t])'
      BY <2>1, <3>1, <3>2 DEF TargetTrue, rows, ToBeTargeted, Waiting, Open
    <3>4. tgt'[t].pc # "idle"
      BY <3>1
    <3> QED  BY <1>1, <1>3, <3>1, <3>2, <3>3, <3>4
  <2>2. CASE UNCHANGED <<rows, tgt, desk>>
    BY <2>2, RowsSerial
  <2> QED  BY <1>6, <2>1, <2>2 DEF TargetRead, TargetAsked
<1>7. CASE TargetChoose(t)
  <2>1. PICK c \in Usable(x.hold) \cup OldBest(t) \cup {NoCopy} :
           tgt' = [tgt EXCEPT ![t].pc = "chosen", ![t].pick = c]
    BY <1>7 DEF TargetChoose
  <2>2. UNCHANGED rows /\ UNCHANGED desk /\ x.pc = "read"
    BY <1>7 DEF TargetChoose
  <2>3. /\ tgt'[t] = [x EXCEPT !.pc = "chosen", !.pick = c]
        /\ \A u \in Targeters : u # t => tgt'[u] = tgt[u]
    BY <2>1 DEF HoldTypeOK
  <2>4. x \in Targeter /\ x.pc = "read"
    BY <2>2 DEF HoldTypeOK
  <2>5. tgt'[t].pc = "chosen" /\ tgt'[t].pick = c /\ tgt'[t].hold = x.hold /\ tgt'[t].old = x.old
    BY <2>3, <2>4 DEF Targeter, IdleTargeter
  <2>6. c \in Usable(x.hold) \cup {x.old, NoCopy}
    BY <2>1 DEF OldBest
  <2>7. hold' = hold /\ copy' = copy
    BY <2>2 DEF rows
  <2>8. x.pc # "idle" /\ ToBeTargeted(x.hold) /\ x.old = hold[x.hold].current
    BY <1>2, <2>2
  <2>9. Usable(tgt[t].hold)' = Usable(x.hold) /\ ToBeTargeted(tgt[t].hold)'
    BY <2>5, <2>7, <2>8 DEF Usable, Taken, Open, ToBeTargeted, Waiting
  <2>10. TargetTrue(tgt[t])'
    BY <2>5, <2>6, <2>7, <2>8, <2>9 DEF TargetTrue
  <2> QED  BY <1>1, <1>3, <2>2, <2>3, <2>8, <2>10
<1>8. CASE TargetWrite(t)
  <2>1. PICK c \in Written(t) : WriteColumns(t, [b EXCEPT !.current = c])
    BY <1>8 DEF TargetWrite
  <2>2. /\ x.pc = "chosen" /\ tgt' = [tgt EXCEPT ![t] = IdleTargeter]
        /\ UNCHANGED <<copy, out, desk>>
    BY <1>8, <2>1 DEF TargetWrite, WriteColumns
  <2> DEFINE r == [b EXCEPT !.current = c]
  <2>4. WriteHolds([h \in {x.hold} |-> r])
    BY <2>1 DEF WriteColumns
  <2>5. c \in Usable(x.hold) \cup {b.current, NoCopy}
    BY <1>2, <2>1, <2>2 DEF Written
  <2>6. CASE c \in {b.current, NoCopy}
    <3>1. Less(r, b)
      BY <1>2, <2>2, <2>6 DEF Less, Open, Row
    <3> QED  BY <1>4, <1>5, <2>2, <2>4, <3>1
  <2>7. CASE c \in Usable(x.hold) /\ c # NoCopy
    <3>1. copy[c] = "available" /\ \A g \in Holds \ {x.hold} : Open(hold[g]) => hold[g].current # c
      BY <2>7 DEF Usable, Taken
    <3>2. r.current = c
      BY <1>2, <2>2 DEF Row
    <3>3. \A h \in Holds : hold'[h] = IF h = x.hold THEN r ELSE hold[h]
      BY <2>4 DEF WriteHolds
    <3> HIDE DEF r
    <3>4. OneClaimPerCopy'
      <4> SUFFICES ASSUME NEW g \in Holds, NEW h \in Holds, g # h, Open(hold'[g]), Open(hold'[h]),
                          hold'[g].current # NoCopy
                   PROVE  hold'[g].current # hold'[h].current
        BY DEF OneClaimPerCopy, Open
      <4>1. CASE g = x.hold
        BY <3>1, <3>2, <3>3, <4>1
      <4>2. CASE h = x.hold
        BY <3>1, <3>2, <3>3, <4>2
      <4>3. CASE g # x.hold /\ h # x.hold
        BY <3>3, <4>3 DEF SerialIInv, SerialInv, OneClaimPerCopy
      <4> QED  BY <4>1, <4>2, <4>3
    <3>5. BorrowedIsFree'
      <4> SUFFICES ASSUME NEW k \in out
                   PROVE  /\ copy[k] = "checked_out"
                          /\ \A h \in Holds : Open(hold'[h]) => hold'[h].current # k
        BY <2>2 DEF BorrowedIsFree, Open
      <4>1. copy[k] = "checked_out" /\ \A h \in Holds : Open(hold[h]) => hold[h].current # k
        BY DEF SerialIInv, SerialInv, BorrowedIsFree
      <4> QED  BY <3>1, <3>2, <3>3, <4>1
    <3> QED  BY <1>4, <2>2, <3>4, <3>5
  <2> QED  BY <2>5, <2>6, <2>7
<1>9. CASE TargetCancel(t)
  <2> DEFINE c == IF x.pc = "read" \/ x.old = NoCopy THEN b.current ELSE NoCopy
             r == [b EXCEPT !.cancelled = TRUE, !.current = c]
  <2>1. x.pc # "idle" /\ WriteColumns(t, r)
    BY <1>9 DEF TargetCancel
  <2>2. /\ WriteHolds([h \in {x.hold} |-> r]) /\ UNCHANGED <<copy, out, desk>>
        /\ tgt' = [tgt EXCEPT ![t] = IdleTargeter]
    BY <2>1 DEF WriteColumns
  <2> HIDE DEF c
  <2>3. Less(r, b)
    BY <1>2, <2>1, LessChanges
  <2> HIDE DEF r
  <2> QED  BY <1>4, <1>5, <2>1, <2>2, <2>3
<1>10. CASE TargetExit(t)
  <2>1. tgt' = [tgt EXCEPT ![t] = IdleTargeter] /\ UNCHANGED rows /\ UNCHANGED desk /\ x.pc # "idle"
    BY <1>10 DEF TargetExit
  <2> QED  BY <1>3, <1>4, <2>1
<1> QED  BY <1>6, <1>7, <1>8, <1>9, <1>10 DEF Target

\* A desk that reads, and changes no row.
LEMMA ReadsSerial ==
    ASSUME HoldTypeOK, HoldTypeOK', NoOverlap, NoOverlap', SerialIInv, NEW d \in Desks,
           NEW q, desk' = [desk EXCEPT ![d] = q], q.pc # "idle", UNCHANGED <<rows, tgt>>,
           \A h \in DOMAIN q.held : q.held[h] = hold[h],
           q.pc = "scanned" => DOMAIN q.held = {},
           q.op \in {"reset", "abort"} /\ q.pc = "ready" /\ q.copy # NoCopy
               => q.status = copy[q.copy],
           q.pc = "arrive" => q.copy \notin out,
           q.pc = "capture" => q.who \in DOMAIN q.held /\ Targeting(q.copy) \subseteq DOMAIN q.held,
           q.op = "checkout" /\ q.pc = "ready" => \A h \in Holds :
               Open(hold[h]) /\ hold[h].current = q.copy => h \in DOMAIN q.held
    PROVE  SerialIInv'
<1>1. desk'[d] = q /\ \A e \in Desks : e # d => desk'[e] = desk[e]
  BY DEF HoldTypeOK
<1>2. hold' = hold /\ copy' = copy /\ out' = out
  BY DEF rows
<1>3. OneClaimPerCopy' /\ BorrowedIsFree'
  BY <1>2 DEF SerialIInv, SerialInv, OneClaimPerCopy, BorrowedIsFree, Open
<1>4. ReadsTrue(desk[d])'
  BY <1>1, <1>2 DEF ReadsTrue, Targeting, Open
<1> QED  BY <1>1, <1>3, <1>4, DeskTurn

\* A desk that begins a request.
LEMMA BeginSerial ==
    ASSUME HoldTypeOK, HoldTypeOK', NoOverlap, NoOverlap', SerialIInv, NEW d \in Desks,
           \/ \E h \in Holds : \/ BeginCancel(d, h) \/ BeginUncancel(d, h) \/ BeginFreeze(d, h)
                              \/ BeginThaw(d, h) \/ BeginReset(d, h)
           \/ \E i \in TransitIds : BeginAbort(d, i)
           \/ \E c \in Copies, l \in Libs : ScanIn(d, c, l)
           \/ \E c \in Copies, w \in Holds \cup {NoHold} : ScanOut(d, c, w)
    PROVE  SerialIInv'
<1>1. ASSUME NEW q, Serve(d, q), q.pc = "ready", q.op \notin {"reset", "abort", "checkout"},
             NEW S, q.held = Read(S)
      PROVE  SerialIInv'
  <2>1. \A h \in DOMAIN q.held : q.held[h] = hold[h]
    BY <1>1 DEF Read
  <2> QED  BY <1>1, <2>1, ReadsSerial DEF Serve
<1>2. ASSUME NEW q, Serve(d, q), q.pc = "scanned", q.held = IdleDesk.held PROVE SerialIInv'
  <2>1. DOMAIN q.held = {}
    BY <1>2 DEF IdleDesk
  <2> QED  BY <1>2, <2>1, ReadsSerial DEF Serve
<1>3. ASSUME NEW h \in Holds, BeginCancel(d, h) PROVE SerialIInv'
  <2>1. PICK i : Serve(d, ReadyLeg("cancel", h, i))
    BY <1>3 DEF BeginCancel, ReadyLeg
  <2>2. /\ ReadyLeg("cancel", h, i).held = Read({h}) /\ ReadyLeg("cancel", h, i).op = "cancel"
        /\ ReadyLeg("cancel", h, i).pc = "ready"
    BY DEF ReadyLeg, IdleDesk
  <2> QED  BY <1>1, <2>1, <2>2
<1>4. ASSUME NEW h \in Holds, BeginUncancel(d, h) \/ BeginFreeze(d, h) \/ BeginThaw(d, h)
      PROVE  SerialIInv'
  <2>1. PICK op \in {"uncancel", "freeze", "thaw"} : Serve(d, Ready(op, h))
    <3>1. CASE BeginUncancel(d, h)
      <4>1. Serve(d, Ready("uncancel", h))
        BY <3>1 DEF BeginUncancel, Ready
      <4> QED  BY <4>1
    <3>2. CASE BeginFreeze(d, h)
      <4>1. Serve(d, Ready("freeze", h))
        BY <3>2 DEF BeginFreeze, Ready
      <4> QED  BY <4>1
    <3>3. CASE BeginThaw(d, h)
      <4>1. Serve(d, Ready("thaw", h))
        BY <3>3 DEF BeginThaw, Ready
      <4> QED  BY <4>1
    <3> QED  BY <1>4, <3>1, <3>2, <3>3
  <2>2. Ready(op, h).held = Read({h}) /\ Ready(op, h).op = op /\ Ready(op, h).pc = "ready"
    BY DEF Ready, IdleDesk
  <2>3. Ready(op, h).op \notin {"reset", "abort", "checkout"}
    BY <2>2
  <2> QED  BY <1>1, <2>1, <2>2, <2>3
<1>5. ASSUME NEW h \in Holds, BeginReset(d, h) PROVE SerialIInv'
  BY <1>2, <1>5 DEF BeginReset, IdleDesk
<1>6. ASSUME NEW i \in TransitIds, BeginAbort(d, i) PROVE SerialIInv'
  <2> DEFINE q == [IdleDesk EXCEPT !.op = "abort", !.pc = "ready", !.copy = transit[i].copy,
                                   !.status = copy[transit[i].copy], !.via = i, !.leg = transit[i]]
  <2>1. Serve(d, q)
    BY <1>6 DEF BeginAbort
  <2>2. /\ q.pc = "ready" /\ q.op = "abort" /\ q.status = copy[q.copy] /\ DOMAIN q.held = {}
    BY DEF IdleDesk
  <2> HIDE DEF q
  <2> QED  BY <2>1, <2>2, ReadsSerial DEF Serve
<1>7. ASSUME NEW c \in Copies, NEW l \in Libs, ScanIn(d, c, l) PROVE SerialIInv'
  BY <1>2, <1>7 DEF ScanIn, IdleDesk
<1>8. ASSUME NEW c \in Copies, NEW w \in Holds \cup {NoHold}, ScanOut(d, c, w) PROVE SerialIInv'
  BY <1>2, <1>8 DEF ScanOut, IdleDesk
<1> QED  BY <1>3, <1>4, <1>5, <1>6, <1>7, <1>8

\* A desk that reads the holds its request is about.
LEMMA FindSerial ==
    ASSUME HoldTypeOK, HoldTypeOK', NoOverlap, NoOverlap', SerialIInv, NEW d \in Desks,
           KnowsTransit(desk[d])',
           \/ ReadReset(d) \/ FindOpenHold(d)
           \/ FindRemoteHold(d) \/ FindArrivedHold(d) \/ FindHold(d) \/ FindNoHold(d)
    PROVE  SerialIInv'
<1>1. IsRequest(desk[d])
  BY DeskFields
<1>2. ASSUME NEW p, NEW h, NEW S, Continues(d, p, h, Read(S)), UNCHANGED <<rows, tgt>>,
             p \in {"forward", "arrive", "capture", "shelve", "ready"},
             p = "arrive" => desk[d].copy \notin out,
             p = "capture" => h \in S /\ Targeting(desk[d].copy) \subseteq S,
             p = "ready" => desk[d].op = "checkout",
             desk[d].op = "checkout" => \A g \in Holds :
                 Open(hold[g]) /\ hold[g].current = desk[d].copy => g \in S
      PROVE  SerialIInv'
  <2> DEFINE q == [desk[d] EXCEPT !.pc = p, !.who = h, !.held = Read(S)]
  <2>1. /\ q.pc = p /\ q.who = h /\ q.held = Read(S) /\ q.copy = desk[d].copy /\ q.op = desk[d].op
        /\ desk' = [desk EXCEPT ![d] = q]
    BY <1>1, <1>2 DEF IsRequest, Continues
  <2>2. DOMAIN q.held = S /\ \A g \in DOMAIN q.held : q.held[g] = hold[g]
    BY <2>1 DEF Read
  <2> HIDE DEF q
  <2> QED  BY <1>2, <2>1, <2>2, ReadsSerial
<1>3. ASSUME NEW p, NEW S, desk' = [desk EXCEPT ![d] = [desk[d] EXCEPT !.pc = p, !.held = Read(S)]]
      PROVE  Continues(d, p, desk[d].who, Read(S))
  <2>1. [desk[d] EXCEPT !.pc = p, !.held = Read(S)]
           = [desk[d] EXCEPT !.pc = p, !.who = desk[d].who, !.held = Read(S)]
    BY <1>1 DEF IsRequest
  <2> QED  BY <1>3, <2>1 DEF Continues
<1>4. CASE ReadReset(d)
  <2> DEFINE r == hold[desk[d].who]
             has == r.captured /\ r.current # NoCopy
             moving == has /\ copy[r.current] = "in_transit"
             q(i) == [desk[d] EXCEPT !.pc = "ready", !.copy = IF has THEN r.current ELSE NoCopy,
                            !.status = IF has THEN copy[r.current] ELSE "available",
                            !.via = i, !.leg = LegAt(i), !.held = Read({desk[d].who})]
  <2>1. PICK i \in IF moving THEN First(LegsOf(desk[d].who)) ELSE {0} :
           desk' = [desk EXCEPT ![d] = q(i)]
    BY <1>4 DEF ReadReset
  <2>2. /\ q(i).held = Read({desk[d].who}) /\ q(i).op = "reset" /\ q(i).pc = "ready"
        /\ q(i).copy # NoCopy => q(i).status = copy[q(i).copy]
    BY ZenonT(30), <1>1, <1>4 DEF IsRequest, ReadReset
  <2>3. UNCHANGED <<rows, tgt>>
    BY <1>4 DEF ReadReset
  <2> HIDE DEF q
  <2>4. \A g \in DOMAIN q(i).held : q(i).held[g] = hold[g]
    BY <2>2 DEF Read
  <2> QED  BY ZenonT(30), <2>1, <2>2, <2>3, <2>4, ReadsSerial
<1>5. CASE FindRemoteHold(d)
  <2>1. UNCHANGED <<rows, tgt>> /\ desk[d].op = "checkin" /\ \E h : Continues(d, "forward", h, Read({h}))
    BY <1>5 DEF FindRemoteHold, Continues, Scanned
  <2> QED  BY <1>2, <2>1
<1>6. CASE FindArrivedHold(d)
  <2>1. /\ UNCHANGED <<rows, tgt>> /\ desk[d].op = "checkin" /\ desk[d].copy \notin out
        /\ \E h : Continues(d, "arrive", h, Read({h}))
    BY <1>6 DEF FindArrivedHold, Continues, Scanned, Arrived
  <2> QED  BY <1>2, <2>1
<1>7. CASE FindHold(d)
  <2> DEFINE S(h) == {h} \cup Targeting(desk[d].copy) \cup GoneHold(d)
  <2>1. UNCHANGED <<rows, tgt>> /\ desk[d].op = "checkin" /\ \E h : Continues(d, "capture", h, Read(S(h)))
    BY <1>7 DEF FindHold, Continues, Unneeded, Scanned
  <2>2. PICK h : Continues(d, "capture", h, Read(S(h)))
    BY <2>1
  <2>3. h \in S(h) /\ Targeting(desk[d].copy) \subseteq S(h)
    OBVIOUS
  <2> HIDE DEF S
  <2> QED  BY <1>2, <2>1, <2>2, <2>3
<1>8. CASE FindNoHold(d)
  <2>1. UNCHANGED <<rows, tgt>> /\ desk[d].op = "checkin"
    BY <1>8 DEF FindNoHold, Unneeded, Scanned
  <2>2. Continues(d, "shelve", desk[d].who, Read(GoneHold(d)))
    BY <1>3, <1>8 DEF FindNoHold
  <2> QED  BY <1>2, <2>1, <2>2
<1>9. CASE FindOpenHold(d)
  <2> DEFINE claims == {h \in Holds : Open(hold[h]) /\ hold[h].current = desk[d].copy}
             fills(S) == IF desk[d].who \in S THEN S ELSE Related(desk[d].who, desk[d].copy)
  <2>1. /\ UNCHANGED <<rows, tgt>> /\ desk[d].op = "checkout"
        /\ \E S \in IF claims = {} THEN {{}} ELSE {{h} : h \in claims} :
              desk' = [desk EXCEPT ![d] = [desk[d] EXCEPT !.pc = "ready", !.held = Read(S \cup fills(S))]]
    BY <1>9 DEF FindOpenHold
  <2>2. PICK S \in IF claims = {} THEN {{}} ELSE {{h} : h \in claims} :
           desk' = [desk EXCEPT ![d] = [desk[d] EXCEPT !.pc = "ready", !.held = Read(S \cup fills(S))]]
    BY <2>1
  <2>3. claims \subseteq S
    <3>1. desk[d].copy \in Copies /\ desk[d].copy # NoCopy
      BY <1>1, <2>1, RequestFields, NullsAssumption
    <3>2. \A g, h \in claims : g = h
      BY <3>1 DEF SerialIInv, SerialInv, OneClaimPerCopy
    <3> QED  BY <2>2, <3>2
  <2>4. \A g \in Holds : Open(hold[g]) /\ hold[g].current = desk[d].copy => g \in S \cup fills(S)
    BY <2>3
  <2>5. Continues(d, "ready", desk[d].who, Read(S \cup fills(S)))
    BY <1>3, <2>2
  <2> HIDE DEF claims, fills
  <2> QED  BY <1>2, <2>1, <2>4, <2>5
<1> QED  BY <1>4, <1>5, <1>6, <1>7, <1>8, <1>9

\* Requests that write rows which claim no more than before.
LEMMA WritesSerial ==
    ASSUME HoldTypeOK, HoldTypeOK', NoOverlap, NoOverlap', SerialIInv, NEW d \in Desks,
           KnowsTransit(desk[d]),
           \/ CommitCancel(d) \/ CommitUncancel(d) \/ CommitFreeze(d) \/ CommitReset(d)
           \/ CommitForward(d) \/ CommitArrive(d) \/ CommitShelve(d)
    PROVE  SerialIInv'
<1> DEFINE q == desk[d]
<1>1. \A h \in DOMAIN q.held : q.held[h] \in Row
  BY SMTT(30), DeskFields DEF Held
<1>2. /\ q.pc # "idle" /\ Finish(d) /\ UNCHANGED tgt
      /\ q.pc = "ready" \/ CommitForward(d) \/ CommitArrive(d) \/ CommitShelve(d)
  BY DEF CommitCancel, CommitUncancel, CommitFreeze, CommitReset, CommitForward, CommitArrive,
         CommitShelve
<1>3. ASSUME \A h \in Holds : Less(hold'[h], hold[h]),
             out' \subseteq out, \A c \in out' : copy'[c] = copy[c]
      PROVE  SerialIInv'
  <2>1. OneClaimPerCopy' /\ BorrowedIsFree'
    BY <1>3, LessKeeps DEF SerialIInv
  <2> QED  BY <1>2, <2>1, DeskDone
<1>4. ASSUME NEW r, WriteHolds([q.held EXCEPT ![q.who] = r]),
             q.who \in DOMAIN q.held => Less(r, q.held[q.who]),
             out' \subseteq out, \A c \in out' : copy'[c] = copy[c]
      PROVE  SerialIInv'
  <2>1. \A h \in Holds : Less(hold'[h], hold[h])
    BY <1>2, <1>4, WriteOneLess
  <2> QED  BY <1>3, <1>4, <2>1
<1>5. CASE CommitCancel(d)
  <2> DEFINE r == [q.held[q.who] EXCEPT !.cancelled = TRUE]
  <2>1. /\ WriteHolds([q.held EXCEPT ![q.who] = r]) /\ UNCHANGED <<copy, out>>
        /\ q.who \in DOMAIN q.held => Less(r, q.held[q.who])
    BY ZenonT(30), <1>1, <1>5, LessChanges DEF CommitCancel
  <2> HIDE DEF r
  <2> QED  BY SMTT(30), <1>4, <2>1
<1>6. CASE CommitUncancel(d)
  <2> DEFINE r == [Untargeted(q.held[q.who]) EXCEPT !.cancelled = FALSE]
  <2>1. /\ WriteHolds([q.held EXCEPT ![q.who] = r]) /\ UNCHANGED <<copy, out>>
        /\ q.who \in DOMAIN q.held => Less(r, q.held[q.who])
    BY ZenonT(30), <1>1, <1>6, LessChanges DEF CommitUncancel
  <2> HIDE DEF r
  <2> QED  BY <1>4, <2>1
<1>7. CASE CommitFreeze(d)
  <2> DEFINE r == IF q.op = "thaw" THEN [q.held[q.who] EXCEPT !.frozen = FALSE]
                  ELSE [q.held[q.who] EXCEPT !.frozen = TRUE, !.current = NoCopy]
  <2>1. /\ WriteHolds([q.held EXCEPT ![q.who] = r]) /\ UNCHANGED <<copy, out>>
        /\ q.who \in DOMAIN q.held => Less(r, q.held[q.who])
    BY <1>1, <1>7, LessChanges DEF CommitFreeze
  <2> HIDE DEF r
  <2> QED  BY <1>4, <2>1
<1>8. CASE CommitReset(d)
  <2> DEFINE r == Untargeted(q.held[q.who])
  <2>1. /\ WriteHolds([q.held EXCEPT ![q.who] = r]) /\ UNCHANGED out
        /\ q.who \in DOMAIN q.held => Less(r, q.held[q.who])
    BY <1>1, <1>8, LessChanges DEF CommitReset
  <2>2. \A c \in out : copy'[c] = copy[c]
    <3>1. CASE q.status \notin {"on_shelf", "in_transit"}
      <4>1. q.via = 0
        BY <1>8, <3>1 DEF KnowsTransit, CommitReset
      <4> QED  BY <1>8, <3>1, <4>1 DEF CommitReset
    <3>2. CASE q.status \in {"on_shelf", "in_transit"}
      <4>1. \/ copy' = [copy EXCEPT ![q.copy] = "available"]
            \/ copy' = [copy EXCEPT ![q.copy] = "canceled_transit"]
            \/ copy' = copy
        BY <1>8 DEF CommitReset
      <4>2. q.copy # NoCopy => q.status = copy[q.copy]
        BY <1>8 DEF CommitReset, SerialIInv, ReadsTrue
      <4>3. q.copy \notin out
        BY <3>2, <4>2, NullsAssumption DEF SerialIInv, SerialInv, BorrowedIsFree, HoldTypeOK
      <4> QED  BY <4>1, <4>3 DEF HoldTypeOK
    <3> QED  BY <3>1, <3>2
  <2> HIDE DEF r
  <2> QED  BY SMTT(30), <1>4, <2>1, <2>2
<1>9. CASE CommitForward(d)
  <2> DEFINE r == [q.held[q.who] EXCEPT !.shelf = NoLib]
  <2>1. /\ WriteHolds([q.held EXCEPT ![q.who] = r]) /\ out' = out \ {q.copy}
        /\ q.who \in DOMAIN q.held => Less(r, q.held[q.who])
        /\ copy' = [copy EXCEPT ![q.copy] = "in_transit"]
    BY <1>1, <1>9, LessChanges DEF CommitForward, Depart
  <2>2. \A c \in out' : copy'[c] = copy[c]
    BY <2>1 DEF HoldTypeOK
  <2> HIDE DEF r
  <2> QED  BY SMTT(30), <1>4, <2>1, <2>2
<1>10. CASE CommitArrive(d)
  <2> DEFINE r == [q.held[q.who] EXCEPT !.shelf = q.lib]
  <2>1. /\ WriteHolds([q.held EXCEPT ![q.who] = r]) /\ UNCHANGED out
        /\ q.who \in DOMAIN q.held => Less(r, q.held[q.who])
        /\ copy' = [copy EXCEPT ![q.copy] = q.leg.to]
    BY <1>1, <1>10, LessChanges DEF CommitArrive
  <2>2. q.copy \notin out
    BY <1>10 DEF CommitArrive, SerialIInv, ReadsTrue
  <2>3. \A c \in out' : copy'[c] = copy[c]
    BY <2>1, <2>2 DEF HoldTypeOK
  <2> HIDE DEF r
  <2> QED  BY SMTT(30), <1>4, <2>1, <2>3
<1>11. CASE CommitShelve(d)
  <2>1. WriteHolds(Settled(q)) /\ out' = out \ {q.copy}
    BY <1>11 DEF CommitShelve
  <2>2. DOMAIN Settled(q) = DOMAIN q.held
    BY SMTT(30) DEF Settled
  <2>3. \A h \in DOMAIN Settled(q) : Less(Settled(q)[h], q.held[h])
    BY <1>1, LessChanges DEF Settled
  <2>4. copy' = copy \/ \E s : copy' = [copy EXCEPT ![q.copy] = s]
    BY <1>11 DEF CommitShelve, Depart
  <2>5. \A c \in out' : copy'[c] = copy[c]
    BY <2>1, <2>4 DEF HoldTypeOK
  <2>6. \A h \in Holds : Less(hold'[h], hold[h])
    BY <1>2, <2>1, <2>2, <2>3, WriteLess
  <2> QED  BY <1>3, <2>1, <2>5, <2>6
<1> QED  BY <1>5, <1>6, <1>7, <1>8, <1>9, <1>10, <1>11

\* Requests that go on after they have aborted a transit, or end without writing.
LEMMA AbortSerial ==
    ASSUME HoldTypeOK, HoldTypeOK', NoOverlap, NoOverlap', SerialIInv, NEW d \in Desks,
           CommitAbort(d) \/ AbortForCirc(d) \/ ResetForCirc(d) \/ NothingToDo(d) \/ Bail(d)
    PROVE  SerialIInv'
<1> DEFINE q == desk[d]
<1>1. \A h \in Holds : hold[h] \in Row
  BY DEF HoldTypeOK
<1>2. CASE CommitAbort(d)
  <2>1. /\ q.op = "abort" /\ q.pc = "ready" /\ UNCHANGED <<hold, out, tgt>>
        /\ copy' = IF q.status = "in_transit" THEN [copy EXCEPT ![q.copy] = "canceled_transit"]
                   ELSE copy
    BY <1>2 DEF CommitAbort
  <2>2. q.copy # NoCopy => q.status = copy[q.copy]
    BY <2>1 DEF SerialIInv, ReadsTrue
  <2>3. q.status = "in_transit" => q.copy \notin out
    BY <2>2, NullsAssumption DEF SerialIInv, SerialInv, BorrowedIsFree, HoldTypeOK
  <2>4. \A c \in out' : copy'[c] = copy[c]
    BY <2>1, <2>3 DEF HoldTypeOK
  <2>5. \A h \in Holds : Less(hold'[h], hold[h])
    BY <2>1 DEF Less
  <2>6. OneClaimPerCopy' /\ BorrowedIsFree'
    BY <2>1, <2>4, <2>5, LessKeeps DEF SerialIInv
  <2>7. CASE q.leg.hold = NoHold
    BY <1>2, <2>1, <2>6, <2>7, DeskDone DEF CommitAbort
  <2>8. CASE q.leg.hold # NoHold
    <3> DEFINE n == [IdleDesk EXCEPT !.op = "reset", !.pc = "scanned", !.who = q.leg.hold]
    <3>1. desk' = [desk EXCEPT ![d] = n]
      BY <1>2, <2>8 DEF CommitAbort
    <3>2. n.op = "reset" /\ n.pc = "scanned" /\ DOMAIN n.held = {}
      BY DEF IdleDesk
    <3> HIDE DEF n
    <3>3. desk'[d] = n /\ \A e \in Desks : e # d => desk'[e] = desk[e]
      BY <3>1 DEF HoldTypeOK
    <3>4. ReadsTrue(desk[d])'
      BY <3>2, <3>3 DEF ReadsTrue
    <3> QED  BY <2>1, <2>6, <3>3, <3>4, DeskTurn
  <2> QED  BY <2>7, <2>8
<1>3. CASE AbortForCirc(d) \/ ResetForCirc(d)
  <2>1. q.pc = "scanned" /\ UNCHANGED <<out, tgt>>
    BY <1>3 DEF AbortForCirc, ResetForCirc, Scanned
  <2>2. \A c \in out : c \in Copies /\ copy[c] = "checked_out"
    BY DEF SerialIInv, SerialInv, BorrowedIsFree, HoldTypeOK
  <2>3. \A c \in out : copy'[c] = copy[c]
    <3>1. CASE AbortForCirc(d)
      BY <2>2, <3>1 DEF AbortForCirc, HoldTypeOK
    <3>2. CASE ResetForCirc(d)
      <4> DEFINE h == q.leg.hold
                 c == IF hold[h].captured THEN hold[h].current ELSE NoCopy
      <4>1. PICK i \in IF c # NoCopy /\ copy[c] = "in_transit" THEN First(LegsOf(h)) ELSE {0} :
               copy' = IF i # 0 THEN [copy EXCEPT ![c] = "canceled_transit"]
                       ELSE IF c # NoCopy /\ copy[c] = "on_shelf" THEN [copy EXCEPT ![c] = "available"]
                       ELSE copy
        BY <3>2 DEF ResetForCirc
      <4> HIDE DEF c
      <4>2. \/ copy' = copy
            \/ copy[c] \in {"in_transit", "on_shelf"} /\ \E s : copy' = [copy EXCEPT ![c] = s]
        BY <4>1
      <4> QED  BY SMTT(30), <2>2, <4>2 DEF HoldTypeOK
    <3> QED  BY <1>3, <3>1, <3>2
  <2>4. \A h \in Holds : hold'[h] \in {hold[h], Untargeted(hold[h])}
    BY ZenonT(30), <1>3 DEF AbortForCirc, ResetForCirc, HoldTypeOK
  <2>5. \A h \in Holds : Less(hold'[h], hold[h])
    BY <1>1, <2>4, LessChanges
  <2>6. OneClaimPerCopy' /\ BorrowedIsFree'
    BY <2>1, <2>3, <2>5, LessKeeps DEF SerialIInv
  <2>7. PICK n : /\ desk' = [desk EXCEPT ![d] = n]
                 /\ n.op = "checkin" /\ n.pc = "scanned" /\ n.held = q.held
    BY <1>3, AbortRequest
  <2>8. DOMAIN q.held = {}
    BY <2>1 DEF SerialIInv, ReadsTrue
  <2>9. desk'[d] = n /\ \A e \in Desks : e # d => desk'[e] = desk[e]
    BY <2>7 DEF HoldTypeOK
  <2>10. ReadsTrue(desk[d])'
    BY <2>7, <2>8, <2>9 DEF ReadsTrue
  <2> QED  BY SMTT(30), <2>1, <2>6, <2>9, <2>10, DeskTurn
<1>4. CASE NothingToDo(d) \/ Bail(d)
  <2>1. q.pc # "idle" /\ Finish(d) /\ UNCHANGED <<rows, tgt>>
    BY <1>4 DEF NothingToDo, Bail, Scanned
  <2>2. OneClaimPerCopy' /\ BorrowedIsFree'
    BY <2>1 DEF rows, SerialIInv, SerialInv, OneClaimPerCopy, BorrowedIsFree, Open
  <2> QED  BY <2>1, <2>2, DeskDone
<1> QED  BY <1>2, <1>3, <1>4

\* A hold captured for a copy is the only one that claims it.
LEMMA CaptureSerial ==
    ASSUME HoldTypeOK, HoldTypeOK', NoOverlap, NoOverlap', SerialIInv, NEW d \in Desks,
           CommitCapture(d)
    PROVE  SerialIInv'
<1> DEFINE q == desk[d]
           f == Captured(q)
<1>1. /\ q.pc = "capture" /\ Finish(d) /\ UNCHANGED tgt /\ out' = out \ {q.copy}
      /\ WriteHolds(f) /\ \E s : copy' = [copy EXCEPT ![q.copy] = s]
  <2>1. q.pc = "capture" /\ Finish(d) /\ UNCHANGED tgt /\ out' = out \ {q.copy} /\ WriteHolds(f)
    BY DEF CommitCapture
  <2>2. \/ copy' = [copy EXCEPT ![q.copy] = "on_shelf"]
        \/ copy' = [copy EXCEPT ![q.copy] = "in_transit"]
    BY Zenon DEF CommitCapture, Depart
  <2> QED  BY <2>1, <2>2
<1>2. /\ q.who \in DOMAIN q.held /\ Targeting(q.copy) \subseteq DOMAIN q.held
      /\ \A h \in DOMAIN q.held : q.held[h] = hold[h] /\ q.held[h] \in Row
  BY <1>1, DeskFields DEF SerialIInv, ReadsTrue, Held
<1>3. q.copy \in Copies /\ q.copy # NoCopy /\ DOMAIN q.held \subseteq Holds
  BY <1>1, DeskFields, RequestFields, NullsAssumption DEF Held
<1>4. /\ DOMAIN f = DOMAIN q.held
      /\ \A h \in Holds : hold'[h] = IF h \in DOMAIN f THEN f[h] ELSE hold[h]
  BY <1>1 DEF WriteHolds, Captured
<1>5. \A g, h \in Holds :
         g # h /\ Open(hold'[g]) /\ Open(hold'[h]) /\ hold'[g].captured /\ hold'[h].captured
         /\ hold'[g].current # NoCopy => hold'[g].current # hold'[h].current
  BY <1>1 DEF WriteHolds, CaptureProtect
<1>6. \A h \in DOMAIN q.held : Settled(q)[h] \in {q.held[h], [q.held[h] EXCEPT !.shelf = q.lib]}
  BY DEF Settled
<1>7. /\ f[q.who].current = q.copy /\ f[q.who].captured /\ Open(f[q.who])
  <2>1. Settled(q)[q.who] \in Row
    BY DeskFields, SettledType, <1>2 DEF Held
  <2> DEFINE l == IF PickupLib[q.who] = q.lib THEN q.lib ELSE Settled(q)[q.who].shelf
  <2>2. f[q.who] = [Settled(q)[q.who] EXCEPT !.current = q.copy, !.captured = TRUE,
                        !.cancelled = FALSE, !.fulfilled = FALSE, !.shelf = l]
    BY <1>2, <2>1 DEF Captured
  <2> HIDE DEF l, f
  <2> QED  BY <2>1, <2>2 DEF Row, Open
<1>8. ASSUME NEW h \in DOMAIN q.held, h # q.who
      PROVE  /\ Less(f[h], q.held[h]) /\ f[h].captured = q.held[h].captured
             /\ Open(f[h]) /\ ~f[h].captured /\ f[h].current # NoCopy => f[h].current # q.copy
  <2>1. f[h] = IF ~q.held[h].cancelled /\ ~q.held[h].captured /\ q.held[h].current = q.copy
               THEN [Settled(q)[h] EXCEPT !.current = NoCopy] ELSE Settled(q)[h]
    BY <1>8 DEF Captured, Losing
  <2>2. /\ Settled(q)[h] \in Row /\ q.held[h] \in Row
        /\ Settled(q)[h] \in {q.held[h], [q.held[h] EXCEPT !.shelf = q.lib]}
    BY DeskFields, SettledType, <1>2, <1>6 DEF Held
  <2>3. /\ Settled(q)[h].captured = q.held[h].captured /\ Settled(q)[h].current = q.held[h].current
        /\ Settled(q)[h].cancelled = q.held[h].cancelled
        /\ Settled(q)[h].fulfilled = q.held[h].fulfilled
    BY <2>2 DEF Row
  <2> HIDE DEF f
  <2> QED  BY <2>1, <2>2, <2>3 DEF Row, Less, Open
<1> HIDE DEF f
<1>9. \A h \in Holds : h # q.who => Less(hold'[h], hold[h])
  BY <1>2, <1>4, <1>8 DEF Less
<1>10. hold'[q.who].current = q.copy /\ hold'[q.who].captured /\ Open(hold'[q.who]) /\ q.who \in Holds
  BY <1>2, <1>3, <1>4, <1>7
<1>11. ASSUME NEW h \in Holds, h # q.who, Open(hold'[h]) PROVE hold'[h].current # q.copy
  <2>1. CASE hold'[h].captured
    BY <1>3, <1>5, <1>10, <1>11, <2>1
  <2>2. CASE ~hold'[h].captured /\ h \in DOMAIN q.held
    BY <1>3, <1>4, <1>8, <1>11, <2>2
  <2>3. CASE ~hold'[h].captured /\ h \notin DOMAIN q.held
    <3>1. hold'[h] = hold[h] /\ h \notin Targeting(q.copy)
      BY <1>2, <1>4, <2>3
    <3> QED  BY <1>11, <2>3, <3>1 DEF Targeting, Open
  <2> QED  BY <2>1, <2>2, <2>3
<1>12. OneClaimPerCopy'
  <2> SUFFICES ASSUME NEW g \in Holds, NEW h \in Holds, g # h, Open(hold'[g]), Open(hold'[h]),
                      hold'[g].current # NoCopy
               PROVE  hold'[g].current # hold'[h].current
    BY DEF OneClaimPerCopy, Open
  <2>1. CASE g = q.who \/ h = q.who
    BY <1>10, <1>11, <2>1
  <2>2. CASE g # q.who /\ h # q.who
    BY <1>9, <2>2 DEF Less, SerialIInv, SerialInv, OneClaimPerCopy
  <2> QED  BY <2>1, <2>2
<1>13. BorrowedIsFree'
  <2> SUFFICES ASSUME NEW c \in out'
               PROVE  /\ copy'[c] = "checked_out"
                      /\ \A h \in Holds : Open(hold'[h]) => hold'[h].current # c
    BY DEF BorrowedIsFree, Open
  <2>1. /\ c \in out /\ c # q.copy /\ c # NoCopy /\ copy[c] = "checked_out"
        /\ \A h \in Holds : Open(hold[h]) => hold[h].current # c
    BY <1>1, NullsAssumption DEF HoldTypeOK, SerialIInv, SerialInv, BorrowedIsFree
  <2>2. copy'[c] = "checked_out"
    BY <1>1, <2>1 DEF HoldTypeOK
  <2> QED  BY <1>9, <1>10, <2>1, <2>2 DEF Less
<1> QED  BY <1>1, <1>12, <1>13, DeskDone

\* A copy that is borrowed is taken from the one hold that claims it.
LEMMA CheckoutSerial ==
    ASSUME HoldTypeOK, HoldTypeOK', NoOverlap, NoOverlap', SerialIInv, NEW d \in Desks,
           CommitCheckout(d)
    PROVE  SerialIInv'
<1> DEFINE q == desk[d]
           f == [h \in DOMAIN q.held |->
                   IF h = q.who THEN [q.held[h] EXCEPT !.current = q.copy, !.captured = TRUE,
                                                       !.fulfilled = TRUE]
                   ELSE Untargeted(q.held[h])]
<1>1. /\ q.op = "checkout" /\ q.pc = "ready" /\ Finish(d) /\ UNCHANGED tgt
      /\ out' = out \cup {q.copy} /\ copy' = [copy EXCEPT ![q.copy] = "checked_out"]
      /\ WriteHolds(f)
  BY DEF CommitCheckout
<1>2. /\ \A h \in DOMAIN q.held : q.held[h] = hold[h] /\ q.held[h] \in Row
      /\ \A h \in Holds : Open(hold[h]) /\ hold[h].current = q.copy => h \in DOMAIN q.held
  BY <1>1, DeskFields DEF SerialIInv, ReadsTrue, Held
<1>3. q.copy \in Copies /\ q.copy # NoCopy
  BY <1>1, DeskFields, RequestFields, NullsAssumption
<1>4. /\ DOMAIN f = DOMAIN q.held
      /\ \A h \in Holds : hold'[h] = IF h \in DOMAIN f THEN f[h] ELSE hold[h]
  BY <1>1 DEF WriteHolds
<1>5. \A h \in DOMAIN f : Less(f[h], q.held[h]) /\ (Open(f[h]) => f[h].current = NoCopy)
  BY <1>2, LessChanges DEF Untargeted, Row, Open
<1> HIDE DEF f
<1>6. \A h \in Holds : Less(hold'[h], hold[h])
  BY <1>1, <1>4, <1>5, WriteLess
<1>7. OneClaimPerCopy'
  BY <1>6 DEF SerialIInv, SerialInv, OneClaimPerCopy, Less, Open
<1>8. BorrowedIsFree'
  <2> SUFFICES ASSUME NEW c \in out'
               PROVE  /\ copy'[c] = "checked_out"
                      /\ \A h \in Holds : Open(hold'[h]) => hold'[h].current # c
    BY DEF BorrowedIsFree, Open
  <2>1. CASE c = q.copy
    <3>1. copy'[c] = "checked_out"
      BY <1>1, <1>3, <2>1 DEF HoldTypeOK
    <3>2. ASSUME NEW h \in Holds, Open(hold'[h]) PROVE hold'[h].current # c
      <4>1. CASE h \in DOMAIN q.held
        BY <1>3, <1>4, <1>5, <2>1, <3>2, <4>1
      <4>2. CASE h \notin DOMAIN q.held
        BY <1>2, <1>4, <2>1, <3>2, <4>2
      <4> QED  BY <4>1, <4>2
    <3> QED  BY <3>1, <3>2
  <2>2. CASE c # q.copy
    <3>1. /\ c \in out /\ c # NoCopy /\ copy[c] = "checked_out"
          /\ \A h \in Holds : Open(hold[h]) => hold[h].current # c
      BY <1>1, <2>2, NullsAssumption DEF HoldTypeOK, SerialIInv, SerialInv, BorrowedIsFree
    <3>2. copy'[c] = "checked_out"
      BY <1>1, <2>2, <3>1 DEF HoldTypeOK
    <3> QED  BY <1>6, <3>1, <3>2 DEF Less
  <2> QED  BY <2>1, <2>2
<1> QED  BY <1>1, <1>7, <1>8, DeskDone

\* Every step of transactions that do not overlap.
LEMMA StepSerial ==
    ASSUME HoldTypeOK, HoldTypeOK', TransitInv, TransitInv', NoOverlap, NoOverlap', SerialIInv,
           [Next]_vars
    PROVE  SerialIInv'
<1>1. \A d \in Desks : KnowsTransit(desk[d]) /\ KnowsTransit(desk[d])'
  BY DEF TransitInv
<1>2. ASSUME NEW d \in Desks, HoldRequest(d) PROVE SerialIInv'
  BY <1>1, <1>2, BeginSerial, FindSerial, WritesSerial, AbortSerial DEF HoldRequest
<1>3. ASSUME NEW d \in Desks, Checkin(d) PROVE SerialIInv'
  BY <1>1, <1>3, BeginSerial, FindSerial, WritesSerial, AbortSerial, CaptureSerial DEF Checkin
<1>4. ASSUME NEW d \in Desks, Checkout(d) PROVE SerialIInv'
  BY <1>1, <1>4, BeginSerial, FindSerial, CheckoutSerial DEF Checkout
<1>5. ASSUME NEW d \in Desks, Bail(d) PROVE SerialIInv'
  BY <1>5, AbortSerial
<1>6. CASE UNCHANGED vars
  BY <1>6, RowsSerial DEF vars, rows
<1> QED  BY <1>2, <1>3, <1>4, <1>5, <1>6, TargetSerial DEF Next

\* While no two transactions overlap, the rows that one of them will write back are
\* those of the tables, and it knows every hold that claims its copy.
THEOREM SerialInductive == Spec /\ []NoOverlap => []SerialIInv
<1>1. Init => SerialIInv
  BY InitType DEF Init, SerialIInv, SerialInv, OneClaimPerCopy, BorrowedIsFree, Open, TargetTrue,
                  ReadsTrue, NewRow, IdleTargeter, IdleDesk
<1>2. /\ HoldTypeOK /\ HoldTypeOK' /\ TransitInv /\ TransitInv' /\ NoOverlap /\ NoOverlap'
      /\ SerialIInv /\ [Next]_vars
      => SerialIInv'
  BY StepSerial
<1> QED  BY <1>1, <1>2, TypeCorrect, TransitsKnown, PTL DEF Spec

\* While no two transactions overlap, a copy is the target of one open hold at most, and
\* no open hold claims a copy that is borrowed: what a check-in's capture, a checkout
\* (handle_checkout_holds) and the targeters owe one another.
THEOREM SerialAgrees == Spec /\ []NoOverlap => []SerialInv
<1>1. SerialIInv => SerialInv
  BY DEF SerialIInv
<1> QED  BY <1>1, SerialInductive, PTL
=============================================================================
