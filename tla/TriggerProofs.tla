---------------------------- MODULE TriggerProofs ----------------------------
(***************************************************************************)
(* First TriggerEvent: its type invariant, its inductive invariant, its    *)
(* safety properties and its implementation of EventPromise, for any       *)
(* events, units and requests and any settings of parallel collect and     *)
(* react.                                                                  *)
(*                                                                         *)
(* Then TriggerRunner: as long as the lock file keeps runners apart, no    *)
(* two requests mean to take the same pending rows, no object gets two     *)
(* events and no event's reactor runs twice: for any runners, requests,    *)
(* events and any number of failures.  First what one step of the service  *)
(* does to the events in its request's hands, then what the runners do     *)
(* with the lock.                                                          *)
(***************************************************************************)
EXTENDS TriggerRunner, TLAPS

-----------------------------------------------------------------------------
(* Type correctness.                                                       *)

\* The flags an event object derives from its row.
LEMMA FlagTypes ==
    ASSUME NEW s \in RowState
    PROVE  /\ ValidFlag(s) \in Maybe
           /\ ReactedFlag(s) \in Maybe
           /\ CleanedFlag(s) \in Maybe
BY DEF Maybe, RowState, ValidFlag, ReactedFlag, CleanedFlag

\* update_state writes states.
LEMMA UpdateStateType ==
    ASSUME NEW S, NEW s \in RowState, state \in [Events -> RowState], UpdateState(S, s)
    PROVE  state' \in [Events -> RowState]
BY DEF UpdateState

\* An object before its event is read.
LEMMA NoObjType == NoObj \in Obj
BY DEF NoObj, Obj, ObjPc, Maybe

\* A firing before its events are collected.
LEMMA NoUnitType == NoUnit \in Unit
BY DEF NoUnit, Unit, UnitPc, Maybe

\* Moving an object, or a firing, on.
LEMMA ObjMoves ==
    /\ \A o \in Obj : \A p \in ObjPc : [o EXCEPT !.pc = p] \in Obj
    /\ \A o \in Obj : \A p \in ObjPc : \A v \in Maybe :
          [o EXCEPT !.pc = p, !.valid = v] \in Obj
    /\ \A o \in Obj : \A p \in ObjPc : \A v \in Maybe :
          [o EXCEPT !.valid = v, !.pc = p] \in Obj
    /\ \A o \in Obj : \A p \in ObjPc : \A b \in BOOLEAN :
          [o EXCEPT !.pc = p, !.env = b] \in Obj
    /\ \A o \in Obj : \A b \in BOOLEAN : [o EXCEPT !.env = b] \in Obj
BY DEF Obj

\* The same for a firing.
LEMMA UnitMoves ==
    /\ \A x \in Unit : \A p \in UnitPc : [x EXCEPT !.pc = p] \in Unit
    /\ \A x \in Unit : \A p \in UnitPc : \A v \in Maybe :
          [x EXCEPT !.reacted = v, !.pc = p] \in Unit
    /\ \A x \in Unit : \A p \in UnitPc : \A v \in Maybe : \A S \in SUBSET Events :
          [x EXCEPT !.members = S, !.valid = v, !.pc = p] \in Unit
BY DEF Unit

\* A firing that begins.
LEMMA NewUnitType ==
    ASSUME TypeOK, NEW r \in Requests, NEW u \in Units, NEW S \in SUBSET Events
    PROVE  NewUnit(r, u, S) \in Unit
<1>1. CASE S = {}
  BY <1>1, NoUnitType DEF NewUnit
<1>2. CASE S # {} /\ u \in GroupedUnits
  BY <1>2, NoUnitType DEF NewUnit, NoUnit, Unit, UnitPc
<1>3. CASE S # {} /\ u \notin GroupedUnits
  <2> DEFINE o == obj[r][CHOOSE e \in S : TRUE]
  <2>1. o \in Obj
    BY <1>3 DEF TypeOK
  <2>2. /\ o.valid \in Maybe
        /\ o.reacted \in Maybe
        /\ o.cleaned \in Maybe
    BY <2>1 DEF Obj
  <2>3. NewUnit(r, u, S) = [pc |-> "queued", members |-> S, valid |-> o.valid,
                            reacted |-> o.reacted, cleaned |-> o.cleaned]
    BY <1>3 DEF NewUnit
  <2> QED  BY <2>2, <2>3 DEF Unit, UnitPc
<1> QED  BY <1>1, <1>2, <1>3

\* The first state has the types.
LEMMA InitType == Init => TypeOK
BY NoObjType, NoUnitType DEF Init, TypeOK, RowState, ReqState

\* Every step keeps the types.
LEMMA StepType == TypeOK /\ [Next]_vars => TypeOK'
<1> SUFFICES ASSUME TypeOK, [Next]_vars PROVE TypeOK'
  OBVIOUS
<1> USE DEF TypeOK, RowState, ReqState, ObjPc, UnitPc, history
<1>1. ASSUME NEW S \in SUBSET Events, CreateEvents(S) PROVE TypeOK'
  BY SMTT(30), <1>1 DEF CreateEvents, UpdateState
<1>2. ASSUME NEW r \in Requests, FindPending(r) PROVE TypeOK'
  BY ZenonT(30), <1>2, ObjMoves, NoObjType DEF FindPending
<1>3. ASSUME NEW r \in Requests, NEW u \in Units, NEW S \in SUBSET Events, CallFire(r, u, S) PROVE TypeOK'
  BY <1>3, ObjMoves, NoObjType DEF CallFire
<1>4. ASSUME NEW r \in Requests, NEW e \in Events, ReadEvent(r, e) PROVE TypeOK'
  <2>1. state[e] \in RowState
    BY DEF TypeOK
  <2> HIDE DEF RowState
  <2>2. [pc |-> "read", valid |-> ValidFlag(state[e]), reacted |-> ReactedFlag(state[e]),
         cleaned |-> CleanedFlag(state[e]), env |-> FALSE] \in Obj
    <3>1. /\ ValidFlag(state[e]) \in Maybe
          /\ ReactedFlag(state[e]) \in Maybe
          /\ CleanedFlag(state[e]) \in Maybe
      BY SMTT(30), <2>1, FlagTypes
    <3> QED  BY <3>1 DEF Obj
  <2> QED  BY <1>4, <2>2 DEF ReadEvent
<1>5. ASSUME NEW r \in Requests, NEW e \in Events, MarkFound(r, e) PROVE TypeOK'
  BY ZenonT(30), <1>5, ObjMoves DEF MarkFound, UpdateState
<1>6. ASSUME NEW r \in Requests, NEW e \in Events, RetrieveTarget(r, e) PROVE TypeOK'
  <2> DEFINE p == IF req[r] = "loading" THEN "built" ELSE "loaded"
             q == IF req[r] = "loading" THEN "built" ELSE "left"
  <2>1. /\ [obj[r][e] EXCEPT !.pc = p] \in Obj
        /\ [obj[r][e] EXCEPT !.valid = "no", !.pc = q] \in Obj
    <3>1. obj[r][e] \in Obj
      OBVIOUS
    <3> QED  BY <3>1 DEF Obj, Maybe
  <2> HIDE DEF p, q
  <2>2. \/ obj' = [obj EXCEPT ![r][e].pc = p]
        \/ obj' = [obj EXCEPT ![r][e] = [@ EXCEPT !.valid = "no", !.pc = q]]
    BY <1>6 DEF RetrieveTarget, p, q
  <2>3. CASE obj' = [obj EXCEPT ![r][e].pc = p]
    BY <1>6, <2>1, <2>3 DEF RetrieveTarget, UpdateState
  <2>4. CASE obj' = [obj EXCEPT ![r][e] = [@ EXCEPT !.valid = "no", !.pc = q]]
    BY <1>6, <2>1, <2>4 DEF RetrieveTarget, UpdateState
  <2> QED  BY <2>2, <2>3, <2>4
<1>7. ASSUME NEW r \in Requests, NEW u \in Units, LoadGroup(r, u) PROVE TypeOK'
  <2>1. \A x \in Events : /\ [obj[r][x] EXCEPT !.pc = "built"] \in Obj
                          /\ [obj[r][x] EXCEPT !.pc = "built", !.valid = "no"] \in Obj
    <3>1. \A x \in Events : obj[r][x] \in Obj
      OBVIOUS
    <3> QED  BY ZenonT(30), <3>1 DEF Obj, Maybe
  <2> DEFINE S == {x \in Members(u) : obj[r][x].pc = "read"}
  <2>2. PICK missing \in SUBSET S :
           /\ state' = [x \in Events |-> IF x \in missing THEN "invalid"
                                        ELSE IF x \in S THEN "found" ELSE state[x]]
           /\ obj' = [obj EXCEPT ![r] =
                 [x \in Events |->
                     IF x \in missing
                     THEN [obj[r][x] EXCEPT !.pc = "built", !.valid = "no"]
                     ELSE IF x \in S THEN [obj[r][x] EXCEPT !.pc = "built"]
                     ELSE obj[r][x]]]
    BY <1>7 DEF LoadGroup
  <2>3. state' \in [Events -> RowState]
    BY <2>2
  <2>4. obj' \in [Requests -> [Events -> Obj]]
    <3> HIDE DEF S
    <3> QED  BY <2>1, <2>2
  <2> QED  BY <1>7, <2>3, <2>4 DEF LoadGroup
<1>8. ASSUME NEW r \in Requests, NEW e \in Events, GatherFails(r, e) PROVE TypeOK'
  BY ZenonT(30), <1>8, ObjMoves DEF GatherFails
<1>9. ASSUME NEW r \in Requests, NEW e \in Events, CollectFails(r, e) PROVE TypeOK'
  BY ZenonT(30), <1>9, ObjMoves DEF CollectFails
<1>10. ASSUME NEW r \in Requests, NEW e \in Events, StartCollect(r, e) PROVE TypeOK'
  BY <1>10, ObjMoves DEF StartCollect, UpdateState
<1>11. ASSUME NEW r \in Requests, NEW e \in Events, EndCollect(r, e) PROVE TypeOK'
  <2>1. PICK ok \in BOOLEAN :
           /\ UpdateState({e}, IF ok THEN "collected" ELSE "error")
           /\ obj' = [obj EXCEPT ![r][e] = [@ EXCEPT !.pc = "built", !.env = ok]]
    BY <1>11 DEF EndCollect
  <2>2. [obj[r][e] EXCEPT !.pc = "built", !.env = ok] \in Obj
    <3>1. obj[r][e] \in Obj
      OBVIOUS
    <3> QED  BY <3>1 DEF Obj
  <2>3. obj' \in [Requests -> [Events -> Obj]]
    BY <2>1, <2>2
  <2> QED  BY <1>11, <2>1, <2>3 DEF EndCollect, UpdateState
<1>12. ASSUME NEW r \in Requests, Dispatch(r) PROVE TypeOK'
  <2>1. \A u \in Units, S \in SUBSET Events : NewUnit(r, u, S) \in Unit
    BY NewUnitType
  <2>2. PICK lost \in SUBSET Events :
           /\ UpdateState(lost, "invalid")
           /\ unit' = [unit EXCEPT ![r] =
                 [u \in Units |->
                     NewUnit(r, u, {e \in Members(u) \ lost : obj[r][e].pc = "built"})]]
    BY <1>12 DEF Dispatch
  <2>3. \A u \in Units : {e \in Members(u) \ lost : obj[r][e].pc = "built"} \in SUBSET Events
    BY DEF Members
  <2>4. [u \in Units |-> NewUnit(r, u, {e \in Members(u) \ lost : obj[r][e].pc = "built"})]
           \in [Units -> Unit]
    BY <2>1, <2>3
  <2>5. unit' \in [Requests -> [Units -> Unit]]
    BY SMTT(30), <2>2, <2>4
  <2> QED  BY <1>12, <2>2, <2>5 DEF Dispatch, UpdateState
<1>13. ASSUME NEW r \in Requests, NEW u \in Units, StartFire(r, u) PROVE TypeOK'
  BY ZenonT(30), <1>13, UnitMoves DEF StartFire
<1>14. ASSUME NEW r \in Requests, NEW u \in Units, SkipValidate(r, u) PROVE TypeOK'
  BY ZenonT(30), <1>14, UnitMoves DEF SkipValidate
<1>15. ASSUME NEW r \in Requests, NEW u \in Units, StartBuild(r, u) PROVE TypeOK'
  BY <1>15, UnitMoves DEF StartBuild, UpdateState
<1>16. ASSUME NEW r \in Requests, NEW u \in Units, EndBuild(r, u) PROVE TypeOK'
  <2>1. PICK ok \in BOOLEAN :
           /\ UpdateState(unit[r][u].members, IF ok THEN "collected" ELSE "error")
           /\ obj' = [obj EXCEPT ![r] =
                         [e \in Events |-> IF e \in unit[r][u].members
                                           THEN [obj[r][e] EXCEPT !.env = ok]
                                           ELSE obj[r][e]]]
           /\ unit' = [unit EXCEPT ![r][u].pc = IF ok THEN "validate" ELSE "done"]
    BY <1>16 DEF EndBuild
  <2>2. \A e \in Events : [obj[r][e] EXCEPT !.env = ok] \in Obj
    <3>1. \A e \in Events : obj[r][e] \in Obj
      OBVIOUS
    <3> QED  BY ZenonT(30), <3>1 DEF Obj
  <2>3. obj' \in [Requests -> [Events -> Obj]]
    BY <2>1, <2>2
  <2>4. unit' \in [Requests -> [Units -> Unit]]
    BY ZenonT(30), <2>1, UnitMoves
  <2> QED  BY <1>16, <2>1, <2>3, <2>4 DEF EndBuild, UpdateState
<1>17. ASSUME NEW r \in Requests, NEW u \in Units, StartValidate(r, u) PROVE TypeOK'
  BY <1>17, UnitMoves DEF StartValidate, UpdateState
<1>18. ASSUME NEW r \in Requests, NEW u \in Units, EndValidate(r, u) PROVE TypeOK'
  <2> DEFINE S == unit[r][u].members
             undecided == {e \in S : obj[r][e].valid = "undef"}
             passed(v) == {e \in undecided : v[e] = "valid"}
             kept(v) == passed(v) \cup {e \in S : obj[r][e].valid = "yes"}
             ends(v) == [unit[r][u] EXCEPT !.members = kept(v),
                                           !.valid = IF kept(v) = {} THEN "no" ELSE "yes",
                                           !.pc = IF kept(v) = {} THEN "done" ELSE "react"]
  <2>1. PICK v \in [undecided -> {"valid", "invalid", "error"}] :
           /\ state' = [e \in Events |-> IF e \in undecided THEN v[e] ELSE state[e]]
           /\ approved' = approved \cup passed(v)
           /\ unit' = [unit EXCEPT ![r][u] = ends(v)]
    BY <1>18 DEF EndValidate
  <2>2. S \subseteq Events
    BY DEF Unit
  <2>3. /\ state' \in [Events -> RowState]
        /\ approved' \subseteq Events
    BY <2>1, <2>2
  <2>4. ends(v) \in Unit
    <3>1. /\ unit[r][u] \in Unit
          /\ kept(v) \in SUBSET Events
      BY <2>2
    <3> HIDE DEF kept
    <3> QED  BY ZenonT(30), <3>1 DEF Unit, Maybe
  <2> HIDE DEF ends
  <2>5. unit' \in [Requests -> [Units -> Unit]]
    BY <2>1, <2>4
  <2> QED  BY SMTT(30), <1>18, <2>3, <2>5 DEF EndValidate
<1>19. ASSUME NEW r \in Requests, NEW u \in Units, ValidateFails(r, u) PROVE TypeOK'
  BY ZenonT(30), <1>19, UnitMoves DEF ValidateFails, UpdateState
<1>20. ASSUME NEW r \in Requests, NEW u \in Units, SkipReact(r, u) PROVE TypeOK'
  BY ZenonT(30), <1>20, UnitMoves DEF SkipReact
<1>21. ASSUME NEW r \in Requests, NEW u \in Units, StartReact(r, u) PROVE TypeOK'
  BY ZenonT(30), <1>21, UnitMoves DEF StartReact, UpdateState
<1>22. ASSUME NEW r \in Requests, NEW u \in Units, RunReactor(r, u) PROVE TypeOK'
  <2>1. reactions' \in [Events -> 0..2]
    BY <1>22 DEF RunReactor, Again
  <2>2. PICK result \in Maybe, threw \in BOOLEAN :
           unit' = [unit EXCEPT ![r][u] = [@ EXCEPT !.reacted = result,
                                           !.pc = IF threw THEN "threw" ELSE "ran"]]
    BY <1>22 DEF RunReactor
  <2>3. [unit[r][u] EXCEPT !.reacted = result,
                           !.pc = IF threw THEN "threw" ELSE "ran"] \in Unit
    <3>1. unit[r][u] \in Unit
      OBVIOUS
    <3> QED  BY <3>1 DEF Unit
  <2>4. unit' \in [Requests -> [Units -> Unit]]
    BY <2>2, <2>3
  <2> QED  BY <1>22, <2>1, <2>4 DEF RunReactor
<1>23. ASSUME NEW r \in Requests, NEW u \in Units, ReactorThrew(r, u) PROVE TypeOK'
  BY ZenonT(30), <1>23, UnitMoves DEF ReactorThrew, UpdateState
<1>24. ASSUME NEW r \in Requests, NEW u \in Units, EndReact(r, u) PROVE TypeOK'
  BY ZenonT(30), <1>24, UnitMoves DEF EndReact, UpdateState
<1>25. ASSUME NEW r \in Requests, NEW u \in Units, SkipCleanup(r, u) PROVE TypeOK'
  BY ZenonT(30), <1>25, UnitMoves DEF SkipCleanup
<1>26. ASSUME NEW r \in Requests, NEW u \in Units, StartCleanup(r, u) PROVE TypeOK'
  BY ZenonT(30), <1>26, UnitMoves DEF StartCleanup, UpdateState
<1>27. ASSUME NEW r \in Requests, NEW u \in Units, EndCleanup(r, u) PROVE TypeOK'
  <2>1. unit[r][u].members \subseteq Events
    BY DEF Unit
  <2>2. unit' \in [Requests -> [Units -> Unit]]
    BY ZenonT(30), <1>27, UnitMoves DEF EndCleanup
  <2>3. /\ state' \in [Events -> RowState]
        /\ completed' \subseteq Events
    BY <1>27, <2>1 DEF EndCleanup, UpdateState
  <2> QED  BY <1>27, <2>2, <2>3 DEF EndCleanup
<1>28. ASSUME NEW r \in Requests, NEW u \in Units, FireDies(r, u) PROVE TypeOK'
  BY ZenonT(30), <1>28, UnitMoves DEF FireDies
<1>29. ASSUME NEW r \in Requests, RequestDies(r) PROVE TypeOK'
  BY ZenonT(30), <1>29, ObjMoves, UnitMoves DEF RequestDies
<1>30. ASSUME NEW r \in Requests, EndRequest(r) PROVE TypeOK'
  BY <1>30, ObjMoves, UnitMoves, NoObjType, NoUnitType DEF EndRequest
<1>31. CASE UNCHANGED vars
  BY <1>31 DEF vars
<1> QED
  BY <1>1, <1>2, <1>3, <1>4, <1>5, <1>6, <1>7, <1>8, <1>9, <1>10, <1>11, <1>12, <1>13, <1>14, <1>15, <1>16, <1>17, <1>18, <1>19, <1>20, <1>21, <1>22, <1>23, <1>24, <1>25, <1>26, <1>27, <1>28, <1>29, <1>30, <1>31
     DEF Next, Call, Work, Fail, Load, Collect, Fire


\* The rows, the objects and the firings are always what they should be.
THEOREM TypeCorrect == Spec => []TypeOK
<1>1. TypeOK /\ [Next]_vars => TypeOK'
  BY StepType
<1> QED  BY <1>1, InitType, PTL DEF Spec

-----------------------------------------------------------------------------
(* The inductive invariant, part by part.                                  *)

\* Only three steps do what the history records.
LEMMA HistorySteps ==
    ASSUME [Next]_vars
    PROVE  \/ UNCHANGED history
           \/ \E r \in Requests, u \in Units :
                 EndValidate(r, u) \/ RunReactor(r, u) \/ EndCleanup(r, u)
<1>1. ASSUME NEW r \in Requests, NEW e \in Events,
             Load(r, e) \/ Collect(r, e) \/ GatherFails(r, e) \/ CollectFails(r, e)
      PROVE  UNCHANGED history
  BY ZenonT(30), <1>1 DEF Load, Collect, ReadEvent, MarkFound, RetrieveTarget, StartCollect,
         EndCollect, GatherFails, CollectFails
<1>2. ASSUME NEW r \in Requests, NEW u \in Units,
             LoadGroup(r, u) \/ ValidateFails(r, u) \/ FireDies(r, u)
      PROVE  UNCHANGED history
  BY <1>2 DEF LoadGroup, ValidateFails, FireDies
<1>3. ASSUME NEW r \in Requests, NEW u \in Units, Fire(r, u)
      PROVE  \/ UNCHANGED history
             \/ EndValidate(r, u) \/ RunReactor(r, u) \/ EndCleanup(r, u)
  <2>1. CASE \/ StartFire(r, u) \/ SkipValidate(r, u) \/ StartBuild(r, u)
             \/ EndBuild(r, u) \/ StartValidate(r, u) \/ SkipReact(r, u)
    BY <2>1 DEF StartFire, SkipValidate, StartBuild, EndBuild, StartValidate, SkipReact
  <2>2. CASE \/ StartReact(r, u) \/ ReactorThrew(r, u) \/ EndReact(r, u)
             \/ SkipCleanup(r, u) \/ StartCleanup(r, u)
    BY <2>2 DEF StartReact, ReactorThrew, EndReact, SkipCleanup, StartCleanup
  <2> QED  BY <1>3, <2>1, <2>2 DEF Fire
<1>4. ASSUME NEW r \in Requests,
             Call(r) \/ Dispatch(r) \/ EndRequest(r) \/ RequestDies(r)
      PROVE  UNCHANGED history
  BY <1>4 DEF Call, FindPending, CallFire, Dispatch, EndRequest, RequestDies
<1>5. ASSUME NEW S \in SUBSET Events, CreateEvents(S) PROVE UNCHANGED history
  BY <1>5 DEF CreateEvents
<1>6. CASE UNCHANGED vars
  BY <1>6 DEF vars, history
<1> QED
  BY <1>1, <1>2, <1>3, <1>4, <1>5, <1>6 DEF Next, Work, Fail

\* What was approved or reacted to once stays so.
Grows == /\ approved \subseteq approved'
         /\ \A e \in Events : reactions[e] > 0 => reactions'[e] > 0

\* What was approved stays approved, and a reaction is not undone.
LEMMA HistoryGrows == TypeOK /\ [Next]_vars => Grows
<1> SUFFICES ASSUME TypeOK, [Next]_vars PROVE Grows
  OBVIOUS
<1>1. ASSUME NEW r \in Requests, NEW u \in Units, EndValidate(r, u) PROVE Grows
  BY <1>1 DEF EndValidate, Grows
<1>2. ASSUME NEW r \in Requests, NEW u \in Units, RunReactor(r, u) PROVE Grows
  BY <1>2 DEF RunReactor, Grows, Again, TypeOK
<1>3. ASSUME NEW r \in Requests, NEW u \in Units, EndCleanup(r, u) PROVE Grows
  BY <1>3 DEF EndCleanup, Grows
<1>4. CASE UNCHANGED history
  BY <1>4 DEF history, Grows
<1> QED  BY <1>1, <1>2, <1>3, <1>4, HistorySteps

\* Rows that are given one of these states have nothing to show for it.
LEMMA ColumnStep ==
    ASSUME TypeOK, ColumnInv, Grows, UNCHANGED reactions,
           NEW S, NEW s, UpdateState(S, s),
           s \in {"valid", "reacting", "reacted", "cleaning", "complete"}
              => S \subseteq approved',
           s \in {"reacted", "cleaning", "complete"}
              => \A e \in S : reactions'[e] > 0
    PROVE  ColumnInv'
BY DEF ColumnInv, Grows, UpdateState, TypeOK

\* A step that writes no row keeps ColumnInv.
LEMMA ColumnKept ==
    ASSUME ColumnInv, UNCHANGED <<state, reactions>>, Grows
    PROVE  ColumnInv'
BY DEF ColumnInv, Grows

\* A step that moves one object and keeps its flags truthful.
LEMMA ObjStep ==
    ASSUME TypeOK, ObjInv, Grows, NEW r \in Requests, NEW e \in Events, NEW o,
           obj' = [obj EXCEPT ![r][e] = o], FlagsOK(obj[r][e], e)'
    PROVE  ObjInv'
BY DEF TypeOK, ObjInv, Grows, FlagsOK

\* A step that moves no object.
LEMMA ObjKept ==
    ASSUME ObjInv, Grows, UNCHANGED obj
    PROVE  ObjInv'
BY DEF ObjInv, Grows, FlagsOK

\* A step that moves one firing and keeps it truthful.
LEMMA UnitStep ==
    ASSUME TypeOK, UnitInv, Grows, NEW r \in Requests, NEW u \in Units, NEW x,
           unit' = [unit EXCEPT ![r][u] = x], FiringOK(unit[r][u])'
    PROVE  UnitInv'
<1>1. \A q \in Requests, v \in Units :
         unit'[q][v] = unit[q][v] \/ (q = r /\ v = u)
  BY DEF TypeOK
<1>2. \A q \in Requests, v \in Units : unit[q][v].members \subseteq Events
  BY DEF TypeOK, Unit
<1>3. \A q \in Requests, v \in Units : FiringOK(unit[q][v])'
  BY <1>2 DEF UnitInv, Grows, FiringOK
<1> QED  BY <1>1, <1>3 DEF UnitInv

\* A step that moves no firing.
LEMMA UnitKept ==
    ASSUME TypeOK, UnitInv, Grows, UNCHANGED unit
    PROVE  UnitInv'
<1>1. \A r \in Requests, u \in Units : unit[r][u].members \subseteq Events
  BY DEF TypeOK, Unit
<1> QED  BY <1>1 DEF UnitInv, Grows, FiringOK

\* Moving an object on changes no flag.
LEMMA ObjMoved ==
    ASSUME TypeOK, ObjInv, Grows, NEW r \in Requests, NEW e \in Events, NEW p,
           obj' = [obj EXCEPT ![r][e].pc = p]
    PROVE  ObjInv'
<1>1. obj[r][e] \in Obj
  BY DEF TypeOK
<1>2. obj' = [obj EXCEPT ![r][e] = [obj[r][e] EXCEPT !.pc = p]]
  OBVIOUS
<1>3. obj'[r][e] = [obj[r][e] EXCEPT !.pc = p]
  BY <1>2 DEF TypeOK
<1>4. /\ obj'[r][e].valid = obj[r][e].valid
      /\ obj'[r][e].reacted = obj[r][e].reacted
  BY <1>1, <1>3 DEF Obj
<1>5. FlagsOK(obj[r][e], e)'
  BY <1>4 DEF ObjInv, FlagsOK, Grows
<1> QED  BY <1>2, <1>5, ObjStep

\* A firing may be moved on to where its flags and members let it be.
LEMMA UnitMoved ==
    ASSUME TypeOK, UnitInv, Grows, NEW r \in Requests, NEW u \in Units, NEW p,
           unit' = [unit EXCEPT ![r][u].pc = p],
           p \in {"building", "validating"} => unit[r][u].valid = "undef",
           p \in {"react", "reacting", "threw", "ran", "clean", "cleaning"}
              => unit[r][u].valid = "yes",
           p \in {"threw", "ran", "clean", "cleaning"}
              => \A e \in unit[r][u].members : reactions[e] > 0
    PROVE  UnitInv'
<1>1. unit[r][u] \in Unit
  BY DEF TypeOK
<1>2. unit' = [unit EXCEPT ![r][u] = [unit[r][u] EXCEPT !.pc = p]]
  OBVIOUS
<1>3. unit'[r][u] = [unit[r][u] EXCEPT !.pc = p]
  BY <1>2 DEF TypeOK
<1>4. /\ unit'[r][u].pc = p
      /\ unit'[r][u].members = unit[r][u].members
      /\ unit'[r][u].valid = unit[r][u].valid
      /\ unit'[r][u].reacted = unit[r][u].reacted
      /\ unit[r][u].members \subseteq Events
  BY <1>1, <1>3 DEF Unit
<1>5. FiringOK(unit[r][u])'
  BY <1>4 DEF UnitInv, FiringOK, Grows
<1> QED  BY <1>2, <1>5, UnitStep

\* The same for a request whose objects, or firings, all change at once.
LEMMA ObjRow ==
    ASSUME TypeOK, ObjInv, Grows, NEW r \in Requests, NEW f,
           obj' = [obj EXCEPT ![r] = f],
           \A e \in Events : FlagsOK(obj[r][e], e)'
    PROVE  ObjInv'
<1>1. \A q \in Requests : q # r => obj'[q] = obj[q]
  BY DEF TypeOK
<1>2. ASSUME NEW q \in Requests, NEW e \in Events, q # r
      PROVE  FlagsOK(obj[q][e], e)'
  BY <1>1, <1>2 DEF ObjInv, FlagsOK, Grows
<1> QED  BY <1>2 DEF ObjInv

\* A step that moves all the firings of one request.
LEMMA UnitRow ==
    ASSUME TypeOK, UnitInv, Grows, NEW r \in Requests, NEW f,
           unit' = [unit EXCEPT ![r] = f],
           \A u \in Units : FiringOK(unit[r][u])'
    PROVE  UnitInv'
<1>1. \A q \in Requests : q # r => unit'[q] = unit[q]
  BY DEF TypeOK
<1>2. \A q \in Requests, u \in Units : unit[q][u].members \subseteq Events
  BY DEF TypeOK, Unit
<1>3. ASSUME NEW q \in Requests, NEW u \in Units, q # r
      PROVE  FiringOK(unit[q][u])'
  BY <1>1, <1>2, <1>3 DEF UnitInv, FiringOK, Grows
<1> QED  BY <1>3 DEF UnitInv


\* Every step keeps the invariant.
LEMMA StepInv == IInv /\ [Next]_vars => IInv'
<1> SUFFICES ASSUME IInv, [Next]_vars PROVE IInv'
  OBVIOUS
<1>1. TypeOK'
  BY StepType DEF IInv
<1>2. Grows
  BY HistoryGrows DEF IInv
<1> USE <1>2 DEF IInv, history
<1>3. ASSUME NEW r \in Requests, NEW e \in Events, MarkFound(r, e)
      PROVE  ColumnInv' /\ ObjInv' /\ UnitInv'
  <2>1. ColumnInv'
    BY <1>3, ColumnStep DEF MarkFound, UnitInv, FiringOK, Grows
  <2>2. ObjInv'
    BY <1>3, ObjMoved DEF MarkFound
  <2>3. UnitInv'
    BY <1>3, UnitKept DEF MarkFound
  <2> QED  BY <2>1, <2>2, <2>3
<1>4. ASSUME NEW r \in Requests, NEW e \in Events, GatherFails(r, e)
      PROVE  ColumnInv' /\ ObjInv' /\ UnitInv'
  <2>1. ColumnInv'
    BY <1>4, ColumnKept DEF GatherFails
  <2>2. ObjInv'
    BY <1>4, ObjMoved DEF GatherFails
  <2>3. UnitInv'
    BY <1>4, UnitKept DEF GatherFails
  <2> QED  BY <2>1, <2>2, <2>3
<1>5. ASSUME NEW r \in Requests, NEW e \in Events, CollectFails(r, e)
      PROVE  ColumnInv' /\ ObjInv' /\ UnitInv'
  <2>1. ColumnInv'
    BY <1>5, ColumnKept DEF CollectFails
  <2>2. ObjInv'
    BY <1>5, ObjMoved DEF CollectFails
  <2>3. UnitInv'
    BY <1>5, UnitKept DEF CollectFails
  <2> QED  BY <2>1, <2>2, <2>3
<1>6. ASSUME NEW r \in Requests, NEW e \in Events, StartCollect(r, e)
      PROVE  ColumnInv' /\ ObjInv' /\ UnitInv'
  <2>1. ColumnInv'
    BY <1>6, ColumnStep DEF StartCollect, UnitInv, FiringOK, Grows
  <2>2. ObjInv'
    BY <1>6, ObjMoved DEF StartCollect
  <2>3. UnitInv'
    BY <1>6, UnitKept DEF StartCollect
  <2> QED  BY <2>1, <2>2, <2>3
<1>7. ASSUME NEW r \in Requests, NEW u \in Units, StartFire(r, u)
      PROVE  ColumnInv' /\ ObjInv' /\ UnitInv'
  <2>1. ColumnInv'
    BY <1>7, ColumnKept DEF StartFire
  <2>2. ObjInv'
    BY <1>7, ObjKept DEF StartFire
  <2>3. UnitInv'
    BY <1>7, UnitMoved DEF StartFire, UnitInv, FiringOK
  <2> QED  BY <2>1, <2>2, <2>3
<1>8. ASSUME NEW r \in Requests, NEW u \in Units, SkipValidate(r, u)
      PROVE  ColumnInv' /\ ObjInv' /\ UnitInv'
  <2>1. ColumnInv'
    BY <1>8, ColumnKept DEF SkipValidate
  <2>2. ObjInv'
    BY <1>8, ObjKept DEF SkipValidate
  <2>3. UnitInv'
    BY <1>8, UnitMoved DEF SkipValidate, UnitInv, FiringOK
  <2> QED  BY <2>1, <2>2, <2>3
<1>9. ASSUME NEW r \in Requests, NEW u \in Units, StartBuild(r, u)
      PROVE  ColumnInv' /\ ObjInv' /\ UnitInv'
  <2>1. ColumnInv'
    BY <1>9, ColumnStep DEF StartBuild, UnitInv, FiringOK, Grows
  <2>2. ObjInv'
    BY <1>9, ObjKept DEF StartBuild
  <2>3. UnitInv'
    BY <1>9, UnitMoved DEF StartBuild, UnitInv, FiringOK
  <2> QED  BY <2>1, <2>2, <2>3
<1>10. ASSUME NEW r \in Requests, NEW u \in Units, StartValidate(r, u)
      PROVE  ColumnInv' /\ ObjInv' /\ UnitInv'
  <2>1. ColumnInv'
    BY <1>10, ColumnStep DEF StartValidate, UnitInv, FiringOK, Grows
  <2>2. ObjInv'
    BY <1>10, ObjKept DEF StartValidate
  <2>3. UnitInv'
    BY <1>10, UnitMoved DEF StartValidate, UnitInv, FiringOK
  <2> QED  BY <2>1, <2>2, <2>3
<1>11. ASSUME NEW r \in Requests, NEW u \in Units, ValidateFails(r, u)
      PROVE  ColumnInv' /\ ObjInv' /\ UnitInv'
  <2>1. ColumnInv'
    BY <1>11, ColumnStep DEF ValidateFails, UnitInv, FiringOK, Grows
  <2>2. ObjInv'
    BY <1>11, ObjKept DEF ValidateFails
  <2>3. UnitInv'
    BY <1>11, UnitMoved DEF ValidateFails, UnitInv, FiringOK
  <2> QED  BY <2>1, <2>2, <2>3
<1>12. ASSUME NEW r \in Requests, NEW u \in Units, SkipReact(r, u)
      PROVE  ColumnInv' /\ ObjInv' /\ UnitInv'
  <2>1. ColumnInv'
    BY <1>12, ColumnKept DEF SkipReact
  <2>2. ObjInv'
    BY <1>12, ObjKept DEF SkipReact
  <2>3. UnitInv'
    BY <1>12, UnitMoved DEF SkipReact, UnitInv, FiringOK
  <2> QED  BY <2>1, <2>2, <2>3
<1>13. ASSUME NEW r \in Requests, NEW u \in Units, StartReact(r, u)
      PROVE  ColumnInv' /\ ObjInv' /\ UnitInv'
  <2>1. ColumnInv'
    BY <1>13, ColumnStep DEF StartReact, UnitInv, FiringOK, Grows
  <2>2. ObjInv'
    BY SMTT(30), <1>13, ObjKept DEF StartReact
  <2>3. UnitInv'
    BY <1>13, UnitMoved DEF StartReact, UnitInv, FiringOK
  <2> QED  BY <2>1, <2>2, <2>3
<1>14. ASSUME NEW r \in Requests, NEW u \in Units, ReactorThrew(r, u)
      PROVE  ColumnInv' /\ ObjInv' /\ UnitInv'
  <2>1. ColumnInv'
    BY <1>14, ColumnStep DEF ReactorThrew, UnitInv, FiringOK, Grows
  <2>2. ObjInv'
    BY <1>14, ObjKept DEF ReactorThrew
  <2>3. UnitInv'
    BY <1>14, UnitMoved DEF ReactorThrew, UnitInv, FiringOK
  <2> QED  BY <2>1, <2>2, <2>3
<1>15. ASSUME NEW r \in Requests, NEW u \in Units, EndReact(r, u)
      PROVE  ColumnInv' /\ ObjInv' /\ UnitInv'
  <2>1. ColumnInv'
    BY <1>15, ColumnStep DEF EndReact, UnitInv, FiringOK, Grows
  <2>2. ObjInv'
    BY <1>15, ObjKept DEF EndReact
  <2>3. UnitInv'
    <3>1. CASE unit[r][u].reacted # "undef"
      BY <1>15, <3>1, UnitMoved DEF EndReact, UnitInv, FiringOK
    <3>2. CASE unit[r][u].reacted = "undef"
      <4>1. unit' = [unit EXCEPT ![r][u].pc = "done"]
        BY <1>15, <3>2 DEF EndReact
      <4>2. "done" \notin {"building", "validating", "react", "reacting", "threw",
                             "ran", "clean", "cleaning"}
        OBVIOUS
      <4> QED  BY <1>2, <4>1, <4>2, UnitMoved, Zenon DEF IInv
    <3> QED  BY <3>1, <3>2
  <2> QED  BY <2>1, <2>2, <2>3
<1>16. ASSUME NEW r \in Requests, NEW u \in Units, SkipCleanup(r, u)
      PROVE  ColumnInv' /\ ObjInv' /\ UnitInv'
  <2>1. ColumnInv'
    BY <1>16, ColumnKept DEF SkipCleanup
  <2>2. ObjInv'
    BY <1>16, ObjKept DEF SkipCleanup
  <2>3. UnitInv'
    BY <1>16, UnitMoved DEF SkipCleanup, UnitInv, FiringOK
  <2> QED  BY <2>1, <2>2, <2>3
<1>17. ASSUME NEW r \in Requests, NEW u \in Units, StartCleanup(r, u)
      PROVE  ColumnInv' /\ ObjInv' /\ UnitInv'
  <2>1. ColumnInv'
    BY <1>17, ColumnStep DEF StartCleanup, UnitInv, FiringOK, Grows
  <2>2. ObjInv'
    BY <1>17, ObjKept DEF StartCleanup
  <2>3. UnitInv'
    BY <1>17, UnitMoved DEF StartCleanup, UnitInv, FiringOK
  <2> QED  BY <2>1, <2>2, <2>3
<1>18. ASSUME NEW r \in Requests, NEW u \in Units, EndCleanup(r, u)
      PROVE  ColumnInv' /\ ObjInv' /\ UnitInv'
  <2>1. ColumnInv'
    BY <1>18, ColumnStep DEF EndCleanup, UnitInv, FiringOK, Grows
  <2>2. ObjInv'
    BY <1>18, ObjKept DEF EndCleanup
  <2>3. UnitInv'
    BY <1>18, UnitMoved DEF EndCleanup, UnitInv, FiringOK
  <2> QED  BY <2>1, <2>2, <2>3
<1>19. ASSUME NEW r \in Requests, NEW u \in Units, FireDies(r, u)
      PROVE  ColumnInv' /\ ObjInv' /\ UnitInv'
  <2>1. ColumnInv'
    BY <1>19, ColumnKept DEF FireDies
  <2>2. ObjInv'
    BY <1>19, ObjKept DEF FireDies
  <2>3. UnitInv'
    BY <1>19, UnitMoved DEF FireDies, UnitInv, FiringOK
  <2> QED  BY <2>1, <2>2, <2>3
<1>20. ASSUME NEW S \in SUBSET Events, CreateEvents(S)
       PROVE  ColumnInv' /\ ObjInv' /\ UnitInv'
  BY <1>20, ColumnStep, ObjKept, UnitKept DEF CreateEvents
<1>21. ASSUME NEW r \in Requests, FindPending(r)
       PROVE  ColumnInv' /\ ObjInv' /\ UnitInv'
  <2>1. \A e \in Events : \/ obj'[r][e] = NoObj
                          \/ obj'[r][e] = [NoObj EXCEPT !.pc = "queued"]
    BY <1>21 DEF FindPending, TypeOK
  <2>2. \A e \in Events : FlagsOK(obj[r][e], e)'
    BY <2>1 DEF FlagsOK, NoObj
  <2>3. ObjInv'
    BY <1>21, <2>2, ObjRow DEF FindPending
  <2> QED  BY <1>21, <2>3, ColumnKept, UnitKept DEF FindPending
<1>22. ASSUME NEW r \in Requests, NEW u \in Units, NEW S \in SUBSET Events, CallFire(r, u, S)
       PROVE  ColumnInv' /\ ObjInv' /\ UnitInv'
  <2>1. \A e \in Events : \/ obj'[r][e] = NoObj
                          \/ obj'[r][e] = [NoObj EXCEPT !.pc = "queued"]
    BY <1>22 DEF CallFire, TypeOK
  <2>2. \A e \in Events : FlagsOK(obj[r][e], e)'
    BY <2>1 DEF FlagsOK, NoObj
  <2>3. ObjInv'
    BY <1>22, <2>2, ObjRow DEF CallFire
  <2> QED  BY <1>22, <2>3, ColumnKept, UnitKept DEF CallFire
<1>23. ASSUME NEW r \in Requests, NEW e \in Events, ReadEvent(r, e)
       PROVE  ColumnInv' /\ ObjInv' /\ UnitInv'
  <2>1. obj'[r][e] = [pc |-> "read", valid |-> ValidFlag(state[e]),
                      reacted |-> ReactedFlag(state[e]),
                      cleaned |-> CleanedFlag(state[e]), env |-> FALSE]
    BY <1>23 DEF ReadEvent, TypeOK
  <2>2. /\ obj'[r][e].valid = ValidFlag(state[e])
        /\ obj'[r][e].reacted = ReactedFlag(state[e])
    BY <2>1
  <2>3. FlagsOK(obj[r][e], e)'
    BY <1>23, <2>2 DEF FlagsOK, ReadEvent, ValidFlag, ReactedFlag, ColumnInv
  <2>4. ObjInv'
    BY <1>23, <2>3, ObjStep DEF ReadEvent
  <2> QED  BY <1>23, <2>4, ColumnKept, UnitKept DEF ReadEvent
<1>24. ASSUME NEW r \in Requests, NEW e \in Events, RetrieveTarget(r, e)
       PROVE  ColumnInv' /\ ObjInv' /\ UnitInv'
  <2>1. CASE /\ obj' = [obj EXCEPT ![r][e].pc = IF req[r] = "loading" THEN "built"
                                                                     ELSE "loaded"]
             /\ UNCHANGED state
    BY <1>24, <2>1, ObjMoved, ColumnKept, UnitKept DEF RetrieveTarget
  <2>2. CASE /\ UpdateState({e}, "invalid")
             /\ obj' = [obj EXCEPT ![r][e] =
                           [@ EXCEPT !.valid = "no",
                                     !.pc = IF req[r] = "loading" THEN "built"
                                                                  ELSE "left"]]
    <3>1. obj[r][e] \in Obj
      BY DEF TypeOK
    <3>2. /\ obj'[r][e].valid = "no"
          /\ obj'[r][e].reacted = obj[r][e].reacted
      <4>1. obj'[r][e] = [obj[r][e] EXCEPT !.valid = "no",
                                           !.pc = IF req[r] = "loading" THEN "built"
                                                                        ELSE "left"]
        BY <2>2 DEF TypeOK
      <4> QED  BY <3>1, <4>1 DEF Obj
    <3>3. FlagsOK(obj[r][e], e)'
      BY <3>2 DEF FlagsOK, ObjInv, Grows
    <3>4. ObjInv'
      BY <2>2, <3>3, ObjStep
    <3> QED  BY <1>24, <2>2, <3>4, ColumnStep, UnitKept DEF RetrieveTarget
  <2> QED  BY <1>24, <2>1, <2>2 DEF RetrieveTarget
<1>25. ASSUME NEW r \in Requests, NEW u \in Units, LoadGroup(r, u)
       PROVE  ColumnInv' /\ ObjInv' /\ UnitInv'
  <2> DEFINE S == {x \in Members(u) : obj[r][x].pc = "read"}
  <2>1. PICK missing \in SUBSET S :
           /\ state' = [x \in Events |-> IF x \in missing THEN "invalid"
                                        ELSE IF x \in S THEN "found" ELSE state[x]]
           /\ obj' = [obj EXCEPT ![r] =
                 [x \in Events |->
                     IF x \in missing
                     THEN [obj[r][x] EXCEPT !.pc = "built", !.valid = "no"]
                     ELSE IF x \in S THEN [obj[r][x] EXCEPT !.pc = "built"]
                     ELSE obj[r][x]]]
    BY <1>25 DEF LoadGroup
  <2> HIDE DEF S
  <2>2. ColumnInv'
    BY <1>25, <2>1 DEF LoadGroup, ColumnInv, TypeOK, Grows
  <2>3. \A e \in Events : obj[r][e] \in Obj
    BY DEF TypeOK
  <2>4. \A e \in Events : /\ obj'[r][e].valid \in {"no", obj[r][e].valid}
                          /\ obj'[r][e].reacted = obj[r][e].reacted
    <3>1. \A x \in Events :
             obj'[r][x] = IF x \in missing
                          THEN [obj[r][x] EXCEPT !.pc = "built", !.valid = "no"]
                          ELSE IF x \in S THEN [obj[r][x] EXCEPT !.pc = "built"]
                          ELSE obj[r][x]
      BY <2>1 DEF TypeOK
    <3> QED  BY <2>3, <3>1 DEF Obj
  <2>5. \A e \in Events : FlagsOK(obj[r][e], e)'
    BY SMTT(30), <2>4 DEF FlagsOK, ObjInv, Grows
  <2>6. ObjInv'
    BY <2>1, <2>5, ObjRow
  <2> QED  BY <1>25, <2>2, <2>6, UnitKept DEF LoadGroup
<1>26. ASSUME NEW r \in Requests, NEW e \in Events, EndCollect(r, e)
       PROVE  ColumnInv' /\ ObjInv' /\ UnitInv'
  <2>1. PICK ok \in BOOLEAN :
           /\ UpdateState({e}, IF ok THEN "collected" ELSE "error")
           /\ obj' = [obj EXCEPT ![r][e] = [@ EXCEPT !.pc = "built", !.env = ok]]
    BY <1>26 DEF EndCollect
  <2>2. obj[r][e] \in Obj
    BY DEF TypeOK
  <2>3. /\ obj'[r][e].valid = obj[r][e].valid
        /\ obj'[r][e].reacted = obj[r][e].reacted
    <3>1. obj'[r][e] = [obj[r][e] EXCEPT !.pc = "built", !.env = ok]
      BY <2>1 DEF TypeOK
    <3> QED  BY <2>2, <3>1 DEF Obj
  <2>4. FlagsOK(obj[r][e], e)'
    BY <2>3 DEF FlagsOK, ObjInv, Grows
  <2>5. ObjInv'
    BY <2>1, <2>4, ObjStep
  <2> QED  BY <1>26, <2>1, <2>5, ColumnStep, UnitKept DEF EndCollect
<1>27. ASSUME NEW r \in Requests, Dispatch(r)
       PROVE  ColumnInv' /\ ObjInv' /\ UnitInv'
  <2>1. PICK lost \in SUBSET Events :
           /\ UpdateState(lost, "invalid")
           /\ unit' = [unit EXCEPT ![r] =
                 [u \in Units |->
                     NewUnit(r, u, {e \in Members(u) \ lost : obj[r][e].pc = "built"})]]
    BY <1>27 DEF Dispatch
  <2>2. ASSUME NEW u \in Units PROVE FiringOK(unit[r][u])'
    <3> DEFINE S == {e \in Members(u) \ lost : obj[r][e].pc = "built"}
    <3>1. unit'[r][u] = NewUnit(r, u, S)
      BY <2>1 DEF TypeOK
    <3>2. S \subseteq Members(u) /\ S \subseteq Events
      BY DEF Members
    <3> HIDE DEF S
    <3>3. CASE S = {}
      BY <3>1, <3>3 DEF NewUnit, NoUnit, FiringOK
    <3>4. CASE S # {} /\ u \in GroupedUnits
      BY <3>1, <3>4 DEF NewUnit, NoUnit, FiringOK
    <3>5. CASE S # {} /\ u \notin GroupedUnits
      <4>1. PICK e \in S : e = CHOOSE x \in S : TRUE
        BY <3>5
      <4>2. S = {e}
        BY <3>2, <3>5, <4>1, LoneAssumption DEF Members
      <4>3. unit'[r][u] = [pc |-> "queued", members |-> {e}, valid |-> obj[r][e].valid,
                           reacted |-> obj[r][e].reacted, cleaned |-> obj[r][e].cleaned]
        BY <3>1, <3>5, <4>1, <4>2 DEF NewUnit
      <4>4. /\ unit'[r][u].pc = "queued"
            /\ unit'[r][u].members = {e}
            /\ unit'[r][u].valid = obj[r][e].valid
            /\ unit'[r][u].reacted = obj[r][e].reacted
        BY <4>3
      <4>5. FlagsOK(obj[r][e], e)
        BY <3>2 DEF ObjInv
      <4>6. obj[r][e].reacted \in Maybe /\ obj[r][e].valid \in Maybe
        <5>1. obj[r][e] \in Obj
          BY <3>2 DEF TypeOK
        <5> QED  BY <5>1 DEF Obj
      <4> QED  BY <3>2, <4>4, <4>5, <4>6 DEF FiringOK, FlagsOK, Grows, Maybe
    <3> QED  BY <3>3, <3>4, <3>5
  <2>3. UnitInv'
    BY <2>1, <2>2, UnitRow
  <2> QED  BY <1>27, <2>1, <2>3, ColumnStep, ObjKept DEF Dispatch
<1>28. ASSUME NEW r \in Requests, NEW u \in Units, EndBuild(r, u)
       PROVE  ColumnInv' /\ ObjInv' /\ UnitInv'
  <2>1. PICK ok \in BOOLEAN :
           /\ UpdateState(unit[r][u].members, IF ok THEN "collected" ELSE "error")
           /\ obj' = [obj EXCEPT ![r] =
                         [e \in Events |-> IF e \in unit[r][u].members
                                           THEN [obj[r][e] EXCEPT !.env = ok]
                                           ELSE obj[r][e]]]
           /\ unit' = [unit EXCEPT ![r][u].pc = IF ok THEN "validate" ELSE "done"]
    BY <1>28 DEF EndBuild
  <2>2. \A e \in Events : obj[r][e] \in Obj
    BY DEF TypeOK
  <2>3. \A e \in Events : /\ obj'[r][e].valid = obj[r][e].valid
                          /\ obj'[r][e].reacted = obj[r][e].reacted
    <3>1. \A e \in Events : obj'[r][e] = IF e \in unit[r][u].members
                                         THEN [obj[r][e] EXCEPT !.env = ok]
                                         ELSE obj[r][e]
      BY <2>1 DEF TypeOK
    <3> QED  BY <2>2, <3>1 DEF Obj
  <2>4. \A e \in Events : FlagsOK(obj[r][e], e)'
    BY <2>3 DEF FlagsOK, ObjInv, Grows
  <2>5. ObjInv'
    BY <2>1, <2>4, ObjRow
  <2>6. UnitInv'
    <3>1. CASE ok
      <4>1. unit' = [unit EXCEPT ![r][u].pc = "validate"]
        BY <2>1, <3>1
      <4>2. "validate" \notin {"building", "validating", "react", "reacting", "threw",
                             "ran", "clean", "cleaning"}
        OBVIOUS
      <4> QED  BY <1>2, <4>1, <4>2, UnitMoved, Zenon DEF IInv
    <3>2. CASE ~ok
      <4>1. unit' = [unit EXCEPT ![r][u].pc = "done"]
        BY <2>1, <3>2
      <4>2. "done" \notin {"building", "validating", "react", "reacting", "threw",
                             "ran", "clean", "cleaning"}
        OBVIOUS
      <4> QED  BY <1>2, <4>1, <4>2, UnitMoved, Zenon DEF IInv
    <3> QED  BY <3>1, <3>2
  <2> QED  BY <1>28, <2>1, <2>5, <2>6, ColumnStep DEF EndBuild
<1>29. ASSUME NEW r \in Requests, NEW u \in Units, EndValidate(r, u)
       PROVE  ColumnInv' /\ ObjInv' /\ UnitInv'
  <2> DEFINE S == unit[r][u].members
             undecided == {e \in S : obj[r][e].valid = "undef"}
             passed(v) == {e \in undecided : v[e] = "valid"}
             kept(v) == passed(v) \cup {e \in S : obj[r][e].valid = "yes"}
  <2>1. PICK v \in [undecided -> {"valid", "invalid", "error"}] :
           /\ state' = [e \in Events |-> IF e \in undecided THEN v[e] ELSE state[e]]
           /\ approved' = approved \cup passed(v)
           /\ unit' = [unit EXCEPT ![r][u] =
                 [@ EXCEPT !.members = kept(v),
                           !.valid = IF kept(v) = {} THEN "no" ELSE "yes",
                           !.pc = IF kept(v) = {} THEN "done" ELSE "react"]]
    BY <1>29 DEF EndValidate
  <2>2. /\ unit[r][u] \in Unit
        /\ S \subseteq Events
        /\ unit[r][u].valid = "undef"
        /\ unit[r][u].reacted = "undef"
    <3>1. unit[r][u] \in Unit
      BY DEF TypeOK
    <3> QED  BY <1>29, <3>1 DEF Unit, EndValidate, UnitInv, FiringOK
  <2>3. ColumnInv'
    BY <1>29, <2>1, <2>2 DEF EndValidate, ColumnInv, TypeOK
  <2>4. kept(v) \subseteq approved'
    BY <2>1, <2>2 DEF ObjInv, FlagsOK
  <2> HIDE DEF kept
  <2>5. /\ unit'[r][u].members = kept(v)
        /\ unit'[r][u].valid = IF kept(v) = {} THEN "no" ELSE "yes"
        /\ unit'[r][u].pc = IF kept(v) = {} THEN "done" ELSE "react"
        /\ unit'[r][u].reacted = "undef"
    <3>1. unit'[r][u] =
             [unit[r][u] EXCEPT !.members = kept(v),
                                !.valid = IF kept(v) = {} THEN "no" ELSE "yes",
                                !.pc = IF kept(v) = {} THEN "done" ELSE "react"]
      BY <2>1 DEF TypeOK
    <3> QED  BY <2>2, <3>1 DEF Unit
  <2>6. FiringOK(unit[r][u])'
    BY <2>4, <2>5 DEF FiringOK
  <2>7. UnitInv'
    BY <2>1, <2>6, UnitStep
  <2> QED  BY SMTT(30), <1>29, <2>3, <2>7, ObjKept DEF EndValidate
<1>30. ASSUME NEW r \in Requests, NEW u \in Units, RunReactor(r, u)
       PROVE  ColumnInv' /\ ObjInv' /\ UnitInv'
  <2>1. PICK result \in Maybe, threw \in BOOLEAN :
           unit' = [unit EXCEPT ![r][u] = [@ EXCEPT !.reacted = result,
                                           !.pc = IF threw THEN "threw" ELSE "ran"]]
    BY <1>30 DEF RunReactor
  <2>2. /\ unit[r][u] \in Unit
        /\ unit[r][u].members \subseteq Events
        /\ unit[r][u].valid = "yes"
        /\ unit[r][u].members \subseteq approved
    <3>1. unit[r][u] \in Unit
      BY DEF TypeOK
    <3> QED  BY <1>30, <3>1 DEF Unit, RunReactor, UnitInv, FiringOK
  <2>3. /\ unit'[r][u].members = unit[r][u].members
        /\ unit'[r][u].valid = "yes"
        /\ unit'[r][u].pc \in {"threw", "ran"}
    <3>1. unit'[r][u] = [unit[r][u] EXCEPT !.reacted = result,
                                           !.pc = IF threw THEN "threw" ELSE "ran"]
      BY <2>1 DEF TypeOK
    <3> QED  BY <2>2, <3>1 DEF Unit
  <2>4. \A e \in unit[r][u].members : reactions'[e] > 0
    BY <1>30, <2>2 DEF RunReactor, Again, TypeOK
  <2>5. FiringOK(unit[r][u])'
    BY <1>30, <2>2, <2>3, <2>4 DEF FiringOK, RunReactor
  <2>6. UnitInv'
    BY <2>1, <2>5, UnitStep
  <2>7. ColumnInv'
    BY <1>30, <2>2 DEF RunReactor, ColumnInv, Grows, TypeOK
  <2> QED  BY <1>30, <2>6, <2>7, ObjKept DEF RunReactor
<1>31. ASSUME NEW r \in Requests, RequestDies(r)
       PROVE  ColumnInv' /\ ObjInv' /\ UnitInv'
  <2>1. \A e \in Events : /\ obj'[r][e].valid = obj[r][e].valid
                          /\ obj'[r][e].reacted = obj[r][e].reacted
    <3>1. \A e \in Events :
             \/ obj'[r][e] = obj[r][e]
             \/ obj'[r][e] = [obj[r][e] EXCEPT !.pc = IF @ = "none" THEN @ ELSE "left"]
      BY <1>31 DEF RequestDies, TypeOK
    <3>2. \A e \in Events : obj[r][e] \in Obj
      BY DEF TypeOK
    <3> QED  BY <3>1, <3>2 DEF Obj
  <2>2. \A e \in Events : FlagsOK(obj[r][e], e)'
    BY <2>1 DEF FlagsOK, ObjInv, Grows
  <2>3. ObjInv'
    BY <1>31, <2>2, ObjRow DEF RequestDies
  <2>4. ASSUME NEW u \in Units PROVE FiringOK(unit[r][u])'
    <3>1. unit[r][u] \in Unit
      BY DEF TypeOK
    <3>2. /\ unit'[r][u].members = unit[r][u].members
          /\ unit'[r][u].valid = unit[r][u].valid
          /\ unit'[r][u].reacted = unit[r][u].reacted
          /\ unit'[r][u].pc \in {unit[r][u].pc, "done"}
      <4>1. \/ unit'[r][u] = unit[r][u]
            \/ unit'[r][u] = [unit[r][u] EXCEPT !.pc = IF @ = "none" THEN @ ELSE "done"]
        BY <1>31 DEF RequestDies, TypeOK
      <4> QED  BY <3>1, <4>1 DEF Unit
    <3>3. unit[r][u].members \subseteq Events
      BY <3>1 DEF Unit
    <3> QED  BY <3>2, <3>3 DEF UnitInv, FiringOK, Grows
  <2>5. UnitInv'
    BY <1>31, <2>4, UnitRow DEF RequestDies
  <2> QED  BY <1>31, <2>3, <2>5, ColumnKept DEF RequestDies
<1>32. ASSUME NEW r \in Requests, EndRequest(r)
       PROVE  ColumnInv' /\ ObjInv' /\ UnitInv'
  <2>1. /\ \A e \in Events : obj'[r][e] = NoObj
        /\ \A u \in Units : unit'[r][u] = NoUnit
    BY <1>32 DEF EndRequest, TypeOK
  <2>2. /\ \A e \in Events : FlagsOK(obj[r][e], e)'
        /\ \A u \in Units : FiringOK(unit[r][u])'
    BY <2>1 DEF FlagsOK, FiringOK, NoObj, NoUnit
  <2> QED  BY <1>32, <2>2, ObjRow, UnitRow, ColumnKept DEF EndRequest
<1>33. CASE UNCHANGED vars
  <2>1. UNCHANGED <<state, obj, unit, reactions>>
    BY <1>33 DEF vars
  <2> QED  BY <1>1, <2>1, ColumnKept, ObjKept, UnitKept
<1> QED
  BY <1>1, <1>3, <1>4, <1>5, <1>6, <1>7, <1>8, <1>9, <1>10, <1>11, <1>12, <1>13, <1>14,
     <1>15, <1>16, <1>17, <1>18, <1>19, <1>20, <1>21, <1>22, <1>23, <1>24, <1>25, <1>26,
     <1>27, <1>28, <1>29, <1>30, <1>31, <1>32, <1>33
     DEF Next, Call, Work, Fail, Load, Collect, Fire

\* The first state satisfies the invariant.
LEMMA InitInv == Init => IInv
<1> SUFFICES ASSUME Init PROVE IInv
  OBVIOUS
<1>1. ColumnInv
  BY DEF Init, ColumnInv
<1>2. ObjInv
  BY DEF Init, ObjInv, FlagsOK, NoObj
<1>3. UnitInv
  BY DEF Init, UnitInv, FiringOK, NoUnit
<1> QED  BY <1>1, <1>2, <1>3, InitType DEF IInv

\* Neither the state column nor any flag or firing ever promises more than
\* has been done to the event: IInv is inductive.
THEOREM Inductive == Spec => []IInv
<1>1. IInv /\ [Next]_vars => IInv'
  BY StepInv
<1> QED  BY <1>1, InitInv, PTL DEF Spec

-----------------------------------------------------------------------------
(* What follows from it.                                                   *)

\* An event's reactor runs only after a validator has said yes to it.
THEOREM ReactionsApproved == Spec => []ReactedOnlyIfApproved
<1>1. IInv => ReactedOnlyIfApproved
  BY DEF IInv, ColumnInv, ReactedOnlyIfApproved
<1> QED  BY <1>1, Inductive, PTL

\* A row that says its event was processed tells the truth.
THEOREM ProcessedRowsReacted == Spec => []ProcessedMeansReacted
<1>1. IInv => ProcessedMeansReacted
  BY DEF IInv, ColumnInv, ProcessedMeansReacted
<1> QED  BY <1>1, Inductive, PTL

-----------------------------------------------------------------------------
(* TriggerEvent implements EventPromise.                                   *)

\* The first state maps to a first state of the promise.
LEMMA PromiseInit == Init => Promise!Init
BY DEF Init, Promise!Init

\* Every step approves, reacts to or completes events as the promise allows,
\* or does nothing the promise speaks of.
LEMMA PromiseStep == IInv /\ [Next]_vars => [Promise!Next]_(Promise!vars)
<1> SUFFICES ASSUME IInv, [Next]_vars PROVE [Promise!Next]_(Promise!vars)
  OBVIOUS
<1> USE DEF IInv
<1>1. \A r \in Requests, u \in Units : unit[r][u].members \in SUBSET Events
  BY DEF TypeOK, Unit
<1>2. ASSUME NEW r \in Requests, NEW u \in Units, EndValidate(r, u)
      PROVE  Promise!Next
  <2>1. PICK S \in SUBSET Events : approved' = approved \cup S
    BY <1>1, <1>2 DEF EndValidate
  <2> QED  BY <1>2, <2>1 DEF EndValidate, Promise!Next, Promise!Approve
<1>3. ASSUME NEW r \in Requests, NEW u \in Units, RunReactor(r, u)
      PROVE  Promise!Next
  <2>1. unit[r][u].members \subseteq approved
    BY <1>3 DEF RunReactor, UnitInv, FiringOK
  <2>2. Promise!React(unit[r][u].members)
    BY <1>3, <2>1 DEF RunReactor, Promise!React, Again
  <2> QED  BY <1>1, <2>2 DEF Promise!Next
<1>4. ASSUME NEW r \in Requests, NEW u \in Units, EndCleanup(r, u)
      PROVE  [Promise!Next]_(Promise!vars)
  <2>1. \A e \in unit[r][u].members : reactions[e] > 0
    BY <1>4 DEF EndCleanup, UnitInv, FiringOK
  <2>2. CASE completed' = completed
    BY <1>4, <2>2 DEF EndCleanup, Promise!vars
  <2>3. CASE completed' = completed \cup unit[r][u].members
    <3>1. Promise!Complete(unit[r][u].members)
      BY <1>4, <2>1, <2>3 DEF EndCleanup, Promise!Complete
    <3> QED  BY <1>1, <3>1 DEF Promise!Next
  <2> QED  BY <1>4, <2>2, <2>3 DEF EndCleanup
<1>5. CASE UNCHANGED history
  BY <1>5 DEF history, Promise!vars
<1> QED  BY <1>2, <1>3, <1>4, <1>5, HistorySteps

\* Whatever the requests do to each other, each event keeps the promise.
THEOREM Implementation == Spec => PromiseKept
<1> QED  BY PromiseInit, PromiseStep, Inductive, PTL DEF Spec, PromiseKept, Promise!Spec

-----------------------------------------------------------------------------
(* No row becomes pending again.                                           *)

\* What every step but the creation of rows does to the column.
Onward == \A e \in Events : \/ state'[e] = state[e]
                            \/ state'[e] \notin {"absent", "pending"}

\* An update to a later state takes no row back.
LEMMA UpdateOnward ==
    ASSUME TypeOK, NEW S, NEW s, s \notin {"absent", "pending"}, UpdateState(S, s)
    PROVE  Onward
BY DEF TypeOK, UpdateState, Onward

\* Only the creation of events makes a row pending.
LEMMA StepOnward ==
    ASSUME TypeOK, [Next]_vars
    PROVE  Onward \/ \E S \in SUBSET Events : CreateEvents(S)
<1>1. ASSUME NEW r \in Requests, NEW e \in Events, Load(r, e) PROVE Onward
  <2>1. CASE ReadEvent(r, e)
    BY <2>1 DEF ReadEvent, Onward
  <2>2. CASE MarkFound(r, e)
    BY <2>2, UpdateOnward DEF MarkFound
  <2>3. CASE RetrieveTarget(r, e)
    BY <2>3, UpdateOnward DEF RetrieveTarget, Onward
  <2> QED  BY <1>1, <2>1, <2>2, <2>3 DEF Load
<1>2. ASSUME NEW r \in Requests, NEW e \in Events,
             Collect(r, e) \/ GatherFails(r, e) \/ CollectFails(r, e)
      PROVE  Onward
  <2>1. CASE StartCollect(r, e)
    BY <2>1, UpdateOnward DEF StartCollect
  <2>2. CASE EndCollect(r, e)
    BY <2>2, UpdateOnward DEF EndCollect
  <2>3. CASE GatherFails(r, e) \/ CollectFails(r, e)
    BY <2>3 DEF GatherFails, CollectFails, Onward
  <2> QED  BY <1>2, <2>1, <2>2, <2>3 DEF Collect
<1>3. ASSUME NEW r \in Requests, NEW u \in Units, LoadGroup(r, u) PROVE Onward
  BY ZenonT(30), <1>3 DEF LoadGroup, Onward, TypeOK
<1>4. ASSUME NEW r \in Requests, Dispatch(r) PROVE Onward
  BY <1>4, UpdateOnward DEF Dispatch
<1>5. ASSUME NEW r \in Requests, NEW u \in Units,
             \/ StartFire(r, u) \/ SkipValidate(r, u) \/ SkipReact(r, u)
             \/ RunReactor(r, u) \/ SkipCleanup(r, u) \/ FireDies(r, u)
      PROVE  Onward
  BY <1>5 DEF StartFire, SkipValidate, SkipReact, RunReactor, SkipCleanup, FireDies, Onward
<1>6. ASSUME NEW r \in Requests, NEW u \in Units,
             \/ StartBuild(r, u) \/ EndBuild(r, u) \/ StartValidate(r, u)
             \/ ValidateFails(r, u)
      PROVE  Onward
  BY <1>6, UpdateOnward DEF StartBuild, EndBuild, StartValidate, ValidateFails
<1>7. ASSUME NEW r \in Requests, NEW u \in Units, EndValidate(r, u) PROVE Onward
  BY <1>7 DEF EndValidate, Onward, TypeOK
<1>8. ASSUME NEW r \in Requests, NEW u \in Units,
             \/ StartReact(r, u) \/ ReactorThrew(r, u) \/ EndReact(r, u)
             \/ StartCleanup(r, u) \/ EndCleanup(r, u)
      PROVE  Onward
  BY <1>8, UpdateOnward DEF StartReact, ReactorThrew, EndReact, StartCleanup, EndCleanup
<1>9. ASSUME NEW r \in Requests, Call(r) \/ EndRequest(r) \/ RequestDies(r)
      PROVE  Onward
  BY <1>9 DEF Call, FindPending, CallFire, EndRequest, RequestDies, Onward
<1>10. CASE UNCHANGED vars
  BY <1>10 DEF vars, Onward
<1> QED
  BY <1>1, <1>2, <1>3, <1>4, <1>5, <1>6, <1>7, <1>8, <1>9, <1>10
     DEF Next, Work, Fail, Fire

\* What was found once is never pending, so never found, again.
THEOREM NothingPendingAgain == Spec => NeverPendingAgain
<1>1. TypeOK /\ [Next]_vars
         => [\A e \in Events : state[e] \notin {"absent", "pending"}
                               => state'[e] \notin {"absent", "pending"}]_vars
  BY StepOnward DEF Onward, CreateEvents, UpdateState, TypeOK
<1> QED  BY <1>1, TypeCorrect, PTL DEF Spec, NeverPendingAgain

-----------------------------------------------------------------------------
(* Why the safety properties hold.  The lock passes to one runner at a     *)
(* time, and only when no request searches and nothing is being created;   *)
(* so a row that is found pending is in nobody's hands, and stays in one   *)
(* request's hands until its reactor has run.                              *)

\* The request has taken the event up, or means to, and has not fired it ...
InObject(r, e) == req[r] # "firing" /\ obj[r][e].pc \notin {"none", "left"}

\* ... or fires it and has not run its reactor yet.
InFiring(r, e) == \E u \in Units :
    /\ e \in unit[r][u].members
    /\ unit[r][u].pc \in {"queued", "validate", "building", "validating",
                          "react", "reacting"}

InHands(r, e) == InObject(r, e) \/ InFiring(r, e)

\* A request gathers, then fires, rows that exist; those it has marked, and
\* those that were reacted to, are not pending.
GathersThenFires(r) ==
    /\ req[r] # "loading"
    /\ req[r] = "idle" => \A e \in Events : obj[r][e].pc = "none"
    /\ req[r] \in {"idle", "gathering"} => \A u \in Units : unit[r][u].pc = "none"
    /\ req[r] = "firing" => Gathered(r)
    /\ \A e \in Events : ~(InObject(r, e) /\ InFiring(r, e))

Marked(r) ==
    /\ \A e \in Events : obj[r][e].pc # "none" => state[e] # "absent"
    /\ \A e \in Events : obj[r][e].pc \in {"found", "loaded", "collecting", "built"}
                            => state[e] # "pending"
    /\ \A u \in Units : \A e \in unit[r][u].members :
          UnitOf[e] = u /\ state[e] \notin {"absent", "pending"}

RequestsInv ==
    /\ \A r \in Requests : GathersThenFires(r) /\ Marked(r)
    /\ \A e \in Events : reactions[e] > 0 => state[e] \notin {"absent", "pending"}

\* A runner that has not taken the lock, or has given it up, is not in it.
GivenUp == \A p \in Runners : run[p].pc \in {"off", "checked", "drain"} => lock # p

\* A runner that creates or searches holds the lock, and so does a killed
\* one whose request still searches or whose events are still created.
LockInv ==
    /\ \A p \in Runners : run[p].pc \in {"hooks", "created", "wait"} => lock = p
    /\ \A p \in Runners : batch[p].pc # "none"
                             => lock = p /\ run[p].pc \in {"hooks", "killed"}
    /\ \A r \in Requests : Searching(r) =>
          \E p \in Runners : /\ lock = p
                             /\ \/ run[p].pc = "killed"
                                \/ run[p].pc = "wait" /\ run[p].req = r

\* What was found to be due still is, an event is in the hands of one
\* request, and nobody who has it in hand comes after its reactor.
HandsInv ==
    /\ \A p \in Runners : batch[p].pc = "searched" => \A t \in batch[p].due : ~HasEvent(t)
    /\ \A e \in Events : \A r, q \in Requests : InHands(r, e) /\ InHands(q, e) => r = q
    /\ \A e \in Events : \A r \in Requests : InHands(r, e) => reactions[e] = 0

RunnerIInv ==
    /\ RunnerTypeOK /\ RequestsInv /\ GivenUp
    /\ slips = {} => LockInv /\ HandsInv
    /\ OneSearcher /\ OneEventPerTarget /\ ReactedOnce

-----------------------------------------------------------------------------
(* What one step of the service does.                                      *)

\* No row is created, and none becomes pending.
NoNewRow == \A e \in Events : \/ state'[e] = state[e]
                              \/ state[e] # "absent" /\ state'[e] \notin {"absent", "pending"}

\* The other requests are left alone.
LeavesOthers(r) == \A q \in Requests : q # r => /\ req'[q] = req[q]
                                                /\ obj'[q] = obj[q]
                                                /\ unit'[q] = unit[q]

\* Nothing more is searched for or taken in hand, and what a reactor is run
\* for leaves the request's hands.
Serves(r) ==
    /\ NoNewRow
    /\ LeavesOthers(r)
    /\ \A e \in Events : obj'[r][e].pc \in {"queued", "read"}
                            => obj[r][e].pc \in {"queued", "read"}
    /\ \A e \in Events : InHands(r, e)' => InHands(r, e)
    /\ \A e \in Events : \/ reactions'[e] = reactions[e]
                         \/ /\ InFiring(r, e) /\ ~InHands(r, e)'
                            /\ reactions'[e] = Again(reactions[e])

\* A request that is left alone keeps its part of the invariant.
LEMMA LeftAlone ==
    ASSUME TypeOK, RequestsInv, NoNewRow, NEW q \in Requests,
           req'[q] = req[q], obj'[q] = obj[q], unit'[q] = unit[q]
    PROVE  GathersThenFires(q)' /\ Marked(q)'
<1>1. \A u \in Units : unit[q][u].members \subseteq Events
  BY DEF TypeOK, Unit
<1>2. GathersThenFires(q) /\ Marked(q)
  BY DEF RequestsInv
<1>3. GathersThenFires(q)'
  BY <1>2 DEF GathersThenFires, Gathered, InObject, InFiring
<1>4. Marked(q)'
  BY <1>1, <1>2 DEF Marked, NoNewRow
<1> QED  BY <1>3, <1>4

\* A step on the object of one event.
ObjectStep(r, e) ==
    /\ UNCHANGED <<req, unit, reactions>>
    /\ LeavesOthers(r)
    /\ \A f \in Events : f # e => obj'[r][f] = obj[r][f] /\ state'[f] = state[f]
    /\ obj[r][e].pc \notin {"none", "built", "left"}
    /\ obj'[r][e].pc # "none"
    /\ obj'[r][e].pc \in {"queued", "read"} => obj[r][e].pc \in {"queued", "read"}
    /\ \/ state'[e] \notin {"absent", "pending"}
       \/ /\ state'[e] = state[e]
          /\ obj'[r][e].pc \in {"found", "loaded", "collecting", "built"}
                => obj[r][e].pc \in {"found", "loaded", "collecting"}

\* Loading and collecting an event, and their failures, are such steps.
LEMMA ObjectSteps ==
    ASSUME TypeOK, RequestsInv, NEW r \in Requests, NEW e \in Events,
           \/ Load(r, e) \/ Collect(r, e)
           \/ GatherFails(r, e) \/ CollectFails(r, e)
    PROVE  ObjectStep(r, e)
<1>1. /\ obj[r][e] \in Obj
      /\ req[r] # "loading"
  BY DEF TypeOK, RequestsInv, GathersThenFires
<1> USE DEF ObjectStep, LeavesOthers, history
<1>2. CASE ReadEvent(r, e)
  <2>1. obj'[r][e].pc = "read"
    BY <1>2 DEF ReadEvent, TypeOK
  <2> QED  BY <1>2, <2>1 DEF ReadEvent, TypeOK
<1>3. ASSUME NEW p, obj' = [obj EXCEPT ![r][e].pc = p]
      PROVE  /\ obj'[r][e].pc = p
             /\ \A f \in Events : f # e => obj'[r][f] = obj[r][f]
             /\ \A q \in Requests : q # r => obj'[q] = obj[q]
  <2>1. obj'[r][e] = [obj[r][e] EXCEPT !.pc = p]
    BY <1>3 DEF TypeOK
  <2>2. obj'[r][e].pc = p
    BY <1>1, <2>1 DEF Obj
  <2> QED  BY <1>3, <2>2 DEF TypeOK
<1>4. CASE MarkFound(r, e)
  BY <1>3, <1>4 DEF MarkFound, UpdateState, TypeOK
<1>5. CASE RetrieveTarget(r, e)
  <2>1. CASE obj' = [obj EXCEPT ![r][e].pc = "loaded"] /\ UNCHANGED state
    BY <1>3, <1>5, <2>1 DEF RetrieveTarget
  <2>2. CASE /\ UpdateState({e}, "invalid")
             /\ obj' = [obj EXCEPT ![r][e] = [@ EXCEPT !.valid = "no", !.pc = "left"]]
    <3>1. obj'[r][e] = [obj[r][e] EXCEPT !.valid = "no", !.pc = "left"]
      BY <2>2 DEF TypeOK
    <3>2. obj'[r][e].pc = "left"
      BY <1>1, <3>1 DEF Obj
    <3> QED  BY <1>5, <2>2, <3>2 DEF RetrieveTarget, UpdateState, TypeOK
  <2> QED  BY <1>1, <1>5, <2>1, <2>2 DEF RetrieveTarget
<1>6. CASE StartCollect(r, e)
  BY <1>3, <1>6 DEF StartCollect, UpdateState, TypeOK
<1>7. CASE EndCollect(r, e)
  <2>1. PICK ok \in BOOLEAN :
           /\ UpdateState({e}, IF ok THEN "collected" ELSE "error")
           /\ obj' = [obj EXCEPT ![r][e] = [@ EXCEPT !.pc = "built", !.env = ok]]
    BY <1>7 DEF EndCollect
  <2>2. obj'[r][e] = [obj[r][e] EXCEPT !.pc = "built", !.env = ok]
    BY <2>1 DEF TypeOK
  <2>3. obj'[r][e].pc = "built"
    BY <1>1, <2>2 DEF Obj
  <2> QED  BY <1>7, <2>1, <2>3 DEF EndCollect, UpdateState, TypeOK
<1>8. CASE GatherFails(r, e)
  BY <1>3, <1>8 DEF GatherFails, Gathering
<1>9. CASE CollectFails(r, e)
  BY <1>3, <1>9 DEF CollectFails
<1> QED  BY <1>2, <1>4, <1>5, <1>6, <1>7, <1>8, <1>9 DEF Load, Collect

\* Such a step serves the request.
LEMMA ObjectServes ==
    ASSUME TypeOK, RequestsInv, NEW r \in Requests, NEW e \in Events, ObjectStep(r, e)
    PROVE  Serves(r) /\ GathersThenFires(r)' /\ Marked(r)'
<1> USE DEF ObjectStep
<1>1. GathersThenFires(r) /\ Marked(r)
  BY DEF RequestsInv
<1>2. \A u \in Units : unit[r][u].members \subseteq Events
  BY DEF TypeOK, Unit
<1>3. state[e] # "absent" /\ NoNewRow
  BY <1>1 DEF Marked, NoNewRow
<1>4. req[r] # "firing" /\ InObject(r, e)
  BY <1>1 DEF GathersThenFires, Gathered, InObject
<1>5. \A f \in Events : InObject(r, f)' => InObject(r, f)
  BY <1>4 DEF InObject
<1>6. \A f \in Events : InFiring(r, f)' <=> InFiring(r, f)
  BY DEF InFiring
<1>7. Serves(r)
  BY <1>3, <1>5, <1>6 DEF Serves, InHands
<1>8. GathersThenFires(r)'
  BY <1>1, <1>4, <1>5, <1>6 DEF GathersThenFires
<1>9. Marked(r)'
  BY <1>1, <1>2, <1>3 DEF Marked, NoNewRow
<1> QED  BY <1>7, <1>8, <1>9

\* A step on the firing of one unit.
FiringStep(r, u) ==
    /\ UNCHANGED req
    /\ LeavesOthers(r)
    /\ \A e \in Events : obj'[r][e].pc = obj[r][e].pc
    /\ \A v \in Units : v # u => unit'[r][v] = unit[r][v]
    /\ unit[r][u].pc \notin {"none", "done"}
    /\ unit'[r][u].members \subseteq unit[r][u].members
    /\ unit'[r][u].pc \in {"queued", "validate", "building", "validating", "react", "reacting"}
          => unit[r][u].pc \in {"queued", "validate", "building", "validating", "react"}
    /\ \A e \in Events : \/ state'[e] = state[e]
                         \/ /\ e \in unit[r][u].members
                            /\ state'[e] \notin {"absent", "pending"}
    /\ \/ UNCHANGED reactions
       \/ /\ unit[r][u].pc = "reacting"
          /\ reactions' = [e \in Events |-> IF e \in unit[r][u].members
                                            THEN Again(reactions[e]) ELSE reactions[e]]

\* Moving a firing on leaves its members and everything else as they were.
LEMMA FiringMoves ==
    ASSUME TypeOK, NEW r \in Requests, NEW u \in Units, NEW p,
           unit' = [unit EXCEPT ![r][u].pc = p]
    PROVE  /\ unit'[r][u].pc = p
           /\ unit'[r][u].members = unit[r][u].members
           /\ \A v \in Units : v # u => unit'[r][v] = unit[r][v]
           /\ \A q \in Requests : q # r => unit'[q] = unit[q]
<1>1. unit[r][u] \in Unit
  BY DEF TypeOK
<1>2. unit'[r][u] = [unit[r][u] EXCEPT !.pc = p]
  BY DEF TypeOK
<1>3. unit'[r][u].pc = p /\ unit'[r][u].members = unit[r][u].members
  BY <1>1, <1>2 DEF Unit
<1> QED  BY <1>3 DEF TypeOK

\* Firing is such a step if all that is written to the rows is a later state.
LEMMA FiringMoved ==
    ASSUME TypeOK, NEW r \in Requests, NEW u \in Units, NEW p,
           unit' = [unit EXCEPT ![r][u].pc = p],
           UNCHANGED <<req, obj, reactions>>,
           unit[r][u].pc \notin {"none", "done"},
           p \in {"queued", "validate", "building", "validating", "react", "reacting"}
              => unit[r][u].pc \in {"queued", "validate", "building", "validating", "react"},
           \/ UNCHANGED state
           \/ \E s \in RowState \ {"absent", "pending"} : UpdateState(unit[r][u].members, s)
    PROVE  FiringStep(r, u)
<1>1. /\ unit'[r][u].pc = p
      /\ unit'[r][u].members = unit[r][u].members
      /\ \A v \in Units : v # u => unit'[r][v] = unit[r][v]
      /\ \A q \in Requests : q # r => unit'[q] = unit[q]
  BY FiringMoves
<1>2. \A e \in Events : \/ state'[e] = state[e]
                        \/ /\ e \in unit[r][u].members
                           /\ state'[e] \notin {"absent", "pending"}
  BY DEF UpdateState, TypeOK
<1> QED  BY <1>1, <1>2 DEF FiringStep, LeavesOthers

\* Firing a unit, and its failures, are such steps.
LEMMA FiringSteps ==
    ASSUME TypeOK, NEW r \in Requests, NEW u \in Units,
           Fire(r, u) \/ ValidateFails(r, u) \/ FireDies(r, u)
    PROVE  FiringStep(r, u)
<1>1. unit[r][u] \in Unit /\ unit[r][u].members \subseteq Events
  BY DEF TypeOK, Unit
<1> USE DEF history
<1>2. CASE StartFire(r, u) \/ SkipValidate(r, u) \/ SkipReact(r, u) \/ SkipCleanup(r, u)
  BY <1>2, FiringMoved DEF StartFire, SkipValidate, SkipReact, SkipCleanup
<1>3. CASE StartBuild(r, u) \/ StartValidate(r, u) \/ StartReact(r, u)
  BY <1>3, FiringMoved DEF StartBuild, StartValidate, StartReact, RowState
<1>4. CASE EndBuild(r, u)
  <2>1. PICK ok \in BOOLEAN :
           /\ UpdateState(unit[r][u].members, IF ok THEN "collected" ELSE "error")
           /\ obj' = [obj EXCEPT ![r] =
                         [e \in Events |-> IF e \in unit[r][u].members
                                           THEN [obj[r][e] EXCEPT !.env = ok]
                                           ELSE obj[r][e]]]
           /\ unit' = [unit EXCEPT ![r][u].pc = IF ok THEN "validate" ELSE "done"]
    BY <1>4 DEF EndBuild
  <2>2. \A e \in Events : obj'[r][e].pc = obj[r][e].pc
    <3>1. \A e \in Events : obj'[r][e] = IF e \in unit[r][u].members
                                         THEN [obj[r][e] EXCEPT !.env = ok]
                                         ELSE obj[r][e]
      BY <2>1 DEF TypeOK
    <3>2. \A e \in Events : obj[r][e] \in Obj
      BY DEF TypeOK
    <3> QED  BY <3>1, <3>2 DEF Obj
  <2>3. \A q \in Requests : q # r => obj'[q] = obj[q]
    BY <2>1 DEF TypeOK
  <2>4. UNCHANGED <<req, reactions>> /\ unit[r][u].pc = "building"
    BY <1>4 DEF EndBuild
  <2>5. \A e \in Events : \/ state'[e] = state[e]
                          \/ /\ e \in unit[r][u].members
                             /\ state'[e] \notin {"absent", "pending"}
    BY <2>1 DEF UpdateState, TypeOK
  <2>6. /\ unit'[r][u].pc \in {"validate", "done"}
        /\ unit'[r][u].members = unit[r][u].members
        /\ \A v \in Units : v # u => unit'[r][v] = unit[r][v]
        /\ \A q \in Requests : q # r => unit'[q] = unit[q]
    <3> DEFINE p == IF ok THEN "validate" ELSE "done"
    <3>1. unit' = [unit EXCEPT ![r][u].pc = p]
      BY <2>1
    <3>2. p \in {"validate", "done"}
      OBVIOUS
    <3> HIDE DEF p
    <3>3. /\ unit'[r][u].pc = p
          /\ unit'[r][u].members = unit[r][u].members
          /\ \A v \in Units : v # u => unit'[r][v] = unit[r][v]
          /\ \A q \in Requests : q # r => unit'[q] = unit[q]
      BY <3>1, FiringMoves
    <3> QED  BY <3>2, <3>3
  <2> QED  BY <2>2, <2>3, <2>4, <2>5, <2>6 DEF FiringStep, LeavesOthers
<1>5. CASE EndValidate(r, u)
  <2> DEFINE S == unit[r][u].members
             undecided == {e \in S : obj[r][e].valid = "undef"}
             passed(v) == {e \in undecided : v[e] = "valid"}
             kept(v) == passed(v) \cup {e \in S : obj[r][e].valid = "yes"}
  <2>1. PICK v \in [undecided -> {"valid", "invalid", "error"}] :
           /\ state' = [e \in Events |-> IF e \in undecided THEN v[e] ELSE state[e]]
           /\ unit' = [unit EXCEPT ![r][u] =
                 [@ EXCEPT !.members = kept(v),
                           !.valid = IF kept(v) = {} THEN "no" ELSE "yes",
                           !.pc = IF kept(v) = {} THEN "done" ELSE "react"]]
    BY <1>5 DEF EndValidate
  <2>2. kept(v) \subseteq S
    OBVIOUS
  <2>3. \A e \in Events : \/ state'[e] = state[e]
                          \/ e \in S /\ state'[e] \notin {"absent", "pending"}
    BY <2>1 DEF TypeOK
  <2> HIDE DEF kept
  <2>4. /\ unit'[r][u].members = kept(v)
        /\ unit'[r][u].pc = IF kept(v) = {} THEN "done" ELSE "react"
    <3>1. unit'[r][u] =
             [unit[r][u] EXCEPT !.members = kept(v),
                                !.valid = IF kept(v) = {} THEN "no" ELSE "yes",
                                !.pc = IF kept(v) = {} THEN "done" ELSE "react"]
      BY <2>1 DEF TypeOK
    <3> QED  BY <1>1, <3>1 DEF Unit
  <2>5. /\ \A w \in Units : w # u => unit'[r][w] = unit[r][w]
        /\ \A q \in Requests : q # r => unit'[q] = unit[q]
    BY <2>1 DEF TypeOK
  <2> QED  BY <1>5, <2>2, <2>3, <2>4, <2>5 DEF EndValidate, FiringStep, LeavesOthers
<1>6. CASE RunReactor(r, u)
  <2>1. PICK result \in Maybe, threw \in BOOLEAN :
           unit' = [unit EXCEPT ![r][u] = [@ EXCEPT !.reacted = result,
                                           !.pc = IF threw THEN "threw" ELSE "ran"]]
    BY <1>6 DEF RunReactor
  <2>2. /\ unit'[r][u].members = unit[r][u].members
        /\ unit'[r][u].pc \in {"threw", "ran"}
    <3>1. unit'[r][u] = [unit[r][u] EXCEPT !.reacted = result,
                                           !.pc = IF threw THEN "threw" ELSE "ran"]
      BY <2>1 DEF TypeOK
    <3> QED  BY <1>1, <3>1 DEF Unit
  <2>3. /\ \A w \in Units : w # u => unit'[r][w] = unit[r][w]
        /\ \A q \in Requests : q # r => unit'[q] = unit[q]
    BY <2>1 DEF TypeOK
  <2> QED  BY <1>6, <2>2, <2>3 DEF RunReactor, FiringStep, LeavesOthers
<1>7. CASE ReactorThrew(r, u) \/ EndReact(r, u)
  BY <1>7, FiringMoved DEF ReactorThrew, EndReact, RowState
<1>8. CASE StartCleanup(r, u) \/ EndCleanup(r, u)
  BY <1>8, FiringMoved DEF StartCleanup, EndCleanup, RowState
<1>9. CASE ValidateFails(r, u)
  BY <1>9, FiringMoved DEF ValidateFails, RowState
<1>10. CASE FireDies(r, u)
  BY <1>10, FiringMoved DEF FireDies, Firing
<1> QED  BY <1>2, <1>3, <1>4, <1>5, <1>6, <1>7, <1>8, <1>9, <1>10 DEF Fire

\* Such a step serves the request: an event whose reactor is run has left
\* its hands, for a unit is in "reacting" once.
LEMMA FiringServes ==
    ASSUME TypeOK, RequestsInv, NEW r \in Requests, NEW u \in Units, FiringStep(r, u)
    PROVE  Serves(r) /\ GathersThenFires(r)' /\ Marked(r)'
<1> USE DEF FiringStep
<1>1. GathersThenFires(r) /\ Marked(r)
  BY DEF RequestsInv
<1>2. /\ \A v \in Units : unit[r][v].members \subseteq Events
      /\ \A v \in Units : unit'[r][v].members \subseteq unit[r][v].members
  BY SMTT(30) DEF TypeOK, Unit
<1>3. NoNewRow
  BY <1>1 DEF Marked, NoNewRow
<1>4. req[r] \notin {"idle", "gathering"}
  BY <1>1 DEF GathersThenFires
<1>5. \A e \in Events : InObject(r, e)' <=> InObject(r, e)
  BY DEF InObject
<1>6. \A e \in Events : InFiring(r, e)' => InFiring(r, e)
  <2> SUFFICES ASSUME NEW e \in Events, InFiring(r, e)' PROVE InFiring(r, e)
    OBVIOUS
  <2>1. PICK v \in Units :
           /\ e \in unit'[r][v].members
           /\ unit'[r][v].pc \in {"queued", "validate", "building", "validating",
                                  "react", "reacting"}
    BY DEF InFiring
  <2> QED  BY <1>2, <2>1 DEF InFiring
<1>7. ASSUME NEW e \in Events, reactions'[e] # reactions[e]
      PROVE  /\ InFiring(r, e) /\ ~InHands(r, e)'
             /\ reactions'[e] = Again(reactions[e])
  <2>1. /\ unit[r][u].pc = "reacting" /\ e \in unit[r][u].members
        /\ reactions'[e] = Again(reactions[e])
    BY <1>7
  <2>2. InFiring(r, e)
    BY <2>1 DEF InFiring
  <2>3. ~InObject(r, e)'
    BY <1>1, <1>5, <2>2 DEF GathersThenFires
  <2>4. \A v \in Units : e \in unit[r][v].members => v = u
    BY <1>1, <2>1 DEF Marked
  <2>5. ~InFiring(r, e)'
    BY <1>2, <2>1, <2>4 DEF InFiring
  <2> QED  BY <2>1, <2>2, <2>3, <2>5 DEF InHands
<1>8. Serves(r)
  BY <1>3, <1>5, <1>6, <1>7 DEF Serves, InHands
<1>9. GathersThenFires(r)'
  BY <1>1, <1>4, <1>5, <1>6 DEF GathersThenFires, Gathered
<1>10. Marked(r)'
  BY <1>1, <1>2, <1>3 DEF Marked, NoNewRow
<1> QED  BY <1>8, <1>9, <1>10

\* Queuing what was gathered: an event's object gives way to its unit's firing.
LEMMA DispatchServes ==
    ASSUME TypeOK, RequestsInv, NEW r \in Requests, Dispatch(r)
    PROVE  Serves(r) /\ GathersThenFires(r)' /\ Marked(r)'
<1> USE DEF history
<1>1. GathersThenFires(r) /\ Marked(r)
  BY DEF RequestsInv
<1>2. PICK lost \in SUBSET {e \in Events : obj[r][e].pc = "built"} :
         /\ UpdateState(lost, "invalid")
         /\ unit' = [unit EXCEPT ![r] =
               [u \in Units |->
                   NewUnit(r, u, {e \in Members(u) \ lost : obj[r][e].pc = "built"})]]
  BY DEF Dispatch
<1>3. NoNewRow
  BY <1>1, <1>2 DEF Marked, NoNewRow, UpdateState, TypeOK
<1>4. LeavesOthers(r)
  BY <1>2 DEF Dispatch, LeavesOthers, TypeOK
<1>5. /\ req[r] = "gathering" /\ req'[r] = "firing"
      /\ Gathered(r) /\ obj' = obj
      /\ UNCHANGED reactions
  BY <1>1 DEF Dispatch, GathersThenFires, TypeOK
<1>6. ASSUME NEW u \in Units, NEW e \in unit'[r][u].members
      PROVE  e \in Events /\ UnitOf[e] = u /\ obj[r][e].pc = "built"
  <2> DEFINE S == {x \in Members(u) \ lost : obj[r][x].pc = "built"}
  <2>1. unit'[r][u] = NewUnit(r, u, S)
    BY <1>2 DEF TypeOK
  <2>2. unit'[r][u].members \in {{}, S}
    <3> HIDE DEF S
    <3> QED  BY <2>1 DEF NewUnit, NoUnit
  <2> QED  BY <1>6, <2>2 DEF Members
<1>7. \A e \in Events : InHands(r, e)' => InHands(r, e)
  BY <1>5, <1>6 DEF InHands, InObject, InFiring
<1>8. Serves(r)
  BY <1>3, <1>4, <1>5, <1>7 DEF Serves
<1>9. GathersThenFires(r)'
  BY <1>1, <1>5 DEF GathersThenFires, Gathered, InObject
<1>10. Marked(r)'
  <2>1. ASSUME NEW u \in Units, NEW e \in unit'[r][u].members
        PROVE  UnitOf[e] = u /\ state'[e] \notin {"absent", "pending"}
    BY <1>1, <1>3, <1>6, <2>1 DEF Marked, NoNewRow
  <2> QED  BY <1>1, <1>3, <1>5, <2>1 DEF Marked, NoNewRow
<1> QED  BY <1>8, <1>9, <1>10

\* The end of a request, by death or completion, takes nothing in hand.
LEMMA EndServes ==
    ASSUME TypeOK, RequestsInv, NEW r \in Requests, RequestDies(r) \/ EndRequest(r)
    PROVE  Serves(r) /\ GathersThenFires(r)' /\ Marked(r)'
<1> USE DEF history
<1>1. GathersThenFires(r) /\ Marked(r)
  BY DEF RequestsInv
<1>2. NoNewRow /\ UNCHANGED <<state, reactions>>
  BY DEF RequestDies, EndRequest, NoNewRow
<1>3. LeavesOthers(r)
  BY DEF RequestDies, EndRequest, LeavesOthers, TypeOK
<1>4. CASE RequestDies(r)
  <2>1. req[r] \in {"gathering", "firing"} /\ req'[r] = "dead"
    BY <1>1, <1>4 DEF RequestDies, GathersThenFires, TypeOK
  <2>2. ASSUME NEW e \in Events
        PROVE  \/ obj'[r][e] = obj[r][e] /\ e \in Gathering(r)
               \/ obj'[r][e].pc = "none" /\ obj[r][e].pc = "none"
               \/ obj'[r][e].pc = "left" /\ obj[r][e].pc # "none"
    <3>1. obj[r][e] \in Obj
      BY DEF TypeOK
    <3>2. \/ obj'[r][e] = obj[r][e] /\ e \in Gathering(r)
          \/ obj'[r][e] = [obj[r][e] EXCEPT !.pc = IF @ = "none" THEN @ ELSE "left"]
      BY <1>4 DEF RequestDies, TypeOK
    <3> QED  BY <3>1, <3>2 DEF Obj
  <2>3. ASSUME NEW u \in Units
        PROVE  /\ unit'[r][u].members = unit[r][u].members
               /\ unit'[r][u].pc \in {unit[r][u].pc, "done"}
    <3>1. unit[r][u] \in Unit
      BY DEF TypeOK
    <3>2. \/ unit'[r][u] = unit[r][u]
          \/ unit'[r][u] = [unit[r][u] EXCEPT !.pc = IF @ = "none" THEN @ ELSE "done"]
      BY <1>4 DEF RequestDies, TypeOK
    <3> QED  BY <3>1, <3>2 DEF Unit
  <2>4. \A e \in Events : InFiring(r, e)' => InFiring(r, e)
    BY <2>3 DEF InFiring
  <2>5. req[r] = "firing" => Gathering(r) = {}
    BY <1>1 DEF GathersThenFires, Gathered, Gathering
  <2>6. \A e \in Events : InObject(r, e)' => InObject(r, e)
    BY <2>2, <2>5 DEF InObject, Gathering
  <2>7. Serves(r)
    BY <1>2, <1>3, <2>2, <2>4, <2>6 DEF Serves, InHands
  <2>8. GathersThenFires(r)'
    BY <1>1, <2>1, <2>4, <2>6 DEF GathersThenFires
  <2>9. Marked(r)'
    <3>1. \A e \in Events : /\ obj'[r][e].pc # "none" => obj[r][e].pc # "none"
                            /\ obj'[r][e].pc \in {"found", "loaded", "collecting", "built"}
                                  => obj[r][e].pc \in {"found", "loaded", "collecting", "built"}
      BY <1>4, <2>2 DEF RequestDies, TypeOK
    <3> QED  BY <1>1, <1>2, <2>3, <3>1 DEF Marked
  <2> QED  BY <2>7, <2>8, <2>9
<1>5. CASE EndRequest(r)
  <2>1. /\ \A e \in Events : obj'[r][e] = NoObj
        /\ \A u \in Units : unit'[r][u] = NoUnit
        /\ req'[r] = "idle"
    BY <1>5 DEF EndRequest, TypeOK
  <2>2. \A e \in Events : ~InHands(r, e)'
    BY <2>1 DEF InHands, InObject, InFiring, NoObj, NoUnit
  <2>3. Serves(r)
    BY <1>2, <1>3, <2>1, <2>2 DEF Serves, NoObj
  <2>4. GathersThenFires(r)'
    BY <2>1, <2>2 DEF GathersThenFires, InHands, NoObj, NoUnit
  <2>5. Marked(r)'
    BY <2>1 DEF Marked, NoObj, NoUnit
  <2> QED  BY <2>3, <2>4, <2>5
<1> QED  BY <1>4, <1>5

\* Whatever the service does for a request, or fails to do, serves it.
LEMMA ServiceStep ==
    ASSUME TypeOK, RequestsInv, NEW r \in Requests, Work(r) \/ Fail(r)
    PROVE  Serves(r) /\ RequestsInv'
<1>1. Serves(r) /\ GathersThenFires(r)' /\ Marked(r)'
  <2>1. ASSUME NEW e \in Events,
               \/ Load(r, e) \/ Collect(r, e)
               \/ GatherFails(r, e) \/ CollectFails(r, e)
        PROVE  Serves(r) /\ GathersThenFires(r)' /\ Marked(r)'
    BY <2>1, ObjectSteps, ObjectServes
  <2>2. ASSUME NEW u \in Units, Fire(r, u) \/ ValidateFails(r, u) \/ FireDies(r, u)
        PROVE  Serves(r) /\ GathersThenFires(r)' /\ Marked(r)'
    BY <2>2, FiringSteps, FiringServes
  <2>3. ASSUME NEW u \in Units, LoadGroup(r, u) PROVE FALSE
    BY <2>3 DEF LoadGroup, RequestsInv, GathersThenFires
  <2> QED  BY <2>1, <2>2, <2>3, DispatchServes, EndServes DEF Work, Fail
<1>2. \A q \in Requests : GathersThenFires(q)' /\ Marked(q)'
  BY <1>1, LeftAlone DEF Serves, LeavesOthers
<1>3. ASSUME NEW e \in Events, reactions'[e] > 0
      PROVE  state'[e] \notin {"absent", "pending"}
  <2>1. CASE reactions'[e] = reactions[e]
    BY <1>1, <1>3, <2>1 DEF RequestsInv, Serves, NoNewRow
  <2>2. CASE InFiring(r, e)
    <3>1. state[e] \notin {"absent", "pending"}
      BY <2>2 DEF InFiring, RequestsInv, Marked
    <3> QED  BY <1>1, <3>1 DEF Serves, NoNewRow
  <2> QED  BY <1>1, <2>1, <2>2 DEF Serves
<1> QED  BY <1>1, <1>2, <1>3 DEF RequestsInv

-----------------------------------------------------------------------------
(* The runners.                                                            *)

\* What the runners make the service do is something the service does.
LEMMA RunnerSteps == [RunnerNext]_allVars => [Next]_vars
<1> SUFFICES ASSUME [RunnerNext]_allVars PROVE [Next]_vars
  OBVIOUS
<1>1. ASSUME NEW p \in Runners,
             \/ Check(p) \/ TakeLock(p) \/ HooksDone(p) \/ Found(p) \/ Exit(p)
             \/ SearchDue(p) \/ TimeOut(p) \/ Kill(p) \/ BatchDies(p)
      PROVE  UNCHANGED vars
  BY <1>1 DEF Check, TakeLock, HooksDone, Found, Exit, SearchDue, TimeOut, Kill, BatchDies
<1>2. ASSUME NEW p \in Runners, NEW r \in Requests, RunPending(p, r) PROVE Next
  BY <1>2 DEF RunPending, Next, Call
<1>3. ASSUME NEW p \in Runners, CreateDue(p) PROVE [Next]_vars
  BY <1>3 DEF CreateDue, Next
<1>4. ASSUME NEW r \in Requests, ServiceWorks(r) \/ ServiceFails(r) PROVE Next
  BY <1>4 DEF ServiceWorks, ServiceFails, Next
<1>5. CASE UNCHANGED allVars
  BY <1>5 DEF allVars
<1> QED  BY <1>1, <1>2, <1>3, <1>4, <1>5 DEF RunnerNext, RunnerStep, BatchStep

\* The count of failures stays below its bound.
LEMMA FaultType == faults \in 0..MaxFaults /\ Fault => faults' \in 0..MaxFaults
BY RunnersAssumption DEF Fault

\* A runner's batch call goes on.
LEMMA BatchType ==
    ASSUME RunnerTypeOK, NEW p \in Runners, NEW c \in {"none", "asked", "searched"},
           NEW S \in SUBSET Targets,
           batch' = [batch EXCEPT ![p] = [pc |-> c, due |-> S]]
    PROVE  batch' \in [Runners -> [pc : {"none", "asked", "searched"},
                                   due : SUBSET Targets]]
BY DEF RunnerTypeOK

\* Type correctness.
LEMMA RunnerTypeStep == RunnerTypeOK /\ [RunnerNext]_allVars => RunnerTypeOK'
<1> SUFFICES ASSUME RunnerTypeOK, [RunnerNext]_allVars PROVE RunnerTypeOK'
  OBVIOUS
<1>1. TypeOK'
  BY RunnerSteps, StepType DEF RunnerTypeOK
<1> USE <1>1 DEF RunnerTypeOK, RunPc, runnerVars
<1>2. ASSUME NEW p \in Runners, Check(p) PROVE RunnerTypeOK'
  BY <1>2 DEF Check
<1>3. ASSUME NEW p \in Runners, TakeLock(p) PROVE RunnerTypeOK'
  <2>1. run' \in [Runners -> [pc : RunPc, req : Requests \cup {Free}]]
    BY <1>3 DEF TakeLock
  <2>2. batch' \in [Runners -> [pc : {"none", "asked", "searched"}, due : SUBSET Targets]]
    BY <1>3, BatchType DEF TakeLock
  <2> QED  BY <1>3, <2>1, <2>2 DEF TakeLock
<1>4. ASSUME NEW p \in Runners, HooksDone(p) PROVE RunnerTypeOK'
  BY <1>4 DEF HooksDone
<1>5. ASSUME NEW p \in Runners, NEW r \in Requests, RunPending(p, r) PROVE RunnerTypeOK'
  BY <1>5 DEF RunPending
<1>6. ASSUME NEW p \in Runners, Found(p) \/ Exit(p) PROVE RunnerTypeOK'
  BY <1>6 DEF Found, Exit, Unlink, Off
<1>7. ASSUME NEW p \in Runners, SearchDue(p) \/ CreateDue(p) PROVE RunnerTypeOK'
  <2>1. batch' \in [Runners -> [pc : {"none", "asked", "searched"}, due : SUBSET Targets]]
    BY <1>7, BatchType DEF SearchDue, CreateDue, NoBatch
  <2> QED  BY <1>7, <2>1 DEF SearchDue, CreateDue
<1>8. ASSUME NEW p \in Runners, TimeOut(p) PROVE RunnerTypeOK'
  BY <1>8, FaultType DEF TimeOut, Unlink, Off
<1>9. ASSUME NEW p \in Runners, Kill(p) \/ BatchDies(p) PROVE RunnerTypeOK'
  <2>1. CASE Kill(p)
    BY <2>1, FaultType DEF Kill
  <2>2. CASE BatchDies(p)
    <3>1. batch' \in [Runners -> [pc : {"none", "asked", "searched"}, due : SUBSET Targets]]
      BY <2>2, BatchType DEF BatchDies, NoBatch
    <3> QED  BY <2>2, <3>1, FaultType DEF BatchDies
  <2> QED  BY <1>9, <2>1, <2>2
<1>10. ASSUME NEW r \in Requests, ServiceWorks(r) \/ ServiceFails(r) PROVE RunnerTypeOK'
  BY <1>10, FaultType DEF ServiceWorks, ServiceFails
<1>11. CASE UNCHANGED allVars
  BY <1>11 DEF allVars
<1> QED
  BY <1>2, <1>3, <1>4, <1>5, <1>6, <1>7, <1>8, <1>9, <1>10, <1>11
     DEF RunnerNext, RunnerStep, BatchStep

\* A slip of the lock is not forgotten.
LEMMA SlipsGrow == [RunnerNext]_allVars => slips \subseteq slips'
BY DEF RunnerNext, RunnerStep, BatchStep, Check, TakeLock, HooksDone, RunPending, Found,
       Exit, SearchDue, CreateDue, TimeOut, Kill, BatchDies, ServiceWorks, ServiceFails,
       allVars, runnerVars

\* What the runners' lock is for.
Apart == OneSearcher /\ OneEventPerTarget /\ ReactedOnce

\* Why it is so while the lock keeps runners apart.
Kept == slips = {} => LockInv /\ HandsInv

\* A step of the service for a request.
LEMMA ServiceKeeps ==
    ASSUME RunnerIInv, NEW r \in Requests, ServiceWorks(r) \/ ServiceFails(r)
    PROVE  RequestsInv' /\ GivenUp' /\ Kept' /\ Apart'
<1> USE DEF RunnerIInv, RunnerTypeOK
<1>1. /\ Work(r) \/ Fail(r)
      /\ UNCHANGED <<lock, run, batch, slips>>
  BY DEF ServiceWorks, ServiceFails, runnerVars
<1>2. Serves(r) /\ RequestsInv'
  BY <1>1, ServiceStep
<1>3. GivenUp'
  BY <1>1 DEF GivenUp
<1>4. \A q \in Requests : Searching(q)' => Searching(q)
  BY <1>2 DEF Searching, Serves, LeavesOthers
<1>5. \A q \in Requests, e \in Events : InHands(q, e)' => InHands(q, e)
  BY <1>2 DEF Serves, LeavesOthers, InHands, InObject, InFiring
<1>6. \A t \in Targets : HasEvent(t)' => HasEvent(t)
  BY <1>2 DEF HasEvent, Serves, NoNewRow
<1> SUFFICES ASSUME slips = {} PROVE LockInv' /\ HandsInv' /\ Apart'
  BY <1>1, <1>2, <1>3 DEF Kept, Apart, OneSearcher, OneEventPerTarget, ReactedOnce
<1>7. LockInv'
  BY <1>1, <1>4 DEF LockInv
<1>8. ASSUME NEW e \in Events, NEW q \in Requests, InHands(q, e)'
      PROVE  reactions'[e] = 0
  <2>1. InHands(q, e) /\ reactions[e] = 0
    BY <1>5, <1>8 DEF HandsInv
  <2>2. CASE reactions'[e] # reactions[e]
    <3>1. InHands(r, e) /\ ~InHands(r, e)'
      BY <1>2, <2>2 DEF Serves, InHands
    <3>2. q = r
      BY <2>1, <3>1 DEF HandsInv
    <3> QED  BY <1>8, <3>1, <3>2
  <2> QED  BY <2>1, <2>2
<1>9. HandsInv'
  <2>1. \A p \in Runners : batch[p].due \subseteq Targets
    OBVIOUS
  <2> QED  BY <1>1, <1>5, <1>6, <1>8, <2>1 DEF HandsInv
<1>10. OneSearcher'
  BY <1>1, <1>4 DEF OneSearcher
<1>11. OneEventPerTarget'
  BY <1>2 DEF OneEventPerTarget, Serves, NoNewRow
<1>12. ASSUME NEW e \in Events PROVE reactions'[e] < 2
  <2>1. CASE reactions'[e] = reactions[e]
    BY <2>1 DEF ReactedOnce
  <2>2. CASE InHands(r, e) /\ reactions'[e] = Again(reactions[e])
    BY <2>2 DEF HandsInv, Again
  <2> QED  BY <1>2, <2>1, <2>2 DEF Serves, InHands
<1> QED  BY <1>7, <1>9, <1>10, <1>11, <1>12 DEF Apart, ReactedOnce

\* A runner asks for what is pending: nobody else searches, for it holds the
\* lock, so what it finds is in nobody's hands.
LEMMA RunPendingKeeps ==
    ASSUME RunnerIInv, NEW p \in Runners, NEW r \in Requests, RunPending(p, r)
    PROVE  RequestsInv' /\ GivenUp' /\ Kept' /\ Apart'
<1> USE DEF RunnerIInv, RunnerTypeOK, history
<1>1. /\ run[p].pc = "created" /\ run' = [run EXCEPT ![p] = [pc |-> "wait", req |-> r]]
      /\ UNCHANGED <<lock, batch, slips, state, unit, reactions>>
      /\ req[r] = "idle" /\ req' = [req EXCEPT ![r] = "gathering"]
  BY DEF RunPending, FindPending
<1>2. /\ \A q \in Requests : q # r => obj'[q] = obj[q] /\ req'[q] = req[q]
      /\ \A e \in Events : obj'[r][e] = IF state[e] = "pending"
                                        THEN [NoObj EXCEPT !.pc = "queued"] ELSE NoObj
      /\ req'[r] = "gathering"
  BY <1>1 DEF RunPending, FindPending, TypeOK
<1>3. /\ \A e \in Events : state[e] = "pending" => obj'[r][e].pc = "queued"
      /\ \A e \in Events : state[e] # "pending" => obj'[r][e].pc = "none"
  BY <1>2 DEF NoObj
<1>4. /\ GathersThenFires(r) /\ Marked(r)
      /\ \A u \in Units : unit[r][u].pc = "none"
  BY <1>1 DEF RequestsInv, GathersThenFires
<1>5. GathersThenFires(r)'
  BY <1>1, <1>2, <1>4 DEF GathersThenFires, InFiring
<1>6. Marked(r)'
  BY <1>1, <1>3, <1>4 DEF Marked
<1>7. NoNewRow
  BY <1>1 DEF NoNewRow
<1>8. \A q \in Requests : GathersThenFires(q)' /\ Marked(q)'
  BY <1>1, <1>2, <1>5, <1>6, <1>7, LeftAlone
<1>9. RequestsInv'
  BY <1>1, <1>8 DEF RequestsInv
<1>10. GivenUp'
  BY <1>1 DEF GivenUp
<1> SUFFICES ASSUME slips = {} PROVE LockInv' /\ HandsInv' /\ Apart'
  BY <1>1, <1>9, <1>10 DEF Kept, Apart, OneSearcher, OneEventPerTarget, ReactedOnce
<1>11. lock = p /\ \A q \in Requests : ~Searching(q)
  BY <1>1 DEF LockInv
<1>12. \A q \in Requests : q # r => ~Searching(q)'
  BY <1>2, <1>11 DEF Searching
<1>13. LockInv'
  BY <1>1, <1>11, <1>12 DEF LockInv
<1>14. OneSearcher'
  BY <1>12 DEF OneSearcher
<1>15. \A q \in Requests, e \in Events : q # r => (InHands(q, e)' <=> InHands(q, e))
  BY <1>1, <1>2 DEF InHands, InObject, InFiring
<1>16. \A e \in Events : InHands(r, e)' => state[e] = "pending"
  BY <1>1, <1>3, <1>4 DEF InHands, InObject, InFiring
<1>17. ASSUME NEW q \in Requests, NEW e \in Events, InHands(q, e)
       PROVE  state[e] # "pending"
  <2>1. Marked(q) /\ obj[q][e].pc \notin {"queued", "read"}
    BY <1>11 DEF RequestsInv, Searching
  <2>2. CASE InFiring(q, e)
    BY <2>1, <2>2 DEF InFiring, Marked
  <2>3. CASE InObject(q, e)
    <3>1. obj[q][e].pc \in ObjPc
      BY DEF TypeOK, Obj
    <3> QED  BY <2>1, <2>3, <3>1 DEF InObject, Marked, ObjPc
  <2> QED  BY <1>17, <2>2, <2>3 DEF InHands
<1>18. \A e \in Events : state[e] = "pending" => reactions[e] = 0
  BY DEF RequestsInv, TypeOK
<1>19. HandsInv'
  <2>1. \A e \in Events : \A q, s \in Requests :
           InHands(q, e)' /\ InHands(s, e)' => q = s
    BY <1>15, <1>16, <1>17 DEF HandsInv
  <2>2. \A e \in Events : \A q \in Requests : InHands(q, e)' => reactions'[e] = 0
    BY <1>1, <1>15, <1>16, <1>18 DEF HandsInv
  <2>3. \A t \in Targets : HasEvent(t)' <=> HasEvent(t)
    BY <1>1 DEF HasEvent
  <2>4. \A q \in Runners : batch'[q] = batch[q] /\ batch[q].due \subseteq Targets
    BY <1>1
  <2> QED  BY <2>1, <2>2, <2>3, <2>4 DEF HandsInv
<1>20. OneEventPerTarget' /\ ReactedOnce'
  BY <1>1 DEF OneEventPerTarget, ReactedOnce
<1> QED  BY <1>13, <1>14, <1>19, <1>20 DEF Apart

\* Events are created for objects that still have none, and nobody has them
\* in hand.
LEMMA CreateKeeps ==
    ASSUME RunnerIInv, NEW p \in Runners, CreateDue(p)
    PROVE  RequestsInv' /\ GivenUp' /\ Kept' /\ Apart'
<1> USE DEF RunnerIInv, RunnerTypeOK, history
<1>1. PICK S \in SUBSET {e \in Events : state[e] = "absent"} :
         /\ {TargetOf[e] : e \in S} = batch[p].due
         /\ \A e, f \in S : TargetOf[e] = TargetOf[f] => e = f
         /\ IF S = {} THEN UNCHANGED vars ELSE CreateEvents(S)
  BY DEF CreateDue
<1>2. /\ UNCHANGED <<req, obj, unit, reactions>>
      /\ \A e \in Events : state'[e] = IF e \in S THEN "pending" ELSE state[e]
  BY <1>1 DEF vars, CreateEvents, UpdateState
<1>3. /\ batch[p].pc = "searched" /\ batch' = [batch EXCEPT ![p] = NoBatch]
      /\ UNCHANGED <<lock, run, slips>>
  BY DEF CreateDue
<1>4. ASSUME NEW q \in Requests PROVE GathersThenFires(q)' /\ Marked(q)'
  <2>1. GathersThenFires(q) /\ Marked(q)
    BY DEF RequestsInv
  <2>2. \A u \in Units : unit[q][u].members \subseteq Events
    BY DEF TypeOK, Unit
  <2>3. GathersThenFires(q)'
    BY <1>2, <2>1 DEF GathersThenFires, Gathered, InObject, InFiring
  <2>4. Marked(q)'
    BY <1>2, <2>1, <2>2 DEF Marked
  <2> QED  BY <2>3, <2>4
<1>5. RequestsInv'
  BY <1>2, <1>4 DEF RequestsInv
<1>6. GivenUp'
  BY <1>3 DEF GivenUp
<1>7. /\ \A q \in Requests : Searching(q)' <=> Searching(q)
      /\ \A q \in Requests, e \in Events : InHands(q, e)' <=> InHands(q, e)
  BY <1>2 DEF Searching, InHands, InObject, InFiring
<1> SUFFICES ASSUME slips = {} PROVE LockInv' /\ HandsInv' /\ Apart'
  BY <1>3, <1>5, <1>6 DEF Kept, Apart, OneSearcher, OneEventPerTarget, ReactedOnce
<1>8. /\ batch'[p].pc = "none"
      /\ \A q \in Runners : q # p => batch'[q] = batch[q]
  BY <1>3 DEF NoBatch
<1>9. LockInv'
  BY <1>3, <1>7, <1>8 DEF LockInv
<1>10. \A q \in Runners : batch'[q].pc = "none"
  <2>1. \A q \in Runners : batch[q].pc # "none" => q = p
    BY <1>3 DEF LockInv
  <2> QED  BY <1>8, <2>1
<1>11. HandsInv'
  BY <1>2, <1>7, <1>10 DEF HandsInv
<1>12. \A e \in S : \A f \in Events : TargetOf[e] = TargetOf[f] => state[f] = "absent"
  <2>1. \A t \in batch[p].due : ~HasEvent(t)
    BY <1>3 DEF HandsInv
  <2> QED  BY <1>1, <2>1 DEF HasEvent
<1>13. OneEventPerTarget'
  BY <1>1, <1>2, <1>12 DEF OneEventPerTarget
<1>14. OneSearcher' /\ ReactedOnce'
  BY <1>2, <1>7 DEF OneSearcher, ReactedOnce
<1> QED  BY <1>9, <1>11, <1>13, <1>14 DEF Apart

\* While only runners and their batch calls move, requests stay as they are.
LEMMA Quiet ==
    ASSUME RunnerIInv, UNCHANGED vars, slips' = {} => slips = {}
    PROVE  /\ RequestsInv' /\ Apart'
           /\ \A r \in Requests : Searching(r)' <=> Searching(r)
           /\ \A r \in Requests, e \in Events : InHands(r, e)' <=> InHands(r, e)
           /\ \A t \in Targets : HasEvent(t)' <=> HasEvent(t)
<1> USE DEF RunnerIInv, vars
<1>1. \A r \in Requests, e \in Events : /\ InObject(r, e)' <=> InObject(r, e)
                                        /\ InFiring(r, e)' <=> InFiring(r, e)
  BY DEF InObject, InFiring
<1>2. /\ \A r \in Requests : Searching(r)' <=> Searching(r)
      /\ \A t \in Targets : HasEvent(t)' <=> HasEvent(t)
  BY DEF Searching, HasEvent
<1>3. RequestsInv'
  BY <1>1 DEF RequestsInv, GathersThenFires, Gathered, Marked
<1>4. Apart'
  BY <1>2 DEF Apart, OneSearcher, OneEventPerTarget, ReactedOnce
<1> QED  BY <1>1, <1>2, <1>3, <1>4 DEF InHands

\* What is in hand stays in order while no batch call finds anything due.
LEMMA QuietHands ==
    ASSUME RunnerIInv, UNCHANGED vars, slips = {}, slips' = {},
           \A p \in Runners : \/ batch'[p] = batch[p]
                              \/ batch'[p].pc # "searched"
                              \/ batch'[p].due = {t \in Targets : ~HasEvent(t)}
    PROVE  HandsInv'
<1>1. /\ \A r \in Requests, e \in Events : InHands(r, e)' <=> InHands(r, e)
      /\ \A t \in Targets : HasEvent(t)' <=> HasEvent(t)
  BY Quiet
<1>2. HandsInv /\ \A p \in Runners : batch[p].due \subseteq Targets
  BY DEF RunnerIInv, RunnerTypeOK
<1> QED  BY <1>1, <1>2 DEF HandsInv, vars

\* A runner takes the lock when no request searches, and gives it up, or is
\* taken to have lost it, only when its own request has found its rows.
LEMMA RunnerKeeps ==
    ASSUME RunnerIInv, NEW p \in Runners,
           \/ Check(p) \/ TakeLock(p) \/ HooksDone(p) \/ Found(p) \/ Exit(p)
           \/ SearchDue(p) \/ TimeOut(p) \/ Kill(p) \/ BatchDies(p)
    PROVE  RequestsInv' /\ GivenUp' /\ Kept' /\ Apart'
<1> USE DEF RunnerIInv, RunnerTypeOK
<1>1. UNCHANGED vars /\ slips \subseteq slips'
  BY DEF Check, TakeLock, HooksDone, Found, Exit, SearchDue, TimeOut, Kill, BatchDies
<1>2. /\ RequestsInv' /\ Apart'
      /\ \A r \in Requests : Searching(r)' <=> Searching(r)
  BY <1>1, Quiet
<1>3. \A r \in Requests : Searching(r) => req[r] \notin {"idle", "firing"}
  BY DEF Searching, RequestsInv, GathersThenFires, Gathered
<1> SUFFICES GivenUp' /\ (slips' = {} => LockInv' /\ HandsInv')
  BY <1>2 DEF Kept
<1>4. CASE Check(p)
  <2>1. GivenUp'
    BY <1>4, RunnersAssumption DEF Check, GivenUp
  <2>2. slips' = {} => LockInv' /\ HandsInv'
    BY <1>1, <1>2, <1>4, QuietHands, RunnersAssumption DEF Check, LockInv
  <2> QED  BY <2>1, <2>2
<1>5. CASE TakeLock(p)
  <2>1. GivenUp'
    BY <1>5 DEF TakeLock, GivenUp
  <2>2. ASSUME slips' = {} PROVE LockInv' /\ HandsInv'
    <3>1. lock = Free /\ slips = {}
      BY <1>5, <2>2 DEF TakeLock
    <3>2. /\ \A q \in Runners : run[q].pc \notin {"hooks", "created", "wait"}
          /\ \A q \in Runners : batch[q].pc = "none"
          /\ \A r \in Requests : ~Searching(r)
      BY <3>1, RunnersAssumption DEF LockInv
    <3>3. LockInv'
      BY SMTT(30), <1>2, <1>5, <3>2 DEF TakeLock, LockInv
    <3>4. HandsInv'
      BY <1>1, <1>5, <2>2, <3>1, QuietHands DEF TakeLock
    <3> QED  BY <3>3, <3>4
  <2> QED  BY <2>1, <2>2
<1>6. CASE HooksDone(p)
  <2>1. GivenUp'
    BY <1>6 DEF HooksDone, GivenUp
  <2>2. slips' = {} => LockInv' /\ HandsInv'
    BY <1>1, <1>2, <1>6, QuietHands DEF HooksDone, LockInv
  <2> QED  BY <2>1, <2>2
<1>7. CASE Found(p) \/ Exit(p)
  <2>1. GivenUp'
    BY <1>7, RunnersAssumption DEF Found, Exit, Unlink, Off, GivenUp
  <2>2. ASSUME slips' = {} PROVE LockInv' /\ HandsInv'
    <3>1. slips = {} /\ UNCHANGED batch
      BY <1>7, <2>2 DEF Found, Exit
    <3>2. lock = p => \A r \in Requests : ~Searching(r)
      BY <1>3, <1>7, <3>1 DEF Found, Exit, LockInv, GivenUp
    <3>3. LockInv'
      BY <1>2, <1>7, <3>1, <3>2 DEF Found, Exit, Unlink, Off, LockInv
    <3>4. HandsInv'
      BY <1>1, <2>2, <3>1, QuietHands
    <3> QED  BY <3>3, <3>4
  <2> QED  BY <2>1, <2>2
<1>8. CASE SearchDue(p)
  <2>1. GivenUp'
    BY <1>8 DEF SearchDue, GivenUp
  <2>2. ASSUME slips' = {} PROVE LockInv' /\ HandsInv'
    <3>1. batch'[p].due = {t \in Targets : ~HasEvent(t)}
      BY <1>8 DEF SearchDue
    <3>2. HandsInv'
      BY <1>1, <1>8, <2>2, <3>1, QuietHands DEF SearchDue
    <3>3. LockInv'
      BY <1>1, <1>2, <1>8, <2>2 DEF SearchDue, LockInv
    <3> QED  BY <3>2, <3>3
  <2> QED  BY <2>1, <2>2
<1>9. CASE TimeOut(p)
  <2>1. GivenUp'
    BY <1>9, RunnersAssumption DEF TimeOut, Unlink, Off, GivenUp
  <2>2. ASSUME slips' = {} PROVE LockInv' /\ HandsInv'
    <3>1. slips = {} /\ UNCHANGED batch
      BY <1>9, <2>2 DEF TimeOut
    <3>2. HandsInv'
      BY <1>1, <2>2, <3>1, QuietHands
    <3>3. CASE run[p].pc = "hooks"
      <4>1. batch[p].pc = "none"
        BY <1>9, <2>2, <3>3 DEF TimeOut
      <4>2. LockInv'
        BY <1>2, <1>9, <3>1, <3>3, <4>1 DEF TimeOut, LockInv
      <4> QED  BY <3>2, <4>2
    <3>4. CASE run[p].pc \in {"wait", "drain"}
      <4>1. ~Searching(run[p].req)
        BY <1>9, <2>2, <3>4 DEF TimeOut
      <4>2. lock = p => \A r \in Requests : ~Searching(r)
        BY <3>1, <3>4, <4>1 DEF LockInv, GivenUp
      <4>3. LockInv'
        BY <1>2, <1>9, <3>1, <3>4, <4>2 DEF TimeOut, Unlink, Off, LockInv
      <4> QED  BY <3>2, <4>3
    <3> QED  BY <1>9, <3>3, <3>4 DEF TimeOut
  <2> QED  BY <2>1, <2>2
<1>10. CASE Kill(p)
  <2>1. GivenUp'
    BY <1>10 DEF Kill, GivenUp
  <2>2. slips' = {} => LockInv' /\ HandsInv'
    BY <1>1, <1>2, <1>10, QuietHands DEF Kill, LockInv
  <2> QED  BY <2>1, <2>2
<1>11. CASE BatchDies(p)
  <2>1. GivenUp'
    BY <1>11 DEF BatchDies, GivenUp
  <2>2. slips' = {} => LockInv' /\ HandsInv'
    BY <1>1, <1>2, <1>11, QuietHands DEF BatchDies, NoBatch, LockInv
  <2> QED  BY <2>1, <2>2
<1> QED  BY <1>4, <1>5, <1>6, <1>7, <1>8, <1>9, <1>10, <1>11

-----------------------------------------------------------------------------
(* The theorems.                                                           *)

\* The first state satisfies the invariant.
LEMMA RunnerInitInv == RunnerInit => RunnerIInv
<1> SUFFICES ASSUME RunnerInit PROVE RunnerIInv
  OBVIOUS
<1> USE DEF RunnerInit, Init
<1>1. RunnerTypeOK
  BY InitType, RunnersAssumption DEF RunnerTypeOK, Off, NoBatch, RunPc
<1>2. RequestsInv
  BY DEF RequestsInv, GathersThenFires, Marked, InObject, NoObj, NoUnit
<1>3. GivenUp
  BY RunnersAssumption DEF GivenUp
<1>4. LockInv
  BY DEF LockInv, Searching, NoObj, Off, NoBatch
<1>5. HandsInv
  <2>1. \A r \in Requests, e \in Events : ~InHands(r, e)
    BY DEF InHands, InObject, InFiring, NoObj, NoUnit
  <2> QED  BY <2>1 DEF HandsInv, NoBatch
<1>6. OneSearcher /\ OneEventPerTarget /\ ReactedOnce
  BY DEF OneSearcher, OneEventPerTarget, ReactedOnce, Searching, NoObj
<1> QED  BY <1>1, <1>2, <1>3, <1>4, <1>5, <1>6 DEF RunnerIInv

\* Every step keeps it.
LEMMA RunnerStepInv == RunnerIInv /\ [RunnerNext]_allVars => RunnerIInv'
<1> SUFFICES ASSUME RunnerIInv, [RunnerNext]_allVars
             PROVE  RequestsInv' /\ GivenUp' /\ Kept' /\ Apart'
  BY RunnerTypeStep DEF RunnerIInv, Kept, Apart
<1>1. CASE UNCHANGED allVars
  <2>1. UNCHANGED vars /\ UNCHANGED <<lock, run, batch, slips>>
    BY <1>1 DEF allVars, runnerVars
  <2>2. /\ RequestsInv' /\ Apart'
        /\ \A r \in Requests : Searching(r)' <=> Searching(r)
    BY <2>1, Quiet
  <2>3. GivenUp'
    BY <2>1 DEF RunnerIInv, GivenUp
  <2>4. slips' = {} => LockInv'
    BY <2>1, <2>2 DEF RunnerIInv, LockInv
  <2>5. slips' = {} => HandsInv'
    BY <2>1, QuietHands
  <2> QED  BY <2>2, <2>3, <2>4, <2>5 DEF Kept
<1> QED
  BY <1>1, RunnerKeeps, RunPendingKeeps, CreateKeeps, ServiceKeeps
     DEF RunnerNext, RunnerStep, BatchStep

\* The lock passes on only when nothing is searched for, so nothing is in two
\* requests' hands: RunnerIInv is inductive.
THEOREM RunnerInductive == RunnerSpec => []RunnerIInv
<1> QED  BY RunnerInitInv, RunnerStepInv, PTL DEF RunnerSpec

\* While the lock keeps runners apart, no two requests search for the same
\* rows and no object is given two events.
THEOREM RunnersKeptApart == RunnerSpec => []RunnerInv
<1>1. RunnerIInv => RunnerInv
  BY DEF RunnerIInv, RunnerInv
<1> QED  BY <1>1, RunnerInductive, PTL

\* While it does, no event's reactor runs twice, though the lock is given up
\* long before the events are fired.
THEOREM NoSecondReaction == RunnerSpec => []ReactedOnce
<1>1. RunnerIInv => ReactedOnce
  BY DEF RunnerIInv
<1> QED  BY <1>1, RunnerInductive, PTL

\* The service the runners drive is the service of TriggerEvent, so what is
\* proved of that holds here too, also when the lock has failed.
THEOREM RunnersDriveService == RunnerSpec => PromiseKept
<1>1. RunnerInit => Init
  BY DEF RunnerInit
<1>2. RunnerSpec => Spec
  BY <1>1, RunnerSteps, PTL DEF RunnerSpec, Spec
<1> QED  BY <1>2, Implementation, PTL
=============================================================================
