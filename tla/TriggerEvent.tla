---------------------------- MODULE TriggerEvent ----------------------------
(***************************************************************************)
(* The open-ils.trigger service: rows of action_trigger.event and the      *)
(* requests that drive them through their life cycle.                      *)
(*                                                                         *)
(* A request is one call of event.run_all_pending (find the pending rows,  *)
(* gather them, group them, fire each group) or of event.fire /            *)
(* event_group.fire (load the rows named by the caller and fire them).     *)
(* Each of its steps is one database transaction: between two of them any  *)
(* other request may change the same rows.  A request works on its own     *)
(* Perl objects, so the flags valid / reacted / cleanedup it read when it  *)
(* loaded an event may be stale when it uses them.                         *)
(*                                                                         *)
(* An event appears in the model when its run_time has passed.             *)
(***************************************************************************)
EXTENDS Naturals, FiniteSets

CONSTANTS
    Events,           \* ids of action_trigger.event rows
    Units,            \* what is fired as one: a lone event or a group
    GroupedUnits,     \* the units whose definition has a group_field
    UnitOf,           \* Events -> Units
    Requests,         \* service requests being served
    ParallelCollect,  \* app_settings/parallel/collect
    ParallelReact     \* app_settings/parallel/react

ASSUME UnitsAssumption ==
    /\ GroupedUnits \subseteq Units
    /\ UnitOf \in [Events -> Units]
ASSUME ParallelAssumption ==
    /\ ParallelCollect \in Nat \ {0}
    /\ ParallelReact \in Nat \ {0}
\* Only the events of a grouped definition share a unit.
ASSUME LoneAssumption ==
    \A e, f \in Events : UnitOf[e] = UnitOf[f] => e = f \/ UnitOf[e] \in GroupedUnits

VARIABLES
    state,        \* Events -> value of the state column
    req,          \* Requests -> where the request is
    obj,          \* Requests -> Events -> the request's Event object
    unit,         \* Requests -> Units -> the request's firing of a unit
    approved,     \* history: events a validator has returned true for
    reactions,    \* history: 0, 1 or more (2) runs of each event's reactor
    completed     \* history: events that were given state 'complete'

history == <<approved, reactions, completed>>
vars == <<state, req, obj, unit, approved, reactions, completed>>

-----------------------------------------------------------------------------
\* The CHECK constraint of the state column, and "absent" for no such row.
RowState == {"absent", "pending", "invalid", "found", "collecting",
             "collected", "validating", "valid", "reacting", "reacted",
             "cleaning", "complete", "error"}

\* A Perl scalar used as a truth value: it may also be undefined.
Maybe == {"undef", "no", "yes"}

ReqState == {"idle", "gathering", "loading", "firing", "dead"}

ObjPc == {"none", "queued", "read", "found", "loaded", "collecting",
          "built", "left"}

Obj == [pc : ObjPc,
        valid : Maybe, reacted : Maybe, cleaned : Maybe,
        env : BOOLEAN]                  \* environment->{complete}

UnitPc == {"none", "queued", "validate", "building", "validating",
           "react", "reacting", "threw", "ran", "clean", "cleaning", "done"}

Unit == [pc : UnitPc,
         members : SUBSET Events,
         valid : Maybe, reacted : Maybe, cleaned : Maybe]

NoObj == [pc |-> "none", valid |-> "undef", reacted |-> "undef",
          cleaned |-> "undef", env |-> FALSE]

NoUnit == [pc |-> "none", members |-> {}, valid |-> "undef",
           reacted |-> "undef", cleaned |-> "undef"]

Members(u) == {e \in Events : UnitOf[e] = u}

TypeOK ==
    /\ state \in [Events -> RowState]
    /\ req \in [Requests -> ReqState]
    /\ obj \in [Requests -> [Events -> Obj]]
    /\ unit \in [Requests -> [Units -> Unit]]
    /\ approved \subseteq Events
    /\ reactions \in [Events -> 0..2]
    /\ completed \subseteq Events

-----------------------------------------------------------------------------
\* Event.update_state and EventGroup.update_state: one transaction that
\* gives every row of S the state s, whatever state it had.
UpdateState(S, s) ==
    state' = [e \in Events |-> IF e \in S THEN s ELSE state[e]]

\* One more run of a reactor; more than one counts as two.
Again(n) == IF n = 0 THEN 1 ELSE 2

\* Event.init: the flags an event loaded in state s starts with.
MutantValidFlag(s) ==       \* takes an event that is being validated for valid
    IF s \in {"validating", "valid", "reacting", "reacted", "cleaning", "complete"}
    THEN "yes" ELSE IF s \in {"invalid", "error"} THEN "no" ELSE "undef"

ValidFlag(s) ==
    CASE s \in {"valid", "reacting", "reacted", "cleaning", "complete"} -> "yes"
      [] s \in {"invalid", "error"} -> "no"
      [] OTHER -> "undef"

MutantReactedFlag(s) ==     \* takes a reactor that was started for one that ran
    IF s \in {"reacting", "reacted", "cleaning", "complete"} THEN "yes"
    ELSE IF s = "error" THEN "no" ELSE "undef"

ReactedFlag(s) ==
    CASE s \in {"reacted", "cleaning", "complete"} -> "yes"
      [] s = "error" -> "no"
      [] OTHER -> "undef"

CleanedFlag(s) ==
    CASE s = "complete" -> "yes" [] s = "error" -> "no" [] OTHER -> "undef"

\* The objects a request is still working on, and those it has settled.
Gathering(r) == {e \in Events : obj[r][e].pc \in
                    {"read", "found", "loaded", "collecting"}}
Gathered(r) == \A e \in Events : obj[r][e].pc \in {"none", "built", "left"}

Firing(r) == {u \in Units : unit[r][u].pc \notin {"none", "queued", "done"}}
Fired(r) == \A u \in Units : unit[r][u].pc \in {"none", "done"}

-----------------------------------------------------------------------------
Init ==
    /\ state = [e \in Events |-> "absent"]
    /\ req = [r \in Requests |-> "idle"]
    /\ obj = [r \in Requests |-> [e \in Events |-> NoObj]]
    /\ unit = [r \in Requests |-> [u \in Units |-> NoUnit]]
    /\ approved = {}
    /\ reactions = [e \in Events |-> 0]
    /\ completed = {}

\* create_batch_events, create_active_events_for_object and
\* create_event_for_object_and_def: one transaction inserts the rows.
CreateEvents(S) ==
    /\ S # {}
    /\ \A e \in S : state[e] = "absent"
    /\ UpdateState(S, "pending")
    /\ UNCHANGED <<req, obj, unit, history>>

\* pending_events, called by grouped_events: the ids to be gathered.
MutantFindPending(r) ==     \* takes up what was found but not finished, too
    /\ req[r] = "idle"
    /\ req' = [req EXCEPT ![r] = "gathering"]
    /\ obj' = [obj EXCEPT ![r] =
                  [e \in Events |-> IF state[e] \in {"pending", "found", "reacting"}
                                    THEN [NoObj EXCEPT !.pc = "queued"]
                                    ELSE NoObj]]
    /\ UNCHANGED <<state, unit, history>>

FindPending(r) ==
    /\ req[r] = "idle"
    /\ req' = [req EXCEPT ![r] = "gathering"]
    /\ obj' = [obj EXCEPT ![r] =
                  [e \in Events |-> IF state[e] = "pending"
                                    THEN [NoObj EXCEPT !.pc = "queued"]
                                    ELSE NoObj]]
    /\ UNCHANGED <<state, unit, history>>

\* fire_single_event / fire_event_group called with row ids.
CallFire(r, u, S) ==
    /\ req[r] = "idle"
    /\ S # {} /\ S \subseteq Members(u)
    /\ \A e \in S : state[e] # "absent"
    /\ req' = [req EXCEPT ![r] = "loading"]
    /\ obj' = [obj EXCEPT ![r] =
                  [e \in Events |-> IF e \in S
                                    THEN [NoObj EXCEPT !.pc = "queued"]
                                    ELSE NoObj]]
    /\ UNCHANGED <<state, unit, history>>

-----------------------------------------------------------------------------
(* Loading an event: Event.new / Event.init.                               *)

\* The first transaction of init retrieves the row and derives the flags.
ReadEvent(r, e) ==
    /\ obj[r][e].pc = "queued"
    /\ req[r] \in {"gathering", "loading"}
    /\ req[r] = "gathering" => Cardinality(Gathering(r)) < ParallelCollect
    /\ obj' = [obj EXCEPT ![r][e] =
                  [pc |-> "read", valid |-> ValidFlag(state[e]),
                   reacted |-> ReactedFlag(state[e]),
                   cleaned |-> CleanedFlag(state[e]), env |-> FALSE]]
    /\ UNCHANGED <<state, req, unit, history>>

\* A second one writes 'found' over whatever the row holds by now.
MarkFound(r, e) ==
    /\ obj[r][e].pc = "read"
    /\ req[r] = "loading" => UnitOf[e] \notin GroupedUnits
    /\ UpdateState({e}, "found")
    /\ obj' = [obj EXCEPT ![r][e].pc = "found"]
    /\ UNCHANGED <<req, unit, history>>

\* Then the target is retrieved; without it the event is invalid.
\* gather_events drops such an event, a direct fire keeps it.
RetrieveTarget(r, e) ==
    /\ obj[r][e].pc = "found"
    /\ \/ /\ obj' = [obj EXCEPT ![r][e].pc =
                        IF req[r] = "loading" THEN "built" ELSE "loaded"]
          /\ UNCHANGED state
       \/ /\ UpdateState({e}, "invalid")
          /\ obj' = [obj EXCEPT ![r][e] =
                        [@ EXCEPT !.valid = "no",
                                  !.pc = IF req[r] = "loading" THEN "built"
                                                               ELSE "left"]]
    /\ UNCHANGED <<req, unit, history>>

\* EventGroup.new_impl with ids loads every member on one editor: what the
\* members were read as was fixed before the single commit shows the writes.
LoadGroup(r, u) ==
    LET S == {e \in Members(u) : obj[r][e].pc = "read"} IN
    /\ req[r] = "loading"
    /\ u \in GroupedUnits
    /\ S # {}
    /\ \A e \in Events : obj[r][e].pc # "queued"
    /\ \E missing \in SUBSET S :
          /\ state' = [e \in Events |-> IF e \in missing THEN "invalid"
                                        ELSE IF e \in S THEN "found"
                                        ELSE state[e]]
          /\ obj' = [obj EXCEPT ![r] =
                        [e \in Events |->
                            IF e \in missing
                            THEN [obj[r][e] EXCEPT !.pc = "built", !.valid = "no"]
                            ELSE IF e \in S THEN [obj[r][e] EXCEPT !.pc = "built"]
                            ELSE obj[r][e]]]
    /\ UNCHANGED <<req, unit, history>>

\* A failed retrieve or update makes Event.new die: gather_events logs it
\* and goes on to the next id.  A collector that is killed leaves the same
\* behind: the row keeps the state it has.
MutantGatherFails(r, e) ==  \* puts the event back for the next run
    /\ req[r] # "loading"
    /\ e \in Gathering(r)
    /\ UpdateState({e}, "pending")
    /\ obj' = [obj EXCEPT ![r][e].pc = "left"]
    /\ UNCHANGED <<req, unit, history>>

GatherFails(r, e) ==
    /\ req[r] # "loading"
    /\ e \in Gathering(r)
    /\ obj' = [obj EXCEPT ![r][e].pc = "left"]
    /\ UNCHANGED <<state, req, unit, history>>

\* An update that fails makes build_environment die: gather_events logs that
\* too, and hands the event on as it is.
CollectFails(r, e) ==
    /\ obj[r][e].pc \in {"loaded", "collecting"}
    /\ obj' = [obj EXCEPT ![r][e].pc = "built"]
    /\ UNCHANGED <<state, req, unit, history>>

\* Event.build_environment as gather_events calls it.
StartCollect(r, e) ==
    /\ obj[r][e].pc = "loaded"
    /\ UpdateState({e}, "collecting")
    /\ obj' = [obj EXCEPT ![r][e].pc = "collecting"]
    /\ UNCHANGED <<req, unit, history>>

EndCollect(r, e) ==
    /\ obj[r][e].pc = "collecting"
    /\ \E ok \in BOOLEAN :
          /\ UpdateState({e}, IF ok THEN "collected" ELSE "error")
          /\ obj' = [obj EXCEPT ![r][e] = [@ EXCEPT !.pc = "built", !.env = ok]]
    /\ UNCHANGED <<req, unit, history>>

-----------------------------------------------------------------------------
(* grouped_events and run_all_events / fire_*: queue what is to be fired.  *)

\* A lone event is fired with the flags of its own object; an EventGroup
\* is a new object that has none of its own.
NewUnit(r, u, S) ==
    IF S = {} THEN NoUnit
    ELSE IF u \in GroupedUnits THEN [NoUnit EXCEPT !.pc = "queued", !.members = S]
    ELSE LET o == obj[r][CHOOSE e \in S : TRUE]
         IN [pc |-> "queued", members |-> S, valid |-> o.valid,
             reacted |-> o.reacted, cleaned |-> o.cleaned]

\* Events whose grouping value cannot be found are invalidated together and
\* left out; every other gathered event is queued with its unit.
Dispatch(r) ==
    /\ req[r] \in {"gathering", "loading"}
    /\ Gathered(r)
    /\ \E lost \in SUBSET {e \in Events : /\ obj[r][e].pc = "built"
                                          /\ UnitOf[e] \in GroupedUnits} :
          /\ req[r] = "loading" => lost = {}
          /\ UpdateState(lost, "invalid")
          /\ unit' = [unit EXCEPT ![r] =
                [u \in Units |->
                    NewUnit(r, u, {e \in Members(u) \ lost : obj[r][e].pc = "built"})]]
    /\ req' = [req EXCEPT ![r] = "firing"]
    /\ UNCHANGED <<obj, history>>

\* A queued unit is handed to a worker, at most ParallelReact at a time.
StartFire(r, u) ==
    /\ unit[r][u].pc = "queued"
    /\ req[r] = "firing"
    /\ Cardinality(Firing(r)) < ParallelReact
    /\ unit' = [unit EXCEPT ![r][u].pc = "validate"]
    /\ UNCHANGED <<state, req, obj, history>>

-----------------------------------------------------------------------------
(* Firing: validate, react and cleanup of Event and of EventGroup.         *)

\* validate returns at once when valid is already defined.
SkipValidate(r, u) ==
    /\ unit[r][u].pc = "validate"
    /\ unit[r][u].valid # "undef"
    /\ unit' = [unit EXCEPT ![r][u].pc =
                   IF unit[r][u].valid = "yes" THEN "react" ELSE "done"]
    /\ UNCHANGED <<state, req, obj, history>>

\* Event.validate first completes the environment if that is still to do.
NeedsBuild(r, u) == /\ u \notin GroupedUnits
                    /\ \E e \in unit[r][u].members : ~obj[r][e].env

StartBuild(r, u) ==
    /\ unit[r][u].pc = "validate"
    /\ unit[r][u].valid = "undef"
    /\ NeedsBuild(r, u)
    /\ UpdateState(unit[r][u].members, "collecting")
    /\ unit' = [unit EXCEPT ![r][u].pc = "building"]
    /\ UNCHANGED <<req, obj, history>>

EndBuild(r, u) ==
    /\ unit[r][u].pc = "building"
    /\ \E ok \in BOOLEAN :
          /\ UpdateState(unit[r][u].members, IF ok THEN "collected" ELSE "error")
          /\ obj' = [obj EXCEPT ![r] =
                        [e \in Events |-> IF e \in unit[r][u].members
                                          THEN [obj[r][e] EXCEPT !.env = ok]
                                          ELSE obj[r][e]]]
          /\ unit' = [unit EXCEPT ![r][u].pc = IF ok THEN "validate" ELSE "done"]
    /\ UNCHANGED <<req, history>>

StartValidate(r, u) ==
    /\ unit[r][u].pc = "validate"
    /\ unit[r][u].valid = "undef"
    /\ ~NeedsBuild(r, u)
    /\ UpdateState(unit[r][u].members, "validating")
    /\ unit' = [unit EXCEPT ![r][u].pc = "validating"]
    /\ UNCHANGED <<req, obj, history>>

\* Each undecided member gets a verdict of its own: 'error' when the
\* validator dies or the environment of a group's member stays incomplete.
\* A group goes on with the members that are valid, if there are any.
MutantEndValidate(r, u) ==  \* keeps the members that did not pass
    LET S == unit[r][u].members
        undecided == {e \in S : obj[r][e].valid = "undef"}
    IN
    /\ unit[r][u].pc = "validating"
    /\ \E verdict \in [undecided -> {"valid", "invalid", "error"}] :
          LET passed == {e \in undecided : verdict[e] = "valid"} IN
          /\ state' = [e \in Events |-> IF e \in undecided THEN verdict[e] ELSE state[e]]
          /\ approved' = approved \cup passed
          /\ unit' = [unit EXCEPT ![r][u] =
                         [@ EXCEPT !.valid = IF passed = {} THEN "no" ELSE "yes",
                                   !.pc = IF passed = {} THEN "done" ELSE "react"]]
    /\ UNCHANGED <<req, obj, reactions, completed>>

EndValidate(r, u) ==
    LET S == unit[r][u].members
        undecided == {e \in S : obj[r][e].valid = "undef"}
    IN
    /\ unit[r][u].pc = "validating"
    /\ \E verdict \in [undecided -> {"valid", "invalid", "error"}] :
          LET passed == {e \in undecided : verdict[e] = "valid"}
              kept == passed \cup {e \in S : obj[r][e].valid = "yes"}
          IN
          /\ state' = [e \in Events |-> IF e \in undecided THEN verdict[e] ELSE state[e]]
          /\ approved' = approved \cup passed
          /\ unit' = [unit EXCEPT ![r][u] =
                         [@ EXCEPT !.members = kept,
                                   !.valid = IF kept = {} THEN "no" ELSE "yes",
                                   !.pc = IF kept = {} THEN "done" ELSE "react"]]
    /\ UNCHANGED <<req, obj, reactions, completed>>

\* An update that fails while a group validates its members undoes their
\* verdicts: the whole group is put into error and fires no further.
ValidateFails(r, u) ==
    /\ unit[r][u].pc = "validating"
    /\ u \in GroupedUnits
    /\ UpdateState(unit[r][u].members, "error")
    /\ unit' = [unit EXCEPT ![r][u].pc = "done"]
    /\ UNCHANGED <<req, obj, history>>

\* react returns at once when the event was loaded as already reacted.
SkipReact(r, u) ==
    /\ unit[r][u].pc = "react"
    /\ unit[r][u].reacted # "undef"
    /\ unit' = [unit EXCEPT ![r][u].pc = "clean"]
    /\ UNCHANGED <<state, req, obj, history>>

StartReact(r, u) ==
    /\ unit[r][u].pc = "react"
    /\ unit[r][u].reacted = "undef"
    /\ UpdateState(unit[r][u].members, "reacting")
    /\ unit' = [unit EXCEPT ![r][u].pc = "reacting"]
    /\ UNCHANGED <<req, obj, history>>

\* The reactor runs: mail is sent, a file is written.  It may die before or
\* after (in ProcessMessage or create_actor_usr_message) it has a result.
RunReactor(r, u) ==
    /\ unit[r][u].pc = "reacting"
    /\ reactions' = [e \in Events |-> IF e \in unit[r][u].members
                                      THEN Again(reactions[e]) ELSE reactions[e]]
    /\ \E result \in Maybe, threw \in BOOLEAN :
          unit' = [unit EXCEPT ![r][u] = [@ EXCEPT !.reacted = result,
                                          !.pc = IF threw THEN "threw" ELSE "ran"]]
    /\ UNCHANGED <<state, req, obj, approved, completed>>

\* The otherwise block records the failure ...
ReactorThrew(r, u) ==
    /\ unit[r][u].pc = "threw"
    /\ UpdateState(unit[r][u].members, "error")
    /\ unit' = [unit EXCEPT ![r][u].pc = "ran"]
    /\ UNCHANGED <<req, obj, history>>

\* ... and a result that is defined, true or false, overwrites it.
EndReact(r, u) ==
    /\ unit[r][u].pc = "ran"
    /\ LET done == unit[r][u].reacted # "undef" IN
          /\ UpdateState(unit[r][u].members, IF done THEN "reacted" ELSE "error")
          /\ unit' = [unit EXCEPT ![r][u].pc = IF done THEN "clean" ELSE "done"]
    /\ UNCHANGED <<req, obj, history>>

\* cleanup returns at once when cleanedup is already defined.
SkipCleanup(r, u) ==
    /\ unit[r][u].pc = "clean"
    /\ unit[r][u].cleaned # "undef"
    /\ unit' = [unit EXCEPT ![r][u].pc = "done"]
    /\ UNCHANGED <<state, req, obj, history>>

MutantStartCleanup(r, u) == \* has no cleanup for a reactor that said no
    /\ unit[r][u].pc = "clean"
    /\ unit[r][u].cleaned = "undef"
    /\ unit[r][u].reacted = "yes"
    /\ UpdateState(unit[r][u].members, "cleaning")
    /\ unit' = [unit EXCEPT ![r][u].pc = "cleaning"]
    /\ UNCHANGED <<req, obj, history>>

StartCleanup(r, u) ==
    /\ unit[r][u].pc = "clean"
    /\ unit[r][u].cleaned = "undef"
    /\ UpdateState(unit[r][u].members, "cleaning")
    /\ unit' = [unit EXCEPT ![r][u].pc = "cleaning"]
    /\ UNCHANGED <<req, obj, history>>

EndCleanup(r, u) ==
    /\ unit[r][u].pc = "cleaning"
    /\ \E ok \in BOOLEAN :
          /\ UpdateState(unit[r][u].members, IF ok THEN "complete" ELSE "error")
          /\ completed' = IF ok THEN completed \cup unit[r][u].members ELSE completed
    /\ unit' = [unit EXCEPT ![r][u].pc = "done"]
    /\ UNCHANGED <<req, obj, approved, reactions>>

-----------------------------------------------------------------------------
(* Failure and completion of requests.                                     *)

\* An update that fails makes the firing die; run_all_events logs it and
\* goes on.  The rows keep the state they have.  A worker that is killed
\* while it fires a unit leaves the same behind.
FireDies(r, u) ==
    /\ u \in Firing(r)
    /\ unit' = [unit EXCEPT ![r][u].pc = "done"]
    /\ UNCHANGED <<state, req, obj, history>>

\* Two events or more are gathered by other workers, a group or two lone
\* events are fired by them, if the settings allow more than one.
Delegates(r) ==
    CASE req[r] = "gathering" -> /\ ParallelCollect > 1
                                 /\ \E e, f \in Events : /\ e # f
                                                         /\ obj[r][e].pc # "none"
                                                         /\ obj[r][f].pc # "none"
      [] req[r] = "firing" ->
            /\ ParallelReact > 1
            /\ \E u, v \in Units : /\ unit[r][u].pc # "none"
                                    /\ unit[r][v].pc # "none"
                                    /\ (u # v \/ u \in GroupedUnits)
      [] OTHER -> FALSE

\* The worker that serves the request is killed.  What it had handed to
\* other workers (parallel collect or react) runs on by itself.
RequestDies(r) ==
    /\ req[r] \in {"gathering", "loading", "firing"}
    /\ req' = [req EXCEPT ![r] = "dead"]
    /\ obj' = [obj EXCEPT ![r] =
                  [e \in Events |->
                      IF e \in Gathering(r) /\ Delegates(r)
                      THEN obj[r][e]
                      ELSE [obj[r][e] EXCEPT !.pc = IF @ = "none" THEN @ ELSE "left"]]]
    /\ unit' = [unit EXCEPT ![r] =
                   [u \in Units |->
                       IF u \in Firing(r) /\ Delegates(r)
                       THEN unit[r][u]
                       ELSE [unit[r][u] EXCEPT !.pc = IF @ = "none" THEN @ ELSE "done"]]]
    /\ UNCHANGED <<state, history>>

\* Everything the request started is over: its objects go away.
Finished(r) == /\ req[r] \in {"firing", "dead"}
               /\ Gathered(r)
               /\ Fired(r)

EndRequest(r) ==
    /\ Finished(r)
    /\ req' = [req EXCEPT ![r] = "idle"]
    /\ obj' = [obj EXCEPT ![r] = [e \in Events |-> NoObj]]
    /\ unit' = [unit EXCEPT ![r] = [u \in Units |-> NoUnit]]
    /\ UNCHANGED <<state, history>>

-----------------------------------------------------------------------------
Load(r, e) == ReadEvent(r, e) \/ MarkFound(r, e) \/ RetrieveTarget(r, e)
Collect(r, e) == StartCollect(r, e) \/ EndCollect(r, e)

Fire(r, u) == \/ StartFire(r, u)
              \/ SkipValidate(r, u)
              \/ StartBuild(r, u)
              \/ EndBuild(r, u)
              \/ StartValidate(r, u)
              \/ EndValidate(r, u)
              \/ SkipReact(r, u)
              \/ StartReact(r, u)
              \/ RunReactor(r, u)
              \/ ReactorThrew(r, u)
              \/ EndReact(r, u)
              \/ SkipCleanup(r, u)
              \/ StartCleanup(r, u)
              \/ EndCleanup(r, u)

\* What the service does once it has been asked to do something ...
Work(r) == \/ \E e \in Events : Load(r, e) \/ Collect(r, e)
           \/ \E u \in Units : LoadGroup(r, u) \/ Fire(r, u)
           \/ Dispatch(r)
           \/ EndRequest(r)

\* ... and what the database and the process table may do to it.
Fail(r) == \/ \E e \in Events : GatherFails(r, e) \/ CollectFails(r, e)
           \/ \E u \in Units : ValidateFails(r, u) \/ FireDies(r, u)
           \/ RequestDies(r)

Call(r) == \/ FindPending(r)
           \/ \E u \in Units, S \in SUBSET Events : CallFire(r, u, S)

Next == \/ \E S \in SUBSET Events : CreateEvents(S)
        \/ \E r \in Requests : Call(r) \/ Work(r) \/ Fail(r)

Spec == Init /\ [][Next]_vars

-----------------------------------------------------------------------------
(* Properties.                                                             *)

\* The reactor of an event runs only if some validator has said yes to that
\* very event: neither the flags a second request derives from the state
\* column, nor the filtering of a group's members, ever let through an
\* event that was found invalid (Event.react, EventGroup.validate).
ReactedOnlyIfApproved == \A e \in Events : reactions[e] > 0 => e \in approved

\* A row that says it was reacted to, is being cleaned up or is complete
\* belongs to an event whose reactor has run, also when the row was picked
\* up in mid-flight by another request (Event.init's flags).
ProcessedMeansReacted ==
    \A e \in Events : state[e] \in {"reacted", "cleaning", "complete"} => reactions[e] > 0

-----------------------------------------------------------------------------
(* Why they hold.  The state column says what was done to the event at the *)
(* time it was written; a flag says what a column said; a firing trusts    *)
(* its flags; and approved and reactions only grow.  So however stale, a   *)
(* flag never promises more than has happened.                             *)

\* The column promises no more than was done.
ColumnInv ==
    \A e \in Events :
        /\ state[e] \in {"valid", "reacting", "reacted", "cleaning", "complete"}
              => e \in approved
        /\ state[e] \in {"reacted", "cleaning", "complete"} => reactions[e] > 0
        /\ reactions[e] > 0 => e \in approved

\* Nor do the flags of a request's Event object.
FlagsOK(o, e) ==
    /\ o.valid = "yes" => e \in approved
    /\ o.valid = "yes" => o.reacted # "no"
    /\ o.valid = "undef" => o.reacted = "undef"
    /\ o.reacted = "yes" => reactions[e] > 0

ObjInv == \A r \in Requests, e \in Events : FlagsOK(obj[r][e], e)

\* A firing that has come past a check has members that pass it.
FiringOK(x) ==
    /\ x.valid = "yes" => x.members \subseteq approved
    /\ x.valid = "undef" => x.reacted = "undef"
    /\ x.pc \in {"building", "validating"} => x.valid = "undef"
    /\ x.pc \in {"react", "reacting", "threw", "ran", "clean", "cleaning"}
          => x.valid = "yes"
    /\ (\/ x.pc \in {"threw", "ran", "clean", "cleaning"}
        \/ x.valid = "yes" /\ x.reacted # "undef")
          => \A e \in x.members : reactions[e] > 0

UnitInv == \A r \in Requests, u \in Units : FiringOK(unit[r][u])

IInv == TypeOK /\ ColumnInv /\ ObjInv /\ UnitInv

-----------------------------------------------------------------------------
\* No event is processed that nobody created, and a row never becomes
\* pending again: what was found once is not found by a later search.
NeverPendingAgain ==
    [][\A e \in Events : state[e] \notin {"absent", "pending"}
                            => state'[e] \notin {"absent", "pending"}]_vars

\* The promise of EventPromise, kept under every interleaving of requests.
Promise == INSTANCE EventPromise
PromiseKept == Promise!Spec
=============================================================================
