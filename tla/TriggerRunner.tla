---------------------------- MODULE TriggerRunner ----------------------------
(***************************************************************************)
(* action_trigger_runner.pl, started by cron as often as the site likes,   *)
(* on top of the open-ils.trigger service.  A runner takes a lock file,    *)
(* with --process-hooks has the service create the events that are due,    *)
(* then has it run all pending events.  It gives the lock up as soon as    *)
(* the service answers that it has found them, so that the next runner can *)
(* search while these are fired.                                           *)
(*                                                                         *)
(* The lock is a file that is tested and then written, it is given up when *)
(* the service does not answer in time, and it outlives its owner.  The    *)
(* history variable slips records when it failed to keep runners apart.    *)
(***************************************************************************)
EXTENDS TriggerEvent

CONSTANTS
    Runners,        \* action_trigger_runner.pl processes on the machine
    HookRunners,    \* those started with --process-hooks
    Targets,        \* objects (loans, holds) events are created for
    TargetOf,       \* Events -> Targets
    Free,           \* the lock file does not exist
    MaxFaults       \* bound: failures of any kind in one behaviour

ASSUME RunnersAssumption ==
    /\ HookRunners \subseteq Runners
    /\ Free \notin Runners
    /\ Free \notin Requests
    /\ TargetOf \in [Events -> Targets]
    /\ MaxFaults \in Nat

VARIABLES
    lock,       \* the pid in the lock file
    run,        \* Runners -> where the process is and the request it made
    batch,      \* Runners -> the autocreate.batch call the service runs for it
    slips,      \* history: how the lock failed to keep two runners apart
    faults      \* failures so far, see MaxFaults

runnerVars == <<lock, run, batch, slips, faults>>
allVars == <<vars, runnerVars>>

RunPc == {"off", "killed", "checked", "hooks", "created", "wait", "drain"}

RunnerTypeOK ==
    /\ TypeOK
    /\ lock \in Runners \cup {Free}
    /\ run \in [Runners -> [pc : RunPc, req : Requests \cup {Free}]]
    /\ batch \in [Runners -> [pc : {"none", "asked", "searched"},
                              due : SUBSET Targets]]
    /\ slips \subseteq {"race", "timeout"}
    /\ faults \in 0..MaxFaults

NoBatch == [pc |-> "none", due |-> {}]
Off == [pc |-> "off", req |-> Free]

RunnerInit ==
    /\ Init
    /\ lock = Free
    /\ run = [p \in Runners |-> Off]
    /\ batch = [p \in Runners |-> NoBatch]
    /\ slips = {}
    /\ faults = 0

-----------------------------------------------------------------------------
(* The runner.                                                             *)

\* The last test that finds no lock file: at once, or after sleeping.  A
\* runner that finds one exits, or gives up after --max-sleep seconds.
Check(p) ==
    /\ run[p].pc \in {"off", "killed"}
    /\ lock = Free
    /\ run' = [run EXCEPT ![p].pc = "checked"]
    /\ UNCHANGED <<vars, lock, batch, slips, faults>>

\* "there's a tiny race condition here": whatever is there now is
\* overwritten.
TakeLock(p) ==
    /\ run[p].pc = "checked"
    /\ lock' = p
    /\ slips' = IF lock = Free THEN slips ELSE slips \cup {"race"}
    /\ IF p \in HookRunners
       THEN /\ run' = [run EXCEPT ![p].pc = "hooks"]
            /\ batch' = [batch EXCEPT ![p] = [pc |-> "asked", due |-> {}]]
       ELSE /\ run' = [run EXCEPT ![p].pc = "created"]
            /\ UNCHANGED batch
    /\ UNCHANGED <<vars, faults>>

\* process_hooks has read the last answer.
HooksDone(p) ==
    /\ run[p].pc = "hooks"
    /\ batch[p].pc = "none"
    /\ run' = [run EXCEPT ![p].pc = "created"]
    /\ UNCHANGED <<vars, lock, batch, slips, faults>>

\* run_pending asks for event.run_all_pending, which some worker takes up.
RunPending(p, r) ==
    /\ run[p].pc = "created"
    /\ \A q \in Runners : run[q].req # r
    /\ FindPending(r)
    /\ run' = [run EXCEPT ![p] = [pc |-> "wait", req |-> r]]
    /\ UNCHANGED <<lock, batch, slips, faults>>

MutantUnlinkAny(p) == lock' = Free          \* does not look at the pid
MutantUnlinkNever(p) == lock' = lock        \* leaves the file
Unlink(p) == lock' = IF lock = p THEN Free ELSE lock

\* The first answer, 'found', comes when something is about to be fired; the
\* runner removes the lock file if the pid in it is its own.
Found(p) ==
    /\ run[p].pc = "wait"
    /\ req[run[p].req] = "firing"
    /\ \E u \in Units : unit[run[p].req][u].pc # "none"
    /\ Unlink(p)
    /\ run' = [run EXCEPT ![p].pc = "drain"]
    /\ UNCHANGED <<vars, batch, slips, faults>>

\* The request is complete: the runner exits, removing a lock that is still
\* its own.
Exit(p) ==
    /\ run[p].pc \in {"wait", "drain"}
    /\ req[run[p].req] = "idle"
    /\ Unlink(p)
    /\ run' = [run EXCEPT ![p] = Off]
    /\ UNCHANGED <<vars, batch, slips, faults>>

-----------------------------------------------------------------------------
(* The service: creation of events (create_batch_events).                  *)

HasEvent(t) == \E e \in Events : TargetOf[e] = t /\ state[e] # "absent"

\* Objects that have no event of the definition are looked up ...
SearchDue(p) ==
    /\ batch[p].pc = "asked"
    /\ batch' = [batch EXCEPT ![p] =
                    [pc |-> "searched", due |-> {t \in Targets : ~HasEvent(t)}]]
    /\ UNCHANGED <<vars, lock, run, slips, faults>>

\* ... and given one each; the transaction commits.
CreateDue(p) ==
    /\ batch[p].pc = "searched"
    /\ \E S \in SUBSET {e \in Events : state[e] = "absent"} :
          /\ {TargetOf[e] : e \in S} = batch[p].due
          /\ \A e, f \in S : TargetOf[e] = TargetOf[f] => e = f
          /\ IF S = {} THEN UNCHANGED vars ELSE CreateEvents(S)
    /\ batch' = [batch EXCEPT ![p] = NoBatch]
    /\ UNCHANGED <<lock, run, slips, faults>>

-----------------------------------------------------------------------------
(* Failures.                                                               *)

Fault == faults < MaxFaults /\ faults' = faults + 1

\* Rows the request means to take may still be pending.
Searching(r) == \E e \in Events : obj[r][e].pc \in {"queued", "read"}

\* recv waits for 10800 seconds; then the runner goes on as if the service
\* had answered all it has to.
TimeOut(p) ==
    /\ Fault
    /\ \/ /\ run[p].pc = "hooks"
          /\ run' = [run EXCEPT ![p].pc = "created"]
          /\ slips' = IF batch[p].pc = "none" THEN slips ELSE slips \cup {"timeout"}
          /\ UNCHANGED lock
       \/ /\ run[p].pc \in {"wait", "drain"}
          /\ run' = [run EXCEPT ![p] = Off]
          /\ slips' = IF Searching(run[p].req) THEN slips \cup {"timeout"} ELSE slips
          /\ Unlink(p)
    /\ UNCHANGED <<vars, batch>>

\* The runner is killed; its lock file stays.
Kill(p) ==
    /\ Fault
    /\ run[p].pc \notin {"off", "killed"}
    /\ run' = [run EXCEPT ![p] = [pc |-> "killed", req |-> Free]]
    /\ UNCHANGED <<vars, lock, batch, slips>>

\* The worker that creates events is killed: its transaction is undone.
BatchDies(p) ==
    /\ Fault
    /\ batch[p].pc # "none"
    /\ batch' = [batch EXCEPT ![p] = NoBatch]
    /\ UNCHANGED <<vars, lock, run, slips>>

ServiceFails(r) ==
    /\ Fault
    /\ Fail(r)
    /\ UNCHANGED <<lock, run, batch, slips>>

ServiceWorks(r) ==
    /\ Work(r)
    /\ UNCHANGED runnerVars

-----------------------------------------------------------------------------
RunnerStep(p) == \/ TakeLock(p) \/ HooksDone(p)
                 \/ \E r \in Requests : RunPending(p, r)
                 \/ Found(p) \/ Exit(p)
BatchStep(p) == SearchDue(p) \/ CreateDue(p)

RunnerNext ==
    \/ \E p \in Runners : \/ Check(p) \/ RunnerStep(p) \/ BatchStep(p)
                          \/ TimeOut(p) \/ Kill(p) \/ BatchDies(p)
    \/ \E r \in Requests : ServiceWorks(r) \/ ServiceFails(r)

RunnerSpec == RunnerInit /\ [][RunnerNext]_allVars

\* Cron starts runners for ever, a running one goes on, and the service
\* serves what it was asked.
RunnerFairSpec ==
    /\ RunnerSpec
    /\ WF_allVars(\E p \in Runners : Check(p))
    /\ \A p \in Runners : WF_allVars(RunnerStep(p)) /\ WF_allVars(BatchStep(p))
    /\ \A r \in Requests : WF_allVars(ServiceWorks(r))

-----------------------------------------------------------------------------
(* Properties.                                                             *)

\* While the lock keeps runners apart, two requests never both mean to take
\* the same pending rows, although the lock is given up long before a
\* request is over (run_pending unlinks the file at the first answer).
OneSearcher ==
    slips = {} => \A r, q \in Requests : Searching(r) /\ Searching(q) => r = q

\* While it does, no event is reacted to twice, whatever fails: a patron is
\* not sent the same notice again by the next runner.
ReactedOnce == slips = {} => \A e \in Events : reactions[e] < 2

\* While it does, an object gets one event of the definition, though the
\* search and the insert are not protected by any constraint
\* (create_batch_events).
OneEventPerTarget ==
    slips = {} => \A e, f \in Events :
        TargetOf[e] = TargetOf[f] /\ state[e] # "absent" /\ state[f] # "absent" => e = f

\* A runner was killed and its lock file is still there.
StaleLock == lock # Free /\ run[lock].pc = "killed"

\* A pending event is taken up sooner or later, also after failures of the
\* service, of the runner or of the connection between them, unless a stale
\* lock file keeps all later runners from starting.
TakenUp == \A e \in Events : state[e] = "pending" ~> state[e] # "pending" \/ StaleLock

\* If nothing fails, it is also settled.
Settles == \A e \in Events :
    state[e] = "pending" ~> faults > 0 \/ state[e] \in {"invalid", "error", "complete"}

\* While the lock keeps runners apart, nothing is searched for, or created, by two
\* of them.
RunnerInv == RunnerTypeOK /\ OneSearcher /\ OneEventPerTarget
=============================================================================
