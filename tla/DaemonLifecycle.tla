-------------------------- MODULE DaemonLifecycle --------------------------
(***************************************************************************)
(* The life of the character daemon's task: CharacterDaemon.start, stop    *)
(* and _loop (daemon.py), and the handlers that pause it to replace the    *)
(* database, restore_system and reset_system (main.py).                    *)
(*                                                                         *)
(* All of it runs on one event loop, so code between two awaits is one     *)
(* step.  The loop suspends in asyncio.sleep, and inside run_once at the   *)
(* model, at socket.send_json for every open tab, and in asyncio.to_thread *)
(* while a thread sends Web Push.  The model's answer has a timeout; a tab *)
(* and a push service have none, and may leave the loop waiting for ever.  *)
(* A maintenance handler suspends only in stop, at "await self._task".     *)
(***************************************************************************)
EXTENDS Naturals, FiniteSets

CONSTANTS
    Task,           \* names for asyncio tasks; a finished one nobody holds is reused
    Maintainer,     \* concurrent restore and reset requests; each may repeat
    NoTask,         \* None
    LoopMayRaise    \* whether run_once meets what it does not catch

ASSUME LifecycleAssumption ==
    /\ NoTask \notin Task
    /\ Task # {} /\ IsFiniteSet(Task)
    /\ LoopMayRaise \in BOOLEAN

VARIABLES
    handle,     \* self._task
    task,       \* state of every task of the process
    cancel,     \* tasks whose cancellation is requested and not delivered
    overBudget, \* the cloud budget is used up
    dbFails,    \* the database will refuse a statement of the run in flight
    pc,         \* each maintenance request
    waits,      \* the task it awaits in stop
    overlapped  \* history: a request entered stop while another one awaited there

vars == <<handle, task, cancel, overBudget, dbFails, pc, waits, overlapped>>

\* Where run_once awaits something.
WithinRun == {"generate", "send", "push"}

Suspended == WithinRun \cup {"sleep"}

Live(t) == task[t] \in Suspended

Loops == {t \in Task : Live(t)}

\* A name for a task that m starts: no loop or other request has it.
Fresh(m, t) == ~Live(t) /\ \A n \in Maintainer \ {m} : waits[n] # t

-----------------------------------------------------------------------------
(* start and stop *)

\* start when self._task is None: a new loop, which sleeps first.
Created(t) == [task EXCEPT ![t] = "sleep"]

Init ==
    /\ \E t \in Task :
          /\ handle = t
          /\ task = [s \in Task |-> IF s = t THEN "sleep" ELSE "none"]
    /\ cancel = {}
    /\ overBudget = FALSE /\ dbFails = FALSE
    /\ pc = [m \in Maintainer |-> "idle"]
    /\ waits = [m \in Maintainer |-> NoTask]
    /\ overlapped = FALSE

\* Mutant: a request that stopped the daemon does not start it again.
ReplaceAndStart_NoStart(m) ==
    /\ \E outcome \in {"replaced", "rejected"} : pc' = [pc EXCEPT ![m] = outcome]
    /\ waits' = [waits EXCEPT ![m] = NoTask]
    /\ UNCHANGED <<handle, task, cancel, overBudget, dbFails>>

\* The rest of a maintenance handler once stop has returned: self._task = None,
\* the files are replaced or the backup is rejected, and start.  No await.
ReplaceAndStart(m) ==
    /\ \E t \in Task :
          /\ Fresh(m, t)
          /\ handle' = t
          /\ task' = Created(t)
          /\ cancel' = cancel \ {t}
    /\ \E outcome \in {"replaced", "rejected"} : pc' = [pc EXCEPT ![m] = outcome]
    /\ waits' = [waits EXCEPT ![m] = NoTask]
    /\ UNCHANGED <<overBudget, dbFails>>

\* A request enters stop.  Bound: after an overlap no further one comes.
Enters(m) ==
    /\ pc[m] = "idle" /\ ~overlapped
    /\ overlapped' = \E n \in Maintainer : pc[n] = "stopping"

\* Mutant: stop returns without waiting for the task it cancelled.
Stop_NoAwait(m) ==
    /\ Enters(m)
    /\ Live(handle)
    /\ cancel' = cancel \cup {handle}
    /\ \E t \in Task :
          /\ Fresh(m, t)
          /\ handle' = t
          /\ task' = Created(t)
    /\ \E outcome \in {"replaced", "rejected"} : pc' = [pc EXCEPT ![m] = outcome]
    /\ UNCHANGED <<overBudget, dbFails, waits>>

\* stop: cancel the task and await it.
Stop(m) ==
    /\ Enters(m)
    /\ Live(handle)
    /\ cancel' = cancel \cup {handle}
    /\ waits' = [waits EXCEPT ![m] = handle]
    /\ pc' = [pc EXCEPT ![m] = "stopping"]
    /\ UNCHANGED <<handle, task, overBudget, dbFails>>

\* stop, when the task it finds has ended by cancellation: the await returns at
\* once.
StopEnded(m) ==
    /\ Enters(m)
    /\ task[handle] = "cancelled"
    /\ ReplaceAndStart(m)

\* stop, when the task has ended with an exception: the await raises it, and
\* neither "self._task = None" nor start is reached.  The request answers 500.
StopRaises(m) ==
    /\ Enters(m)
    /\ task[handle] = "raised"
    /\ pc' = [pc EXCEPT ![m] = "error"]
    /\ UNCHANGED <<handle, task, cancel, overBudget, dbFails, waits>>

\* The awaited task has ended.
Resume(m) ==
    /\ pc[m] = "stopping"
    /\ task[waits[m]] = "cancelled"
    /\ ReplaceAndStart(m)
    /\ UNCHANGED overlapped

\* The request is answered; another one may come.
Answered(m) ==
    /\ pc[m] \in {"replaced", "rejected", "error"}
    /\ pc' = [pc EXCEPT ![m] = "idle"]
    /\ UNCHANGED <<handle, task, cancel, overBudget, dbFails, waits, overlapped>>

-----------------------------------------------------------------------------
(* The loop.  A task with a cancellation pending gets it at its next step.  *)

Proceeds(t) == t \notin cancel

\* The interval is over: run_once, up to its first await.
Elapse(t) ==
    /\ task[t] = "sleep" /\ Proceeds(t)
    /\ task' = [task EXCEPT ![t] = "generate"]
    /\ dbFails' = FALSE
    /\ UNCHANGED <<handle, cancel, overBudget, pc, waits, overlapped>>

\* Mutant: the iteration that finds the model unavailable leaves the loop.
Finish_Returns(t) ==
    /\ task[t] = "generate" /\ Proceeds(t)
    /\ task' = [task EXCEPT ![t] = "returned"]
    /\ UNCHANGED <<handle, cancel, overBudget, dbFails, pc, waits, overlapped>>

\* run_once returns: nothing to send, everything sent, or BackendUnavailable.
Finish(t) ==
    /\ task[t] = "generate" /\ Proceeds(t)
    /\ task' = [task EXCEPT ![t] = "sleep"]
    /\ UNCHANGED <<handle, cancel, overBudget, dbFails, pc, waits, overlapped>>

\* A message is stored and published: to every open tab that may hear it.
Publish(t) ==
    /\ task[t] = "generate" /\ Proceeds(t)
    /\ task' = [task EXCEPT ![t] = "send"]
    /\ UNCHANGED <<handle, cancel, overBudget, dbFails, pc, waits, overlapped>>

\* The tabs have taken the event or have failed: to_thread(_send_web_push).
Push(t) ==
    /\ task[t] = "send" /\ Proceeds(t)
    /\ task' = [task EXCEPT ![t] = "push"]
    /\ UNCHANGED <<handle, cancel, overBudget, dbFails, pc, waits, overlapped>>

\* The thread has returned.  One whose loop is cancelled goes on by itself, and
\* nothing here waits for it any more.
PushDone(t) ==
    /\ task[t] = "push" /\ Proceeds(t)
    /\ task' = [task EXCEPT ![t] = "generate"]
    /\ UNCHANGED <<handle, cancel, overBudget, dbFails, pc, waits, overlapped>>

\* LimitExceeded from reserve_cloud, or an error of the database in a statement of
\* run_once or of the push thread, leaves run_once, which catches
\* BackendUnavailable alone, and with it _loop.
Raise(t) ==
    /\ LoopMayRaise /\ Proceeds(t)
    /\ \/ task[t] = "generate" /\ (overBudget \/ dbFails)
       \/ task[t] = "push" /\ dbFails
    /\ task' = [task EXCEPT ![t] = "raised"]
    /\ UNCHANGED <<handle, cancel, overBudget, dbFails, pc, waits, overlapped>>

\* Mutant: a cancellation is delivered again and again.
Deliver_Repeats(t) ==
    /\ t \in cancel /\ Live(t)
    /\ task' = [task EXCEPT ![t] = "cancelled"]
    /\ UNCHANGED <<handle, cancel, overBudget, dbFails, pc, waits, overlapped>>

\* Mutant: the loop catches CancelledError with the errors of an iteration.
Deliver_Caught(t) ==
    /\ t \in cancel /\ Live(t)
    /\ task' = [task EXCEPT ![t] = "sleep"]
    /\ cancel' = cancel \ {t}
    /\ UNCHANGED <<handle, overBudget, dbFails, pc, waits, overlapped>>

\* CancelledError is thrown at the await; nothing on the way catches it.
Deliver(t) ==
    /\ t \in cancel /\ Live(t)
    /\ task' = [task EXCEPT ![t] = "cancelled"]
    /\ cancel' = cancel \ {t}
    /\ UNCHANGED <<handle, overBudget, dbFails, pc, waits, overlapped>>

-----------------------------------------------------------------------------
(* The world *)

\* The budget fills up, and frees again as its windows roll.
Budget ==
    /\ overBudget' = ~overBudget
    /\ UNCHANGED <<handle, task, cancel, dbFails, pc, waits, overlapped>>

\* A character, a user or a thread of the run in flight is deleted, so that its
\* next row breaks a foreign key; or the file stays locked beyond the timeout.
DatabaseFails ==
    /\ \E t \in Task : task[t] \in WithinRun
    /\ ~dbFails /\ dbFails' = TRUE
    /\ UNCHANGED <<handle, task, cancel, overBudget, pc, waits, overlapped>>

\* The process is restarted.
Restart ==
    /\ \E t \in Task :
          /\ handle' = t
          /\ task' = [s \in Task |-> IF s = t THEN "sleep" ELSE "none"]
    /\ cancel' = {}
    /\ dbFails' = FALSE
    /\ pc' = [m \in Maintainer |-> "idle"]
    /\ waits' = [m \in Maintainer |-> NoTask]
    /\ overlapped' = FALSE
    /\ UNCHANGED overBudget

LoopStep(t) == Elapse(t) \/ Finish(t) \/ Deliver(t)

Maintenance(m) == Stop(m) \/ StopEnded(m) \/ StopRaises(m)

Next ==
    \/ \E m \in Maintainer : Maintenance(m) \/ Resume(m) \/ Answered(m)
    \/ \E t \in Task : LoopStep(t) \/ Publish(t) \/ Push(t) \/ PushDone(t) \/ Raise(t)
    \/ Budget \/ DatabaseFails \/ Restart

Spec == Init /\ [][Next]_vars

\* asyncio resumes what is ready, sleep and the model's answer end, and a pending
\* cancellation is delivered.  Nothing makes a tab take what it is sent or a push
\* service answer (send_json and webpush are given no timeout), and nothing makes
\* a request, an exception or a restart happen.
Fairness ==
    /\ \A t \in Task : WF_vars(LoopStep(t))
    /\ \A m \in Maintainer : WF_vars(Resume(m)) /\ WF_vars(Answered(m))

FairSpec == Spec /\ Fairness

\* Peers that always answer.
PromptSpec == FairSpec /\ \A t \in Task : WF_vars(Push(t)) /\ WF_vars(PushDone(t))

-----------------------------------------------------------------------------
(* Properties *)

TypeOK ==
    /\ handle \in Task
    /\ task \in [Task -> Suspended \cup {"none", "cancelled", "raised"}]
    /\ cancel \subseteq Loops
    /\ overBudget \in BOOLEAN /\ dbFails \in BOOLEAN
    /\ pc \in [Maintainer -> {"idle", "stopping", "replaced", "rejected", "error"}]
    /\ waits \in [Maintainer -> Task \cup {NoTask}]
    /\ overlapped \in BOOLEAN

\* As long as requests do not overlap in stop, every live loop, one that still
\* unwinds included, is the one self._task holds: there is no second one, and it
\* can be stopped.  A cancellation always has a request that waits for it.
LoopIsHandled ==
    ~overlapped =>
        /\ \A t \in Loops : handle = t
        /\ \A t \in cancel : \E m \in Maintainer : waits[m] = t

\* The database is replaced, or found invalid, only while no loop is inside
\* run_once (restore_system and reset_system await stop first).
ReplacedWhileQuiet ==
    [][\A m \in Maintainer :
          ~overlapped' /\ pc'[m] # pc[m] /\ pc'[m] \in {"replaced", "rejected"} =>
              \A t \in Task : task[t] \notin WithinRun]_vars

\* A request that cancelled the loop gets past stop, and leaves a live loop,
\* even when another one waits for the same task (stop, restore_system).
MaintenanceEnds ==
    \A m \in Maintainer : pc[m] = "stopping" ~> pc[m] # "stopping" /\ Live(handle)

Undisturbed == [][\A m \in Maintainer : ~Maintenance(m) /\ ~Restart]_vars

\* When maintenance and restarts are over, run_once runs again and again, unless
\* an exception it does not catch has ended the loop, or a tab or a push service
\* that never answers holds it for ever (_loop, publish, _send_web_push).
IntervalsGoOn ==
    /\ <>Undisturbed
    /\ []<>(task[handle] # "raised")
    /\ []<>(task[handle] \notin {"send", "push"})
    => []<>(\E t \in Task : task[t] = "generate")

\* The docstring of start, "Start one loop per process": at no time are two loops
\* alive.
OneLoopPerProcess == Cardinality(Loops) <= 1

\* docs/ARCHITECTURE.md, "On each interval, should_initiate applies these
\* gates": when maintenance and restarts are over the loop keeps running, given
\* peers that answer.
EveryInterval == <>Undisturbed => []<>(\E t \in Task : task[t] = "generate")

=============================================================================
