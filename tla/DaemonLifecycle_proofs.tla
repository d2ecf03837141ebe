----------------------- MODULE DaemonLifecycle_proofs -----------------------
(***************************************************************************)
(* What is proved of DaemonLifecycle for every number of maintenance       *)
(* requests and of tasks.                                                  *)
(***************************************************************************)
EXTENDS DaemonLifecycle, TLAPS

\* The states a task is in.
TaskState == Suspended \cup {"none", "cancelled", "raised"}

LEMMA InitType == Init => TypeOK
BY DEF Init, TypeOK, Suspended, WithinRun, Loops

\* A new loop, whoever starts it.
LEMMA StartType ==
    ASSUME TypeOK, NEW m \in Maintainer, ReplaceAndStart(m), overlapped' \in BOOLEAN
    PROVE  TypeOK'
<1>1. PICK t \in Task : /\ Fresh(m, t)
                        /\ handle' = t
                        /\ task' = Created(t)
                        /\ cancel' = cancel \ {t}
    BY DEF ReplaceAndStart
<1>2. task' \in [Task -> TaskState] /\ cancel' \subseteq Loops'
    BY <1>1 DEF Created, TypeOK, TaskState, Suspended, WithinRun, Loops, Live
<1>3. /\ pc' \in [Maintainer -> {"idle", "stopping", "replaced", "rejected", "error"}]
      /\ waits' \in [Maintainer -> Task \cup {NoTask}]
      /\ UNCHANGED <<overBudget, dbFails>>
    BY DEF ReplaceAndStart, TypeOK
<1>. QED  BY <1>1, <1>2, <1>3 DEF TypeOK, TaskState

\* What a step of one task does to the types: a task that is not live any more
\* has no cancellation pending.
LEMMA TaskStep ==
    ASSUME TypeOK, NEW t \in Task, NEW s \in TaskState, task' = [task EXCEPT ![t] = s],
           cancel' \subseteq cancel, s \in Suspended \/ t \notin cancel',
           dbFails' \in BOOLEAN,
           UNCHANGED <<handle, overBudget, pc, waits, overlapped>>
    PROVE  TypeOK'
<1>1. task' \in [Task -> TaskState]
    BY DEF TypeOK, TaskState
<1>2. cancel' \subseteq Loops'
    BY DEF TypeOK, Loops, Live
<1>. QED  BY <1>1, <1>2 DEF TypeOK, TaskState

\* Tasks, requests and cancellations stay in their types: in particular, nothing
\* but a live loop ever has a cancellation pending (stop, _loop).
THEOREM TypeCorrect == Spec => []TypeOK
<1>1. TypeOK /\ [Next]_vars => TypeOK'
    <2>. SUFFICES ASSUME TypeOK, [Next]_vars PROVE TypeOK'
        OBVIOUS
    <2>1. ASSUME NEW m \in Maintainer, Stop(m) PROVE TypeOK'
        <3>1. overlapped' \in BOOLEAN /\ Live(handle) /\ handle \in Task
            BY <2>1 DEF Stop, Enters, TypeOK
        <3>2. cancel' \subseteq Loops'
            BY <2>1, <3>1 DEF Stop, TypeOK, Loops, Live
        <3>. QED  BY <2>1, <3>1, <3>2 DEF Stop, TypeOK
    <2>2. ASSUME NEW m \in Maintainer, StopEnded(m) \/ Resume(m) PROVE TypeOK'
        <3>1. overlapped' \in BOOLEAN /\ ReplaceAndStart(m)
            BY <2>2 DEF StopEnded, Resume, Enters, TypeOK
        <3>. QED  BY <3>1, StartType
    <2>3. ASSUME NEW m \in Maintainer, StopRaises(m) \/ Answered(m) PROVE TypeOK'
        <3>1. overlapped' \in BOOLEAN /\ UNCHANGED <<handle, task, cancel, overBudget, dbFails, waits>>
            BY <2>3 DEF StopRaises, Answered, Enters, TypeOK
        <3>2. pc' \in [Maintainer -> {"idle", "stopping", "replaced", "rejected", "error"}]
            BY <2>3 DEF StopRaises, Answered, TypeOK
        <3>. QED  BY <3>1, <3>2 DEF TypeOK, Loops, Live
    <2>4. ASSUME NEW t \in Task, Elapse(t) \/ Finish(t) \/ Publish(t) \/ Push(t) \/ PushDone(t)
          PROVE  TypeOK'
        <3>1. \E q \in WithinRun \cup {"sleep"} : task' = [task EXCEPT ![t] = q]
            BY <2>4 DEF Elapse, Finish, Publish, Push, PushDone, WithinRun
        <3>2. /\ UNCHANGED <<handle, cancel, overBudget, pc, waits, overlapped>>
              /\ dbFails' \in BOOLEAN
            BY <2>4 DEF Elapse, Finish, Publish, Push, PushDone, TypeOK
        <3>3. WithinRun \cup {"sleep"} = Suspended /\ Suspended \subseteq TaskState
            BY DEF Suspended, TaskState
        <3>. QED  BY <3>1, <3>2, <3>3, TaskStep
    <2>5. ASSUME NEW t \in Task, Raise(t) PROVE TypeOK'
        <3>1. "raised" \in TaskState /\ t \notin cancel
            BY <2>5 DEF TaskState, Raise, Proceeds
        <3>2. dbFails' \in BOOLEAN
            BY <2>5 DEF Raise, TypeOK
        <3>. QED  BY <2>5, <3>1, <3>2, TaskStep DEF Raise
    <2>6. ASSUME NEW t \in Task, Deliver(t) PROVE TypeOK'
        <3>1. "cancelled" \in TaskState /\ t \notin cancel' /\ cancel' \subseteq cancel
            BY <2>6 DEF TaskState, Deliver
        <3>2. dbFails' \in BOOLEAN
            BY <2>6 DEF Deliver, TypeOK
        <3>. QED  BY <2>6, <3>1, <3>2, TaskStep DEF Deliver
    <2>7. CASE Budget \/ DatabaseFails
        BY <2>7 DEF Budget, DatabaseFails, TypeOK, Loops, Live
    <2>8. CASE Restart
        <3>1. task' \in [Task -> TaskState] /\ cancel' = {} /\ handle' \in Task
            BY <2>8 DEF Restart, TaskState, Suspended
        <3>2. /\ pc' \in [Maintainer -> {"idle", "stopping", "replaced", "rejected", "error"}]
              /\ waits' \in [Maintainer -> Task \cup {NoTask}]
              /\ overBudget' \in BOOLEAN /\ dbFails' \in BOOLEAN /\ overlapped' \in BOOLEAN
            BY <2>8 DEF Restart, TypeOK
        <3>. QED  BY <3>1, <3>2 DEF TypeOK, TaskState
    <2>9. CASE UNCHANGED vars
        BY <2>9 DEF vars, TypeOK, Loops, Live
    <2>. QED
        BY <2>1, <2>2, <2>3, <2>4, <2>5, <2>6, <2>7, <2>8, <2>9
        DEF Next, Maintenance, LoopStep
<1>. QED  BY <1>1, InitType, PTL DEF Spec

-----------------------------------------------------------------------------
(* One request at a time *)

\* While no two requests meet in stop: there is no live loop but the recorded one;
\* at most one request waits, for that loop, which is cancelled or about to be;
\* and a pending cancellation has that request waiting for it.
OneAtATime ==
    /\ \A t \in Task : Live(t) => t = handle
    /\ \A m, n \in Maintainer : pc[m] = "stopping" /\ pc[n] = "stopping" => m = n
    /\ \A m \in Maintainer : pc[m] = "stopping" =>
          waits[m] = handle /\ (task[handle] = "cancelled" \/ handle \in cancel)
    /\ \A t \in cancel : \E m \in Maintainer : pc[m] = "stopping" /\ waits[m] = t

LifeInv == TypeOK /\ (~overlapped => OneAtATime)

\* While a request waits for a loop that has ended, no loop is live; nor is one
\* when a request finds the loop ended and no other request waits.
LEMMA NoLoopBehind ==
    ASSUME TypeOK, OneAtATime, task[handle] = "cancelled"
    PROVE  Loops = {} /\ cancel = {}
<1>1. ~Live(handle)
    BY DEF Live, Suspended, WithinRun
<1>. QED  BY <1>1 DEF OneAtATime, Loops, TypeOK

\* A request that restarts the daemon when no loop is live and no other request
\* waits leaves the one it starts.
LEMMA RestartAlone ==
    ASSUME TypeOK, NEW m \in Maintainer, ReplaceAndStart(m), Loops = {}, cancel = {},
           \A n \in Maintainer \ {m} : pc[n] # "stopping"
    PROVE  OneAtATime'
<1>1. PICK t \in Task : handle' = t /\ task' = Created(t) /\ cancel' = cancel \ {t}
    BY DEF ReplaceAndStart
<1>2. \A n \in Maintainer : pc'[n] # "stopping"
    BY DEF ReplaceAndStart, TypeOK
<1>3. \A s \in Task : Live(s)' => s = t
    BY <1>1 DEF Created, TypeOK, Live, Loops
<1>. QED  BY <1>1, <1>2, <1>3 DEF OneAtATime

\* A step of a task that has no cancellation pending and stays as alive as it
\* was, or ends.
LEMMA LoopStepAlone ==
    ASSUME TypeOK, OneAtATime, NEW t \in Task, Live(t), t \notin cancel,
           NEW s, task' = [task EXCEPT ![t] = s],
           UNCHANGED <<handle, cancel, pc, waits>>
    PROVE  OneAtATime'
<1>1. t = handle
    BY DEF OneAtATime
<1>2. \A m \in Maintainer : pc[m] # "stopping"
    BY <1>1 DEF OneAtATime, Live, Suspended, WithinRun
<1>3. \A q \in Task : Live(q)' => Live(q)
    BY DEF TypeOK, Live
<1>. QED  BY <1>2, <1>3 DEF OneAtATime

\* The inductive invariant of stop, start and _loop.
THEOREM LifeHolds == Spec => []LifeInv
<1>1. Init => LifeInv
    <2>1. Init => OneAtATime
        BY DEF Init, OneAtATime, Live, Suspended, WithinRun
    <2>. QED  BY <2>1, InitType DEF LifeInv
<1>2. LifeInv /\ TypeOK' /\ [Next]_vars => LifeInv'
    <2>. SUFFICES ASSUME LifeInv, TypeOK', [Next]_vars, ~overlapped' PROVE OneAtATime'
        BY DEF LifeInv
    <2>0. TypeOK
        BY DEF LifeInv
    <2>1. ASSUME NEW m \in Maintainer, Stop(m) PROVE OneAtATime'
        <3>1. /\ OneAtATime /\ Live(handle) /\ handle \in Task
              /\ \A n \in Maintainer : pc[n] # "stopping"
            BY <2>1 DEF Stop, Enters, LifeInv, TypeOK
        <3>2. cancel = {} /\ cancel' = {handle}
            BY <2>1, <3>1 DEF Stop, OneAtATime
        <3>3. \A n \in Maintainer : /\ pc'[n] = "stopping" <=> n = m
                                   /\ waits'[m] = handle
            BY <2>0, <2>1, <3>1 DEF Stop, TypeOK
        <3>4. handle' = handle /\ task' = task
            BY <2>1 DEF Stop
        <3>5. \A t \in Task : Live(t)' => t = handle
            BY <3>1, <3>4 DEF OneAtATime, Live
        <3>. QED  BY <3>1, <3>2, <3>3, <3>4, <3>5 DEF OneAtATime
    <2>2. ASSUME NEW m \in Maintainer, StopEnded(m) PROVE OneAtATime'
        <3>1. /\ OneAtATime /\ ReplaceAndStart(m) /\ task[handle] = "cancelled"
              /\ \A n \in Maintainer : pc[n] # "stopping"
            BY <2>2 DEF StopEnded, Enters, LifeInv
        <3>. QED  BY <2>0, <3>1, NoLoopBehind, RestartAlone
    <2>3. ASSUME NEW m \in Maintainer, Resume(m) PROVE OneAtATime'
        <3>1. /\ OneAtATime /\ ReplaceAndStart(m) /\ pc[m] = "stopping"
              /\ task[waits[m]] = "cancelled"
            BY <2>3 DEF Resume, LifeInv
        <3>2. task[handle] = "cancelled" /\ \A n \in Maintainer \ {m} : pc[n] # "stopping"
            BY <3>1 DEF OneAtATime
        <3>. QED  BY <2>0, <3>1, <3>2, NoLoopBehind, RestartAlone
    <2>4. ASSUME NEW m \in Maintainer, StopRaises(m) \/ Answered(m) PROVE OneAtATime'
        <3>1. OneAtATime /\ UNCHANGED <<handle, task, cancel, waits>>
            BY <2>4 DEF StopRaises, Answered, Enters, LifeInv
        <3>2. \A n \in Maintainer : pc'[n] = "stopping" <=> pc[n] = "stopping"
            BY <2>0, <2>4 DEF StopRaises, Answered, Enters, TypeOK
        <3>. QED  BY <3>1, <3>2 DEF OneAtATime, Live
    <2>5. ASSUME NEW t \in Task, Elapse(t) \/ Finish(t) \/ Publish(t) \/ Push(t) \/ PushDone(t) \/ Raise(t)
          PROVE  OneAtATime'
        <3>1. OneAtATime /\ UNCHANGED <<handle, cancel, pc, waits>> /\ t \notin cancel
            BY <2>5 DEF Elapse, Finish, Publish, Push, PushDone, Raise, Proceeds, LifeInv
        <3>2. Live(t)
            BY <2>5 DEF Elapse, Finish, Publish, Push, PushDone, Raise, Live, Suspended, WithinRun
        <3>3. \E s : task' = [task EXCEPT ![t] = s]
            BY <2>5 DEF Elapse, Finish, Publish, Push, PushDone, Raise
        <3>. QED  BY <2>0, <3>1, <3>2, <3>3, LoopStepAlone
    <2>6. ASSUME NEW t \in Task, Deliver(t) PROVE OneAtATime'
        <3>1. /\ OneAtATime /\ t \in cancel /\ Live(t) /\ t = handle
              /\ UNCHANGED <<handle, pc, waits>>
              /\ cancel' = cancel \ {t}
            BY <2>6 DEF Deliver, LifeInv, OneAtATime
        <3>2. /\ task'[handle] = "cancelled"
              /\ \A q \in Task : Live(q)' => Live(q)
            BY <2>0, <2>6, <3>1 DEF Deliver, TypeOK, Live, Suspended, WithinRun
        <3>. QED  BY <3>1, <3>2 DEF OneAtATime
    <2>7. CASE Budget \/ DatabaseFails \/ UNCHANGED vars
        <3>1. OneAtATime /\ UNCHANGED <<handle, task, cancel, pc, waits>>
            BY <2>7 DEF Budget, DatabaseFails, vars, LifeInv
        <3>. QED  BY <3>1 DEF OneAtATime, Live
    <2>8. CASE Restart
        BY <2>8 DEF Restart, OneAtATime, Live, Suspended, WithinRun
    <2>. QED
        BY <2>1, <2>2, <2>3, <2>4, <2>5, <2>6, <2>7, <2>8 DEF Next, Maintenance, LoopStep
<1>. QED  BY <1>1, <1>2, TypeCorrect, PTL DEF Spec

\* As long as requests do not overlap in stop, every live loop is the one a request
\* to stop would cancel, and every cancellation has its request waiting (stop).
THEOREM LoopHandled == Spec => []LoopIsHandled
<1>1. LifeInv => LoopIsHandled
    BY DEF LifeInv, OneAtATime, LoopIsHandled, Loops
<1>. QED  BY <1>1, LifeHolds, PTL

\* Then, too, the database is only replaced while no loop is inside run_once
\* (restore_system, reset_system).
THEOREM QuietReplacement == Spec => ReplacedWhileQuiet
<1>. DEFINE Safely ==
         \A m \in Maintainer :
            ~overlapped' /\ pc'[m] # pc[m] /\ pc'[m] \in {"replaced", "rejected"} =>
                \A t \in Task : task[t] \notin WithinRun
<1>1. LifeInv /\ [Next]_vars => [Safely]_vars
    <2>. SUFFICES ASSUME LifeInv, Next, NEW m \in Maintainer, ~overlapped',
                         pc'[m] # pc[m], pc'[m] \in {"replaced", "rejected"}
                  PROVE  \A t \in Task : task[t] \notin WithinRun
        OBVIOUS
    <2>0. TypeOK
        BY DEF LifeInv
    <2>1. StopEnded(m) \/ Resume(m)
        <3>1. ASSUME NEW n \in Maintainer, n # m, StopEnded(n) \/ Resume(n) PROVE FALSE
            BY <2>0, <3>1 DEF StopEnded, Resume, ReplaceAndStart, TypeOK
        <3>2. ASSUME NEW n \in Maintainer, Stop(n) \/ StopRaises(n) \/ Answered(n) PROVE FALSE
            BY <2>0, <3>2 DEF Stop, StopRaises, Answered, TypeOK
        <3>3. ~Restart
            BY DEF Restart
        <3>. QED
            BY <3>1, <3>2, <3>3 DEF Next, Maintenance, LoopStep, Elapse, Finish, Publish,
               Push, PushDone, Deliver, Raise, Budget, DatabaseFails
    <2>2. OneAtATime /\ task[handle] = "cancelled"
        BY <2>1 DEF StopEnded, Resume, Enters, LifeInv, OneAtATime
    <2>3. Loops = {}
        BY <2>0, <2>2, NoLoopBehind
    <2>. QED  BY <2>3 DEF Loops, Live, Suspended
<1>2. Spec => [][Safely]_vars
    BY <1>1, LifeHolds, PTL DEF Spec
<1>. QED  BY <1>2 DEF ReplacedWhileQuiet

=============================================================================
