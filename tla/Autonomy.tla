------------------------------ MODULE Autonomy ------------------------------
(***************************************************************************)
(* What the daemon decides, and what becomes of a decision while it waits: *)
(* should_initiate and CharacterDaemon.run_once (daemon.py), with the      *)
(* queries it decides on (latest_message_time, count_initiated_since and   *)
(* the daemon_state row of database.py).                                   *)
(*                                                                         *)
(* A run reads the local time once, at its start.  It evaluates the        *)
(* characters one after the other against the messages stored by then, and *)
(* for each that may write it awaits the model and the publication of      *)
(* every message.  Meanwhile time passes, users write, threads are deleted *)
(* and an administrator's POST /api/daemon/run-once makes a second run.    *)
(* Between two awaits nothing else runs on the event loop.                 *)
(*                                                                         *)
(* Timestamps are stored in UTC; "now" of a run is an aware local time,    *)
(* whose arithmetic is the arithmetic of the wall clock.                   *)
(***************************************************************************)
EXTENDS Integers, Sequences, FiniteSets, QuietHours

CONSTANTS
    Run,                \* the loop of the daemon, and concurrent manual runs
    Loop,               \* the loop, which never forces a character
    Character,
    Silent,             \* characters with initiative_frequency 0
    Recipient,          \* accounts a character may write to
    HourCap, DayCap,    \* global_messages_per_hour and _per_day
    Cooldown,           \* cooldown_minutes
    QuietStart, QuietEnd,
    Hour, Day,          \* in ticks
    MaxTime, MaxLog,    \* bounds on the clock and on the messages ever stored
    ChangeAt, Shifts,   \* when the local clock is changed, and by how much
    ThreadsAreDeleted,  \* whether users delete threads
    None                \* no character

ASSUME AutonomyAssumption ==
    /\ Silent \subseteq Character
    /\ IsFiniteSet(Run) /\ IsFiniteSet(Recipient)
    /\ HourCap \in Nat /\ DayCap \in Nat /\ Cooldown \in Nat
    /\ Hour \in Nat /\ Day \in Nat \ {0}
    /\ QuietStart \in 0..(Day - 1) /\ QuietEnd \in 0..(Day - 1)
    /\ MaxTime \in Nat /\ MaxLog \in Nat
    /\ ChangeAt \in Nat /\ Shifts \subseteq Int
    /\ ThreadsAreDeleted \in BOOLEAN
    /\ None \notin Character

VARIABLES
    now,        \* the instant
    shift,      \* the change of the local clock of this behaviour
    log,        \* every message ever stored
    kept,       \* the rows of messages: indices of log
    checked,    \* daemon_state.last_checked_at, -1 for NULL
    initiated,  \* daemon_state.last_initiated_at, -1 for NULL
    pc,         \* each run: where it is
    base,       \* "now" of the run
    forced,     \* force_character_id is given
    agenda,     \* characters still to evaluate
    current,    \* the character it writes for
    todo        \* recipients still to write to, the one being written to included

store == <<log, kept, checked, initiated>>
runs == <<pc, base, forced, agenda, current, todo>>
vars == <<now, shift, store, runs>>

Writer == {"chat", "test", "daemon", "forced"}

Row == [ts : 0..MaxTime, character : Character, user : Recipient,
        by : Writer, base : 0..MaxTime]

-----------------------------------------------------------------------------
(* Local time *)

\* astimezone: the wall clock at an instant.
Wall(instant) == IF instant >= ChangeAt THEN instant + shift ELSE instant

\* iso: the instant of a wall clock reading with fold 0.  A reading that the
\* change skipped, or repeats, is taken with the offset from before it.
Instant(wall) ==
    IF wall < (IF shift > 0 THEN ChangeAt + shift ELSE ChangeAt) THEN wall ELSE wall - shift

\* now - timedelta(...), converted by iso.
Since(instant, length) == Instant(Wall(instant) - length)

-----------------------------------------------------------------------------
(* The decision *)

\* count_initiated_since: chats are not initiated; tests and forced runs are.
InitiatedSince(since) == {i \in kept : log[i].by # "chat" /\ log[i].ts >= since}

\* Mutant: the cooldown runs from last_initiated_at, which a run that failed
\* half-way has not written.
CooledDown_Initiated(c, b) == initiated[c] = -1 \/ b - initiated[c] >= Cooldown

\* latest_message_time and the cooldown: any message, whoever wrote it.
CooledDown(c, b) ==
    \A i \in kept : log[i].character = c => Wall(b) - Wall(log[i].ts) >= Cooldown

Quiet(instant) == InQuietHours(Wall(instant) % Day, QuietStart, QuietEnd)

\* Mutant: the caps are compared with > instead of >=.
Gates_OffByOne(c, b) ==
    /\ c \notin Silent
    /\ ~Quiet(b)
    /\ CooledDown(c, b)
    /\ Cardinality(InitiatedSince(Since(b, Hour))) <= HourCap
    /\ Cardinality(InitiatedSince(Since(b, Day))) <= DayCap

\* should_initiate up to its random sample, which may always come out either way.
Gates(c, b) ==
    /\ c \notin Silent
    /\ ~Quiet(b)
    /\ CooledDown(c, b)
    /\ Cardinality(InitiatedSince(Since(b, Hour))) < HourCap
    /\ Cardinality(InitiatedSince(Since(b, Day))) < DayCap

-----------------------------------------------------------------------------
(* The event loop and its other users *)

Place == {"idle", "deciding", "sending", "generating", "publishing", "interrupted"}

\* A call of run_once is in progress; the last one returned ("idle") or did not.
Running(r) == pc[r] \notin {"idle", "interrupted"}

\* A run that awaits nothing keeps the loop to itself.
Awaits(r) == Running(r) => pc[r] \in {"generating", "publishing"}

LoopFreeFor(r) == \A q \in Run \ {r} : Awaits(q)

LoopFree == \A q \in Run : Awaits(q)

Append1(row) ==
    /\ Len(log) < MaxLog
    /\ log' = Append(log, row)
    /\ kept' = kept \cup {Len(log) + 1}

Init ==
    /\ now = 0
    /\ shift \in Shifts
    /\ log = << >> /\ kept = {}
    /\ checked = [c \in Character |-> -1]
    /\ initiated = [c \in Character |-> -1]
    /\ pc = [r \in Run |-> "idle"]
    /\ base = [r \in Run |-> 0]
    /\ forced = [r \in Run |-> FALSE]
    /\ agenda = [r \in Run |-> {}]
    /\ current = [r \in Run |-> None]
    /\ todo = [r \in Run |-> {}]

Tick ==
    /\ now < MaxTime
    /\ now' = now + 1
    /\ UNCHANGED <<shift, store, runs>>

\* A user's message or its reply (send_message), or a notification test.
Write ==
    /\ LoopFree
    /\ \E c \in Character, u \in Recipient, by \in {"chat", "test"} :
          Append1([ts |-> now, character |-> c, user |-> u, by |-> by, base |-> now])
    /\ UNCHANGED <<now, shift, checked, initiated, runs>>

\* delete_thread, in a thread of the server pool: the messages cascade.
DeleteThread ==
    /\ ThreadsAreDeleted
    /\ \E c \in Character, u \in Recipient :
          LET gone == {i \in kept : log[i].character = c /\ log[i].user = u}
          IN  gone # {} /\ kept' = kept \ gone
    /\ UNCHANGED <<now, shift, log, checked, initiated, runs>>

-----------------------------------------------------------------------------
(* run_once *)

\* The start of a run: its "now", and the characters it lists.
Begin(r) ==
    /\ ~Running(r) /\ LoopFreeFor(r)
    /\ base' = [base EXCEPT ![r] = now]
    /\ \/ /\ forced' = [forced EXCEPT ![r] = FALSE]
          /\ agenda' = [agenda EXCEPT ![r] = Character]
       \/ /\ r # Loop
          /\ forced' = [forced EXCEPT ![r] = TRUE]
          /\ \E c \in Character : agenda' = [agenda EXCEPT ![r] = {c}]
    /\ pc' = [pc EXCEPT ![r] = "deciding"]
    /\ UNCHANGED <<now, shift, store, current, todo>>

\* A gate is closed, or the random sample defers.
Defer(r) ==
    /\ pc[r] = "deciding" /\ ~forced[r]
    /\ \E c \in agenda[r] :
          /\ checked' = [checked EXCEPT ![c] = base[r]]
          /\ agenda' = [agenda EXCEPT ![r] = @ \ {c}]
    /\ UNCHANGED <<now, shift, log, kept, initiated, pc, base, forced, current, todo>>

\* The gates are open and the sample selects, or the run is forced.
Select(r) ==
    /\ pc[r] = "deciding"
    /\ \E c \in agenda[r], us \in SUBSET Recipient :
          /\ forced[r] \/ Gates(c, base[r])
          /\ agenda' = [agenda EXCEPT ![r] = @ \ {c}]
          /\ current' = [current EXCEPT ![r] = c]
          /\ todo' = [todo EXCEPT ![r] = us]
    /\ pc' = [pc EXCEPT ![r] = "sending"]
    /\ UNCHANGED <<now, shift, store, base, forced>>

\* The next recipient: the model is asked, and awaited.
Ask(r) ==
    /\ pc[r] = "sending" /\ todo[r] # {}
    /\ pc' = [pc EXCEPT ![r] = "generating"]
    /\ UNCHANGED <<now, shift, store, base, forced, agenda, current, todo>>

\* The answer is stored, and its publication awaited.
Store(r) ==
    /\ pc[r] = "generating" /\ LoopFreeFor(r)
    /\ \E u \in todo[r] :
          /\ Append1([ts |-> now, character |-> current[r], user |-> u,
                      by |-> IF forced[r] THEN "forced" ELSE "daemon", base |-> base[r]])
          /\ todo' = [todo EXCEPT ![r] = @ \ {u}]
    /\ pc' = [pc EXCEPT ![r] = "publishing"]
    /\ UNCHANGED <<now, shift, checked, initiated, base, forced, agenda, current>>

Published(r) ==
    /\ pc[r] = "publishing" /\ LoopFreeFor(r)
    /\ pc' = [pc EXCEPT ![r] = "sending"]
    /\ UNCHANGED <<now, shift, store, base, forced, agenda, current, todo>>

\* Mutant: the state is written with the time at which the sending ended.
Complete_AtEnd(r) ==
    /\ pc[r] = "sending" /\ todo[r] = {}
    /\ initiated' = [initiated EXCEPT ![current[r]] = now]
    /\ current' = [current EXCEPT ![r] = None]
    /\ pc' = [pc EXCEPT ![r] = "deciding"]
    /\ UNCHANGED <<now, shift, log, kept, checked, base, forced, agenda, todo>>

\* Every recipient has been written to: set_daemon_state with initiated_at.
Complete(r) ==
    /\ pc[r] = "sending" /\ todo[r] = {}
    /\ checked' = [checked EXCEPT ![current[r]] = base[r]]
    /\ initiated' = [initiated EXCEPT ![current[r]] = base[r]]
    /\ current' = [current EXCEPT ![r] = None]
    /\ pc' = [pc EXCEPT ![r] = "deciding"]
    /\ UNCHANGED <<now, shift, log, kept, base, forced, agenda, todo>>

\* The locals of a call that is over.
Over(r, how) ==
    /\ pc' = [pc EXCEPT ![r] = how]
    /\ base' = [base EXCEPT ![r] = 0]
    /\ forced' = [forced EXCEPT ![r] = FALSE]
    /\ agenda' = [agenda EXCEPT ![r] = {}]
    /\ current' = [current EXCEPT ![r] = None]
    /\ todo' = [todo EXCEPT ![r] = {}]
    /\ UNCHANGED <<now, shift, store>>

\* Mutant: run_once does not catch BackendUnavailable.
Unavailable_Uncaught(r) == pc[r] = "generating" /\ LoopFreeFor(r) /\ Over(r, "idle")

\* BackendUnavailable: the recipients left are skipped and the run goes on.
Unavailable(r) ==
    /\ pc[r] = "generating" /\ LoopFreeFor(r)
    /\ checked' = [checked EXCEPT ![current[r]] = base[r]]
    /\ current' = [current EXCEPT ![r] = None]
    /\ todo' = [todo EXCEPT ![r] = {}]
    /\ pc' = [pc EXCEPT ![r] = "deciding"]
    /\ UNCHANGED <<now, shift, log, kept, initiated, base, forced, agenda>>

\* run_once returns.
Return(r) == pc[r] = "deciding" /\ agenda[r] = {} /\ Over(r, "idle")

\* Mutant: run_once catches every exception, and goes on with its locals.
Interrupt_Caught(r) ==
    /\ pc[r] \in {"generating", "publishing"} /\ LoopFreeFor(r)
    /\ pc' = [pc EXCEPT ![r] = "deciding"]
    /\ UNCHANGED <<now, shift, store, base, forced, agenda, current, todo>>

\* The task is cancelled at an await, the process restarts, or an exception other
\* than BackendUnavailable is raised: at an await (LimitExceeded, KeyError), or by
\* a statement the database refuses.  Nothing in run_once handles it: what is
\* stored stays, and no state row is written.  (DaemonLifecycle has what this does
\* to the loop.)
Interrupt(r) == Running(r) /\ LoopFreeFor(r) /\ Over(r, "interrupted")

Next ==
    \/ Tick \/ Write \/ DeleteThread
    \/ \E r \in Run :
          \/ Begin(r) \/ Defer(r) \/ Select(r) \/ Ask(r) \/ Store(r) \/ Published(r)
          \/ Complete(r) \/ Unavailable(r) \/ Return(r) \/ Interrupt(r)

Spec == Init /\ [][Next]_vars

-----------------------------------------------------------------------------
(* Properties *)

TypeOK ==
    /\ now \in 0..MaxTime
    /\ shift \in Shifts
    /\ log \in Seq(Row)
    /\ kept \subseteq DOMAIN log
    /\ checked \in [Character -> -1..MaxTime]
    /\ initiated \in [Character -> -1..MaxTime]
    /\ pc \in [Run -> Place]
    /\ base \in [Run -> 0..MaxTime]
    /\ forced \in [Run -> BOOLEAN]
    /\ agenda \in [Run -> SUBSET Character]
    /\ current \in [Run -> Character \cup {None}]
    /\ \A r \in Run : current[r] = None <=> ~Running(r) \/ pc[r] = "deciding"
    /\ todo \in [Run -> SUBSET Recipient]

\* The autonomous messages among the given rows in a window that ends at t.
Autonomous(rows, t, length) ==
    {i \in rows : log[i].by = "daemon" /\ log[i].ts \in (t - length)..t}

\* The global caps are checked once for all the recipients of a character, so
\* they can be overshot, but by less than one fan-out for each concurrent run,
\* however long the model takes and whatever is deleted meanwhile (run_once).
CapsOvershoot ==
    \A t \in 0..MaxTime :
        LET fanOut == Cardinality(Run) * Cardinality(Recipient)
            hour == Autonomous(kept, t, Hour)
            day == Autonomous(kept, t, Day)
        IN  /\ hour # {} => Cardinality(hour) < HourCap + fanOut
            /\ day # {} => Cardinality(day) < DayCap + fanOut

\* The cooldown is the one of the decision, whoever wrote and however many runs
\* there are: no message of the character that was there when the run began is
\* younger than the cooldown.  What is stored while the run generates for others
\* or for itself is not looked at again (should_initiate, run_once).
CooldownAtDecision ==
    \A i, j \in kept :
        i < j /\ log[j].by = "daemon" /\ log[i].character = log[j].character
            => log[i].ts \notin (log[j].base - Cooldown + 1)..(log[j].base - 1)

\* Two autonomous messages of a character are a cooldown apart, or are sent by
\* one decision to two recipients; in particular nobody gets two of one decision.
InitiativesApart ==
    \A i, j \in kept :
        /\ i < j
        /\ log[i].by = "daemon" /\ log[j].by = "daemon"
        /\ log[i].character = log[j].character
        => \/ log[j].ts - log[i].ts >= Cooldown
           \/ log[i].base = log[j].base /\ log[i].user # log[j].user

\* While the loop is alone, daemon_state only moves forward, and an initiative is
\* never recorded later than the check that made it: the elapsed time from which
\* the next probability is computed is not counted twice (set_daemon_state).
StateAdvances ==
    [][\A c \in Character :
          /\ checked'[c] >= checked[c] /\ initiated'[c] >= initiated[c]
          /\ initiated'[c] <= checked'[c]]_vars

\* A model that is unavailable costs no other character its turn: a run of all the
\* characters that ends, and was not interrupted, has recorded every one of them as
\* checked at its own time (run_once).  An interrupted run costs all that are left
\* theirs: BackendUnavailable is the one failure it survives.
EveryCharacterChecked ==
    [][\A r \in Run :
          Running(r) /\ pc'[r] = "idle" /\ ~forced[r] =>
              \A c \in Character : checked'[c] = base[r]]_vars

\* At every local time, also after the clock was changed, the window of
\* in_quiet_hours is one arc of the clock face, over midnight or not.
OneArc ==
    \A start, end \in 0..(Day - 1) : QuietIsOneArc(Wall(now) % Day, start, end, Day)

\* docs/RATE_LIMITING.md: the daemon has separate global messages/hour and
\* messages/day limits.
CapsHold ==
    \A t \in 0..MaxTime :
        /\ Cardinality(Autonomous(kept, t, Hour)) <= HourCap
        /\ Cardinality(Autonomous(kept, t, Day)) <= DayCap

=============================================================================
