---------------------------- MODULE CloudBudget ----------------------------
(***************************************************************************)
(* The cloud budget of Kindred (backend/kindred/rate_limits.py), with the  *)
(* two paths that spend it: a chat completion (llm.py, _openai_shape), run *)
(* on the event loop by send_message or by the daemon, and an image        *)
(* request (main.py, generate_image), run in a thread of the server pool.  *)
(*                                                                         *)
(* A request reads the limits, then takes its timestamp, and only then     *)
(* opens BEGIN IMMEDIATE, counts the rows of the rolling windows and       *)
(* inserts its reservation.  Threads therefore commit rows out of          *)
(* timestamp order and against limits an administrator may have replaced.  *)
(***************************************************************************)
EXTENDS Naturals, Sequences, FiniteSets, FiniteSetsExt

CONSTANTS
    Request,          \* calls of complete() on a cloud character, and of generate_image
    Hour, Day,        \* lengths of the rolling windows, in clock ticks
    MaxTime,          \* bound on the clock
    OutputAllowance,  \* output tokens reserved by a chat (512 in llm.py)
    Prompts,          \* prompt sizes in tokens, estimated and reported
    Answers,          \* answer sizes in tokens, as the provider reports them
    DryRunAnswer,     \* size of the canned dry-run answer
    LimitChoices,     \* values the administrator gives to settings["limits"]
    DryRunModes       \* values of KINDRED_CLOUD_DRY_RUN

Limits == [hour : Nat, day : Nat, tokens : Nat, cost : Nat, image : Nat]

ASSUME BudgetAssumption ==
    /\ Hour \in Nat /\ Day \in Nat /\ MaxTime \in Nat
    /\ OutputAllowance \in Nat /\ DryRunAnswer \in Nat
    /\ Prompts \subseteq Nat /\ Answers \subseteq Nat
    /\ LimitChoices \subseteq Limits
    /\ DryRunModes \subseteq BOOLEAN
    /\ IsFiniteSet(Request)   \* the calls made before the clock bound

VARIABLES
    now,        \* the clock all the processes read
    limits,     \* app_settings["limits"]
    inForce,    \* history: every value limits has had
    ledger,     \* usage_logs, in order of id: AUTOINCREMENT, never deleted here
    pc,         \* how far each request is
    call,       \* what each request asks for
    read,       \* the limits each request read
    stamp,      \* the timestamp each request took
    row         \* reservation_id: the row of each request, 0 before it has one

vars == <<now, limits, inForce, ledger, pc, call, read, stamp, row>>

Call == [kind : {"chat", "image"}, prompt : Prompts \cup {0}, dry : BOOLEAN]

Row == [ts : Nat, kind : {"chat", "image"},
        input : Nat, output : Nat, cost : Nat, dry : BOOLEAN]

-----------------------------------------------------------------------------
(* Queries and checks *)

\* Half a millionth of a dollar for an input token, three times that for an
\* output token.
Price(input, output) == input + 3 * output

\* usage_since: the rows a window that starts at "since" counts; it has no end.
RowsSince(since) == {i \in DOMAIN ledger : ledger[i].ts >= since}

TokensSince(since) ==
    MapThenSumSet(LAMBDA i : ledger[i].input + ledger[i].output, RowsSince(since))

CostSince(since) == MapThenSumSet(LAMBDA i : ledger[i].cost, RowsSince(since))

ImagesSince(since) == {i \in RowsSince(since) : ledger[i].kind = "image"}

\* now - timedelta: the clock of the model starts at 0.
Back(t, window) == IF t > window THEN t - window ELSE 0

Allowance(r) == IF call[r].kind = "chat" THEN OutputAllowance ELSE 0

\* The row reserve_cloud inserts.
Reservation(r) ==
    [ts |-> stamp[r], kind |-> call[r].kind,
     input |-> call[r].prompt, output |-> Allowance(r),
     cost |-> Price(call[r].prompt, Allowance(r)), dry |-> call[r].dry]

\* Mutant: the windows end at the request's own timestamp.
Fits_ClosedWindow(r) ==
    LET Within(window) == {i \in RowsSince(Back(stamp[r], window)) : ledger[i].ts <= stamp[r]}
    IN  /\ Cardinality(Within(Hour)) < read[r].hour
        /\ Cardinality(Within(Day)) < read[r].day

\* Mutant: the counters are compared with > instead of >=.
Fits_OffByOne(r) ==
    /\ Cardinality(RowsSince(Back(stamp[r], Hour))) <= read[r].hour
    /\ Cardinality(RowsSince(Back(stamp[r], Day))) <= read[r].day

\* Mutant: images are only counted against the windows they share with chats.
Fits_NoImageQuota(r) ==
    /\ Cardinality(RowsSince(Back(stamp[r], Hour))) < read[r].hour
    /\ Cardinality(RowsSince(Back(stamp[r], Day))) < read[r].day

\* Mutant: the answer still to come is not charged against the token budget.
Fits_PromptOnly(r) ==
    /\ TokensSince(Back(stamp[r], Day)) + call[r].prompt <= read[r].tokens
    /\ CostSince(Back(stamp[r], Day)) + Price(call[r].prompt, 0) <= read[r].cost

\* _check_windows, with the windows of reserve_cloud.
Fits(r) ==
    LET hour == Back(stamp[r], Hour)
        day  == Back(stamp[r], Day)
        new  == Reservation(r)
    IN  /\ Cardinality(RowsSince(hour)) < read[r].hour
        /\ Cardinality(RowsSince(day)) < read[r].day
        /\ TokensSince(day) + new.input + new.output <= read[r].tokens
        /\ CostSince(day) + new.cost <= read[r].cost
        /\ call[r].kind = "image" => Cardinality(ImagesSince(day)) < read[r].image

\* A coroutine of the event loop is between its first read and its commit; no
\* other one runs meanwhile, since reserve_cloud awaits nothing.
LoopBusy == \E r \in Request : call[r].kind = "chat" /\ pc[r] \in {"limits", "stamped", "dry"}

-----------------------------------------------------------------------------
Init ==
    /\ now = 0
    /\ limits \in LimitChoices
    /\ inForce = {limits}
    /\ ledger = << >>
    /\ pc = [r \in Request |-> "idle"]
    /\ \E d \in DryRunModes :   \* one setting for the whole process
          call \in [Request -> [kind : {"chat", "image"}, prompt : {0}, dry : {d}]]
    /\ read = [r \in Request |-> limits]
    /\ stamp = [r \in Request |-> 0]
    /\ row = [r \in Request |-> 0]

Tick ==
    /\ now < MaxTime
    /\ now' = now + 1
    /\ UNCHANGED <<limits, inForce, ledger, pc, call, read, stamp, row>>

\* Mutant: the patch replaces the stored section instead of being merged into it.
UpdateLimits_Replace ==
    /\ \E l \in LimitChoices : limits' = [hour |-> l.hour]
    /\ inForce' = inForce \cup {limits'}
    /\ UNCHANGED <<now, ledger, pc, call, read, stamp, row>>

\* PATCH /api/settings of the section "limits", merged into the stored section.
UpdateLimits ==
    /\ limits' \in LimitChoices \ {limits}
    /\ inForce' = inForce \cup {limits'}
    /\ UNCHANGED <<now, ledger, pc, call, read, stamp, row>>

\* A chat is dry when the process is; an image also when its payload says so.
ReadLimits(r) ==
    /\ pc[r] = "idle"
    /\ \/ /\ call[r].kind = "chat"
          /\ ~LoopBusy
          /\ \E p \in Prompts : call' = [call EXCEPT ![r].prompt = p]
       \/ /\ call[r].kind = "image"
          /\ \E d \in {call[r].dry, TRUE} : call' = [call EXCEPT ![r].dry = d]
    /\ read' = [read EXCEPT ![r] = limits]
    /\ pc' = [pc EXCEPT ![r] = "limits"]
    /\ UNCHANGED <<now, limits, inForce, ledger, stamp, row>>

TakeStamp(r) ==
    /\ pc[r] = "limits"
    /\ stamp' = [stamp EXCEPT ![r] = now]
    /\ pc' = [pc EXCEPT ![r] = "stamped"]
    /\ UNCHANGED <<now, limits, inForce, ledger, call, read, row>>

\* Mutant: the row id is taken from the length before the insertion.
Reserve_PreviousRow(r) ==
    /\ pc[r] = "stamped"
    /\ Fits(r)
    /\ ledger' = Append(ledger, Reservation(r))
    /\ row' = [row EXCEPT ![r] = Len(ledger)]
    /\ pc' = [pc EXCEPT ![r] = IF call[r].dry THEN "dry" ELSE "dispatched"]
    /\ UNCHANGED <<now, limits, inForce, call, read, stamp>>

\* The transaction of reserve_cloud that commits.
Reserve(r) ==
    /\ pc[r] = "stamped"
    /\ Fits(r)
    /\ ledger' = Append(ledger, Reservation(r))
    /\ row' = [row EXCEPT ![r] = Len(ledger) + 1]
    /\ pc' = [pc EXCEPT ![r] = IF call[r].dry THEN "dry" ELSE "dispatched"]
    /\ UNCHANGED <<now, limits, inForce, call, read, stamp>>

\* LimitExceeded, answered with 429: the transaction rolls back.
Refuse(r) ==
    /\ pc[r] = "stamped"
    /\ ~Fits(r)
    /\ pc' = [pc EXCEPT ![r] = "refused"]
    /\ UNCHANGED <<now, limits, inForce, ledger, call, read, stamp, row>>

\* update_usage_log: the observed usage replaces the estimate, in place.
Observed(r, input, output, cost) ==
    ledger' = [ledger EXCEPT ![row[r]].input = input,
                             ![row[r]].output = output,
                             ![row[r]].cost = cost]

\* The canned answer: a chat logs its size at no cost, an image is returned.
DryRun(r) ==
    /\ pc[r] = "dry"
    /\ IF call[r].kind = "chat"
       THEN Observed(r, call[r].prompt, DryRunAnswer, 0)
       ELSE UNCHANGED ledger
    /\ pc' = [pc EXCEPT ![r] = "answered"]
    /\ UNCHANGED <<now, limits, inForce, call, read, stamp, row>>

\* The provider answers a chat and reports its usage; the payload sets no
\* max_tokens, so the answer may be longer than the allowance.
Settle(r) ==
    /\ pc[r] = "dispatched" /\ call[r].kind = "chat"
    /\ \E input \in Prompts, output \in Answers :
           Observed(r, input, output, Price(input, output))
    /\ pc' = [pc EXCEPT ![r] = "answered"]
    /\ UNCHANGED <<now, limits, inForce, call, read, stamp, row>>

\* Mutant: a failed call refunds its reservation.
Fail_Refund(r) ==
    /\ pc[r] = "dispatched"
    /\ Observed(r, 0, 0, 0)
    /\ pc' = [pc EXCEPT ![r] = "failed"]
    /\ UNCHANGED <<now, limits, inForce, call, read, stamp, row>>

\* BackendUnavailable for a chat, 501 for a live image: the row stays.
Fail(r) ==
    /\ pc[r] = "dispatched"
    /\ pc' = [pc EXCEPT ![r] = "failed"]
    /\ UNCHANGED <<now, limits, inForce, ledger, call, read, stamp, row>>

\* The process is killed: what was running is lost, what was committed is not.
Crash ==
    /\ \E r \in Request : pc[r] \in {"limits", "stamped", "dry", "dispatched"}
    /\ pc' = [r \in Request |->
                IF pc[r] \in {"limits", "stamped", "dry", "dispatched"}
                THEN "failed" ELSE pc[r]]
    /\ UNCHANGED <<now, limits, inForce, ledger, call, read, stamp, row>>

Next ==
    \/ Tick \/ UpdateLimits \/ Crash
    \/ \E r \in Request :
          \/ ReadLimits(r) \/ TakeStamp(r) \/ Reserve(r) \/ Refuse(r)
          \/ DryRun(r) \/ Settle(r) \/ Fail(r)

Spec == Init /\ [][Next]_vars

-----------------------------------------------------------------------------
(* Properties *)

TypeOK ==
    /\ now \in 0..MaxTime
    /\ limits \in LimitChoices
    /\ inForce \subseteq LimitChoices
    /\ ledger \in Seq(Row)
    /\ pc \in [Request -> {"idle", "limits", "stamped", "dry", "dispatched",
                           "answered", "refused", "failed"}]
    /\ call \in [Request -> Call]
    /\ read \in [Request -> LimitChoices]
    /\ stamp \in [Request -> 0..MaxTime]
    /\ row \in [Request -> Nat]

\* The rows of the window of the given length that ends at t.
Window(t, length) == {i \in DOMAIN ledger : ledger[i].ts \in Back(t, length)..t}

\* Rolling hour and rolling day: wherever a window is laid on the ledger, the
\* rows in it never exceed the largest request limit that has been in force,
\* although requests read their limits and their timestamps before the lock
\* and commit in any order (reserve_cloud).
RequestWindows ==
    \A t \in 0..MaxTime :
        /\ \E l \in inForce : Cardinality(Window(t, Hour)) <= l.hour
        /\ \E l \in inForce : Cardinality(Window(t, Day)) <= l.day

\* The same for the image requests of a rolling day (generate_image).
ImageWindows ==
    \A t \in 0..MaxTime : \E l \in inForce :
        Cardinality({i \in Window(t, Day) : ledger[i].kind = "image"}) <= l.image

\* What a chat used above its reservation; an unfinished one used none.
Overrun(r) ==
    LET used == ledger[row[r]].input + ledger[row[r]].output
        kept == call[r].prompt + Allowance(r)
    IN  IF row[r] # 0 /\ used > kept THEN used - kept ELSE 0

CostOverrun(r) ==
    LET used == ledger[row[r]].cost
        kept == Price(call[r].prompt, Allowance(r))
    IN  IF row[r] # 0 /\ used > kept THEN used - kept ELSE 0

\* Tokens and spend of a rolling day exceed the largest limit that has been in
\* force by no more than what answers used above their own reservation: the
\* reservations themselves, in flight or failed, never push a window over, and
\* a cheap answer frees its budget only once (reserve_cloud, update_usage_log).
SpendWindows ==
    \A t \in 0..MaxTime :
        /\ \E l \in inForce :
               MapThenSumSet(LAMBDA i : ledger[i].input + ledger[i].output, Window(t, Day))
                  <= l.tokens + MapThenSumSet(Overrun, Request)
        /\ \E l \in inForce :
               MapThenSumSet(LAMBDA i : ledger[i].cost, Window(t, Day))
                  <= l.cost + MapThenSumSet(CostOverrun, Request)

\* A request is at the provider only on a reservation of its own, which still
\* carries its full estimate; a call that failed, or that a crash cut short,
\* leaves the estimate behind (docs/RATE_LIMITING.md, Concurrency behavior).
ReservedWhileInFlight ==
    \A r \in Request :
        /\ pc[r] \in {"dispatched", "dry"} => row[r] # 0
        /\ row[r] # 0 => row[r] \in DOMAIN ledger /\ \A q \in Request \ {r} : row[q] # row[r]
        /\ row[r] # 0 /\ pc[r] # "answered" => ledger[row[r]] = Reservation(r)

\* A row is written in two strokes at most: it is never removed, keeps its
\* timestamp and its kind, and takes another usage only in the step in which
\* the request that reserved it is answered.
LedgerHistory ==
    [][\A i \in DOMAIN ledger :
          /\ i \in DOMAIN ledger'
          /\ ledger'[i].ts = ledger[i].ts /\ ledger'[i].kind = ledger[i].kind
          /\ ledger'[i] # ledger[i] =>
                \E r \in Request : row[r] = i /\ pc[r] # "answered" /\ pc'[r] = "answered"]_vars

=============================================================================
