--------------------------- MODULE Autonomy_proofs ---------------------------
(***************************************************************************)
(* What is proved of Autonomy for every set of runs, characters and        *)
(* recipients, every cap, cooldown and window, and every clock.            *)
(***************************************************************************)
EXTENDS Autonomy, QuietHours_proofs, FiniteSetTheorems, TLAPS

\* Where a run is, is what most steps below are about.
USE DEF Running, Place

-----------------------------------------------------------------------------
(* Type correctness *)

\* What storing a message does to the log and to the rows there are.
LEMMA Stored ==
    ASSUME TypeOK, NEW row \in Row, Append1(row)
    PROVE  /\ log' \in Seq(Row)
           /\ DOMAIN log' = DOMAIN log \cup {Len(log) + 1}
           /\ Len(log) + 1 \notin DOMAIN log
           /\ \A i \in DOMAIN log : log'[i] = log[i]
           /\ log'[Len(log) + 1] = row
           /\ kept' = kept \cup {Len(log) + 1}
           /\ kept' \subseteq DOMAIN log'
<1>1. log \in Seq(Row) /\ kept \subseteq DOMAIN log
    BY DEF TypeOK
<1>2. log' = Append(log, row) /\ kept' = kept \cup {Len(log) + 1}
    BY DEF Append1
<1>. QED  BY <1>1, <1>2

\* The message a run stores is a row.
LEMMA StoredRow ==
    ASSUME TypeOK, NEW r \in Run, Store(r)
    PROVE  \E u \in todo[r] :
              LET new == [ts |-> now, character |-> current[r], user |-> u,
                          by |-> IF forced[r] THEN "forced" ELSE "daemon", base |-> base[r]]
              IN  /\ new \in Row
                  /\ Append1(new)
                  /\ u \in Recipient
                  /\ todo' = [todo EXCEPT ![r] = @ \ {u}]
<1>. DEFINE new(u) == [ts |-> now, character |-> current[r], user |-> u,
                       by |-> IF forced[r] THEN "forced" ELSE "daemon", base |-> base[r]]
<1>1. PICK u \in todo[r] : Append1(new(u)) /\ todo' = [todo EXCEPT ![r] = @ \ {u}]
    BY DEF Store
<1>2. u \in Recipient
    BY DEF TypeOK
<1>3. current[r] \in Character
    BY DEF TypeOK, Store
<1>4. base[r] \in 0..MaxTime /\ now \in 0..MaxTime
    BY DEF TypeOK
<1>5. new(u) \in Row
    BY <1>2, <1>3, <1>4 DEF Row, Writer
<1>. QED  BY <1>1, <1>2, <1>5

\* The message a user or a test stores is a row.
LEMMA WrittenRow ==
    ASSUME TypeOK, Write
    PROVE  \E row \in Row : Append1(row) /\ row.by # "daemon" /\ row.ts = now
<1>1. PICK c \in Character, u \in Recipient, by \in {"chat", "test"} :
          Append1([ts |-> now, character |-> c, user |-> u, by |-> by, base |-> now])
    BY DEF Write
<1>2. now \in 0..MaxTime
    BY DEF TypeOK
<1>3. [ts |-> now, character |-> c, user |-> u, by |-> by, base |-> now] \in Row
    BY <1>2 DEF Row, Writer
<1>. QED  BY <1>1, <1>3

\* A run that is over has given back its locals.
LEMMA OverType ==
    ASSUME TypeOK, AutonomyAssumption, NEW r \in Run,
           NEW how \in {"idle", "interrupted"}, Over(r, how)
    PROVE  TypeOK'
<1>1. 0 \in 0..MaxTime
    BY DEF AutonomyAssumption
<1>2. UNCHANGED <<now, shift, log, kept, checked, initiated>>
    BY DEF Over, store
<1>. QED  BY <1>1, <1>2 DEF Over, TypeOK

\* Messages, state rows and the locals of runs stay in their types, whatever the
\* interleaving of run_once with users, deletions and a second run.
THEOREM TypeCorrect == Spec => []TypeOK
<1>. USE AutonomyAssumption
<1>1. Init => TypeOK
    BY DEF Init, TypeOK, AutonomyAssumption
<1>2. TypeOK /\ [Next]_vars => TypeOK'
    <2>. SUFFICES ASSUME TypeOK, [Next]_vars PROVE TypeOK'
        OBVIOUS
    <2>1. CASE Tick
        BY <2>1 DEF Tick, TypeOK, AutonomyAssumption, store, runs
    <2>2. CASE Write
        <3>1. PICK row \in Row : Append1(row)
            BY <2>2, WrittenRow
        <3>2. log' \in Seq(Row) /\ kept' \subseteq DOMAIN log'
            BY <3>1, Stored
        <3>. QED  BY <2>2, <3>2 DEF Write, TypeOK, runs
    <2>3. CASE DeleteThread
        <3>1. kept' \subseteq DOMAIN log' /\ log' = log
            BY <2>3 DEF DeleteThread, TypeOK
        <3>. QED  BY <2>3, <3>1 DEF DeleteThread, TypeOK, runs
    <2>4. ASSUME NEW r \in Run, Begin(r) PROVE TypeOK'
        <3>1. agenda' \in [Run -> SUBSET Character] /\ forced' \in [Run -> BOOLEAN]
            <4>1. /\ \E b \in BOOLEAN : forced' = [forced EXCEPT ![r] = b]
                  /\ \E cs \in SUBSET Character : agenda' = [agenda EXCEPT ![r] = cs]
                BY <2>4 DEF Begin
            <4>. QED  BY <4>1 DEF TypeOK
        <3>2. UNCHANGED <<now, shift, log, kept, checked, initiated, current, todo>>
            BY <2>4 DEF Begin, store
        <3>3. base' \in [Run -> 0..MaxTime]
            <4>1. base' = [base EXCEPT ![r] = now] /\ now \in 0..MaxTime
                BY <2>4 DEF Begin, TypeOK
            <4>. QED  BY <4>1 DEF TypeOK
        <3>4. ~Running(r) /\ pc' = [pc EXCEPT ![r] = "deciding"]
            BY <2>4 DEF Begin
        <3>5. /\ pc' \in [Run -> Place]
              /\ \A q \in Run : current'[q] = None <=> ~Running(q)' \/ pc'[q] = "deciding"
            BY <3>2, <3>4 DEF TypeOK
        <3>. QED  BY <3>1, <3>2, <3>3, <3>5 DEF TypeOK
    <2>5. ASSUME NEW r \in Run, Defer(r) PROVE TypeOK'
        <3>1. agenda' \in [Run -> SUBSET Character] /\ checked' \in [Character -> -1..MaxTime]
            BY <2>5 DEF Defer, TypeOK, AutonomyAssumption
        <3>. QED  BY <2>5, <3>1 DEF Defer, TypeOK
    <2>6. ASSUME NEW r \in Run, Select(r) PROVE TypeOK'
        <3>1. PICK c \in agenda[r], us \in SUBSET Recipient :
                  /\ agenda' = [agenda EXCEPT ![r] = @ \ {c}]
                  /\ current' = [current EXCEPT ![r] = c]
                  /\ todo' = [todo EXCEPT ![r] = us]
            BY <2>6 DEF Select
        <3>2. c \in Character /\ c # None
            BY DEF TypeOK, AutonomyAssumption
        <3>3. /\ agenda' \in [Run -> SUBSET Character]
              /\ todo' \in [Run -> SUBSET Recipient]
              /\ current' \in [Run -> Character \cup {None}]
            BY <3>1, <3>2 DEF TypeOK
        <3>4. pc' = [pc EXCEPT ![r] = "sending"]
            BY <2>6 DEF Select
        <3>5. \A q \in Run : current'[q] = None <=> ~Running(q)' \/ pc'[q] = "deciding"
            BY <3>1, <3>2, <3>4 DEF TypeOK
        <3>6. UNCHANGED <<now, shift, log, kept, checked, initiated, base, forced>>
            BY <2>6 DEF Select, store
        <3>. QED  BY <3>3, <3>4, <3>5, <3>6 DEF TypeOK
    <2>7. ASSUME NEW r \in Run, Ask(r) PROVE TypeOK'
        BY <2>7 DEF Ask, TypeOK, store
    <2>8. ASSUME NEW r \in Run, Store(r) PROVE TypeOK'
        <3>1. PICK row \in Row, u \in todo[r] :
                  Append1(row) /\ todo' = [todo EXCEPT ![r] = @ \ {u}]
            BY <2>8, StoredRow
        <3>2. log' \in Seq(Row) /\ kept' \subseteq DOMAIN log'
            BY <3>1, Stored
        <3>3. todo' \in [Run -> SUBSET Recipient]
            BY <3>1 DEF TypeOK
        <3>. QED  BY <2>8, <3>2, <3>3 DEF Store, TypeOK
    <2>9. ASSUME NEW r \in Run, Published(r) PROVE TypeOK'
        BY <2>9 DEF Published, TypeOK, store
    <2>10. ASSUME NEW r \in Run, Complete(r) PROVE TypeOK'
        <3>1. base[r] \in -1..MaxTime
            BY DEF TypeOK, AutonomyAssumption
        <3>2. checked' = [checked EXCEPT ![current[r]] = base[r]]
            BY <2>10 DEF Complete
        <3>3. checked' \in [Character -> -1..MaxTime]
            BY <3>1, <3>2 DEF TypeOK
        <3>4. initiated' = [initiated EXCEPT ![current[r]] = base[r]]
            BY <2>10 DEF Complete
        <3>5. initiated' \in [Character -> -1..MaxTime]
            BY <3>1, <3>4 DEF TypeOK
        <3>6. /\ pc' \in [Run -> Place]
              /\ current' \in [Run -> Character \cup {None}]
              /\ \A q \in Run : current'[q] = None <=> ~Running(q)' \/ pc'[q] = "deciding"
            BY <2>10 DEF Complete, TypeOK
        <3>. QED  BY <2>10, <3>3, <3>5, <3>6 DEF Complete, TypeOK
    <2>11. ASSUME NEW r \in Run, Unavailable(r) PROVE TypeOK'
        <3>1. base[r] \in -1..MaxTime
            BY DEF TypeOK, AutonomyAssumption
        <3>2. checked' = [checked EXCEPT ![current[r]] = base[r]]
            BY <2>11 DEF Unavailable
        <3>3. checked' \in [Character -> -1..MaxTime]
            BY <3>1, <3>2 DEF TypeOK
        <3>5. initiated' = initiated
            BY <2>11 DEF Unavailable
        <3>6. /\ pc' \in [Run -> Place]
              /\ current' \in [Run -> Character \cup {None}]
              /\ \A q \in Run : current'[q] = None <=> ~Running(q)' \/ pc'[q] = "deciding"
            BY <2>11 DEF Unavailable, TypeOK
        <3>. QED  BY <2>11, <3>3, <3>5, <3>6 DEF Unavailable, TypeOK
    <2>12. ASSUME NEW r \in Run, Return(r) \/ Interrupt(r) PROVE TypeOK'
        <3>1. \E how \in {"idle", "interrupted"} : Over(r, how)
            BY <2>12 DEF Return, Interrupt
        <3>. QED  BY <3>1, OverType
    <2>13. CASE UNCHANGED vars
        BY <2>13 DEF vars, store, runs, TypeOK
    <2>. QED
        BY <2>1, <2>2, <2>3, <2>4, <2>5, <2>6, <2>7, <2>8, <2>9, <2>10, <2>11, <2>12,
           <2>13 DEF Next
<1>. QED  BY <1>1, <1>2, PTL DEF Spec

-----------------------------------------------------------------------------
(* Quiet hours *)

\* At every local time, before and after a clock change of any size, any window
\* of in_quiet_hours is one arc of a clock face of any length.
THEOREM AlwaysOneArc == Spec => []OneArc
<1>1. TypeOK => OneArc
    <2>. SUFFICES ASSUME TypeOK, NEW start \in 0..(Day - 1), NEW end \in 0..(Day - 1)
                  PROVE  QuietIsOneArc(Wall(now) % Day, start, end, Day)
        BY DEF OneArc
    <2>1. Day \in Nat \ {0}
        BY AutonomyAssumption DEF AutonomyAssumption
    <2>2. now \in Int /\ shift \in Int /\ ChangeAt \in Int
        BY AutonomyAssumption DEF AutonomyAssumption, TypeOK
    <2>3. Wall(now) \in Int
        BY <2>2 DEF Wall
    <2>4. Wall(now) % Day \in 0..(Day - 1)
        BY <2>1, <2>3
    <2>. QED  BY <2>1, <2>4, WindowIsOneArc
<1>. QED  BY <1>1, TypeCorrect, PTL

-----------------------------------------------------------------------------
(* The cooldown *)

\* No clock is put forward: the case in which the arithmetic of local times
\* never shortens a duration.
NoSpring == \A s \in Shifts : s <= 0

\* A run that has decided, on its own, that current[r] may write.
Decided(r) == pc[r] \in {"sending", "generating", "publishing"} /\ ~forced[r]

\* A message of c that is younger than the cooldown at b, and not later than b.
Young(row, c, b) == row.character = c /\ row.ts \in (b - Cooldown + 1)..(b - 1)

BasesPassed == \A r \in Run : base[r] <= now

DecidedCool ==
    \A r \in Run : Decided(r) => \A i \in kept : ~Young(log[i], current[r], base[r])

StoredCool ==
    \A i, j \in kept :
        i < j /\ log[j].by = "daemon" => ~Young(log[i], log[j].character, log[j].base)

CoolInv == TypeOK /\ BasesPassed /\ DecidedCool /\ StoredCool

\* What holds of a step that stores no message: rows may go, and a run that has
\* decided had decided before, for the same character and the same time.
LEMMA NothingStored ==
    ASSUME CoolInv, log' = log, kept' \subseteq kept, now' >= now, now' \in Nat,
           \A r \in Run : base'[r] = base[r] \/ base'[r] = now \/ base'[r] = 0,
           \A r \in Run : Decided(r)' =>
               Decided(r) /\ current'[r] = current[r] /\ base'[r] = base[r]
    PROVE  BasesPassed' /\ DecidedCool' /\ StoredCool'
<1>1. now \in Nat /\ \A r \in Run : base[r] \in Nat /\ base[r] <= now
    BY AutonomyAssumption DEF AutonomyAssumption, CoolInv, TypeOK, BasesPassed
<1>2. BasesPassed'
    BY <1>1 DEF BasesPassed
<1>3. DecidedCool'
    BY DEF CoolInv, DecidedCool
<1>4. StoredCool'
    BY DEF CoolInv, StoredCool
<1>. QED  BY <1>2, <1>3, <1>4

\* What holds of a step that stores a message at the present time: it is not
\* older than any decision, so it is young for none.
LEMMA OneStored ==
    ASSUME CoolInv, NEW row \in Row, Append1(row), row.ts = now,
           UNCHANGED <<now, base, current, forced>>,
           \A r \in Run : Decided(r)' => Decided(r),
           row.by = "daemon" => \E r \in Run :
               Decided(r) /\ row.character = current[r] /\ row.base = base[r]
    PROVE  BasesPassed' /\ DecidedCool' /\ StoredCool'
<1>. DEFINE new == Len(log) + 1
<1>0. TypeOK /\ kept \subseteq DOMAIN log /\ log \in Seq(Row)
    BY DEF CoolInv, TypeOK
<1>1. /\ DOMAIN log' = DOMAIN log \cup {new} /\ new \notin DOMAIN log
      /\ \A i \in DOMAIN log : log'[i] = log[i]
      /\ log'[new] = row
      /\ kept' = kept \cup {new}
    BY <1>0, Stored
<1>2. /\ now \in Nat /\ Cooldown \in Nat
      /\ \A r \in Run : base[r] \in Nat /\ base[r] <= now
    BY <1>0, AutonomyAssumption DEF AutonomyAssumption, CoolInv, TypeOK, BasesPassed
<1>3. ASSUME NEW r \in Run, NEW c PROVE ~Young(row, c, base[r])
    BY <1>2 DEF Young
<1>4. now' = now /\ base' = base /\ current' = current /\ forced' = forced
    OBVIOUS
<1>5. BasesPassed'
    BY <1>2, <1>4 DEF BasesPassed
<1>6. DecidedCool'
    <2>. SUFFICES ASSUME NEW r \in Run, Decided(r)', NEW i \in kept'
                  PROVE  ~Young(log'[i], current[r], base[r])
        BY <1>4 DEF DecidedCool
    <2>1. CASE i = new
        BY <1>1, <1>3, <2>1
    <2>2. CASE i # new
        BY <1>0, <1>1, <2>2 DEF CoolInv, DecidedCool
    <2>. QED  BY <2>1, <2>2
<1>7. StoredCool'
    <2>. SUFFICES ASSUME NEW i \in kept', NEW j \in kept', i < j, log'[j].by = "daemon"
                  PROVE  ~Young(log'[i], log'[j].character, log'[j].base)
        BY DEF StoredCool
    <2>1. i \in kept /\ log'[i] = log[i]
        <3>1. DOMAIN log = 1..Len(log) /\ Len(log) \in Nat
            BY <1>0
        <3>. QED  BY <1>0, <1>1, <3>1
    <2>2. CASE j = new
        <3>1. PICK r \in Run :
                  Decided(r) /\ row.character = current[r] /\ row.base = base[r]
            BY <1>1, <2>2
        <3>2. ~Young(log[i], current[r], base[r])
            BY <2>1, <3>1 DEF CoolInv, DecidedCool
        <3>. QED  BY <1>1, <2>1, <2>2, <3>1, <3>2
    <2>3. CASE j # new
        <3>1. j \in kept /\ log'[j] = log[j]
            BY <1>0, <1>1, <2>3
        <3>. QED  BY <2>1, <3>1 DEF CoolInv, StoredCool
    <2>. QED  BY <2>2, <2>3
<1>. QED  BY <1>5, <1>6, <1>7

\* The gates leave no young message, when no clock was put forward.
LEMMA GatesCool ==
    ASSUME TypeOK, NoSpring, NEW c \in Character, NEW r \in Run, Gates(c, base[r]),
           NEW i \in kept
    PROVE  ~Young(log[i], c, base[r])
<1>1. /\ shift \in Int /\ shift <= 0
      /\ ChangeAt \in Nat /\ Cooldown \in Nat
    BY AutonomyAssumption DEF AutonomyAssumption, TypeOK, NoSpring
<1>2. base[r] \in Nat /\ log[i].ts \in Nat
    <2>1. log[i] \in Row
        BY DEF TypeOK
    <2>. QED  BY <2>1, AutonomyAssumption DEF AutonomyAssumption, TypeOK, Row
<1>3. log[i].character = c => Wall(base[r]) - Wall(log[i].ts) >= Cooldown
    BY DEF Gates, CooledDown
<1>. QED  BY <1>1, <1>2, <1>3 DEF Young, Wall

\* Whoever wrote, however many runs there are and whatever is deleted: unless the
\* clock is put forward, an autonomous message follows no message, stored before
\* its run began, by less than the cooldown (should_initiate, run_once).
THEOREM CooldownKept == NoSpring => (Spec => []CooldownAtDecision)
<1>. SUFFICES ASSUME NoSpring PROVE Spec => []CooldownAtDecision
    OBVIOUS
<1>. USE AutonomyAssumption
<1>1. Init => BasesPassed /\ DecidedCool /\ StoredCool
    BY DEF Init, BasesPassed, DecidedCool, Decided, StoredCool
<1>2. CoolInv /\ TypeOK' /\ [Next]_vars => CoolInv'
    <2>. SUFFICES ASSUME CoolInv, TypeOK', [Next]_vars
                  PROVE  BasesPassed' /\ DecidedCool' /\ StoredCool'
        BY DEF CoolInv
    <2>0. TypeOK /\ now \in Nat /\ now + 1 \in Nat
        BY DEF CoolInv, TypeOK, AutonomyAssumption
    <2>1. CASE Tick
        BY <2>0, <2>1, NothingStored DEF Tick, store, runs, Decided
    <2>2. CASE Write
        <3>1. PICK row \in Row : Append1(row) /\ row.by # "daemon" /\ row.ts = now
            BY <2>0, <2>2, WrittenRow
        <3>2. UNCHANGED <<now, base, current, forced, pc>>
            BY <2>2 DEF Write, runs
        <3>. QED  BY <3>1, <3>2, OneStored DEF Decided
    <2>3. CASE DeleteThread
        <3>1. kept' \subseteq kept /\ log' = log
            BY <2>3 DEF DeleteThread
        <3>2. UNCHANGED <<now, base, current, forced, pc>>
            BY <2>3 DEF DeleteThread, runs
        <3>. QED  BY <2>0, <3>1, <3>2, NothingStored DEF Decided
    <2>4. ASSUME NEW r \in Run, Begin(r)
          PROVE  BasesPassed' /\ DecidedCool' /\ StoredCool'
        <3>1. UNCHANGED <<now, log, kept, current>>
            BY <2>4 DEF Begin, store
        <3>2. ASSUME NEW q \in Run
              PROVE  /\ base'[q] = IF q = r THEN now ELSE base[q]
                     /\ pc'[q] = IF q = r THEN "deciding" ELSE pc[q]
                     /\ q # r => forced'[q] = forced[q]
            BY <2>0, <2>4 DEF Begin, TypeOK
        <3>. QED  BY <2>0, <3>1, <3>2, NothingStored DEF Decided
    <2>5. ASSUME NEW r \in Run, Defer(r)
          PROVE  BasesPassed' /\ DecidedCool' /\ StoredCool'
        BY <2>0, <2>5, NothingStored DEF Defer, Decided
    <2>6. ASSUME NEW r \in Run, Select(r)
          PROVE  BasesPassed' /\ DecidedCool' /\ StoredCool'
        <3>1. PICK c \in agenda[r] :
                  /\ forced[r] \/ Gates(c, base[r])
                  /\ current' = [current EXCEPT ![r] = c]
            BY <2>6 DEF Select
        <3>2. UNCHANGED <<now, log, kept, base, forced>>
            BY <2>6 DEF Select, store
        <3>3. ASSUME NEW q \in Run
              PROVE  /\ pc'[q] = IF q = r THEN "sending" ELSE pc[q]
                     /\ current'[q] = IF q = r THEN c ELSE current[q]
            BY <2>0, <2>6, <3>1 DEF Select, TypeOK
        <3>4. c \in Character
            BY <2>0 DEF TypeOK
        <3>5. ASSUME NEW q \in Run, Decided(q)', NEW i \in kept
              PROVE  ~Young(log[i], current'[q], base[q])
            <4>1. CASE q = r
                <5>1. Gates(c, base[r])
                    BY <3>1, <3>2, <3>5, <4>1 DEF Decided
                <5>. QED  BY <2>0, <3>3, <3>4, <4>1, <5>1, GatesCool
            <4>2. CASE q # r
                BY <3>2, <3>3, <3>5, <4>2 DEF Decided, CoolInv, DecidedCool
            <4>. QED  BY <4>1, <4>2
        <3>6. DecidedCool'
            BY <3>2, <3>5 DEF DecidedCool
        <3>. QED  BY <3>2, <3>6 DEF CoolInv, BasesPassed, StoredCool
    <2>7. ASSUME NEW r \in Run, Ask(r)
          PROVE  BasesPassed' /\ DecidedCool' /\ StoredCool'
        <3>1. \A q \in Run : Decided(q)' => Decided(q)
            BY <2>0, <2>7 DEF Ask, Decided, TypeOK
        <3>. QED  BY <2>0, <2>7, <3>1, NothingStored DEF Ask, store
    <2>8. ASSUME NEW r \in Run, Store(r)
          PROVE  BasesPassed' /\ DecidedCool' /\ StoredCool'
        <3>1. PICK u \in todo[r] :
                 LET new == [ts |-> now, character |-> current[r], user |-> u,
                             by |-> IF forced[r] THEN "forced" ELSE "daemon",
                             base |-> base[r]]
                 IN  new \in Row /\ Append1(new)
            BY <2>0, <2>8, StoredRow
        <3>. DEFINE new == [ts |-> now, character |-> current[r], user |-> u,
                            by |-> IF forced[r] THEN "forced" ELSE "daemon",
                            base |-> base[r]]
        <3>2. new \in Row /\ Append1(new)
            BY <3>1
        <3>3. new.ts = now
            OBVIOUS
        <3>4. new.by = "daemon" =>
                 Decided(r) /\ new.character = current[r] /\ new.base = base[r]
            BY <2>8 DEF Store, Decided
        <3>5. UNCHANGED <<now, base, current, forced>>
            BY <2>8 DEF Store
        <3>6. \A q \in Run : Decided(q)' => Decided(q)
            BY <2>0, <2>8 DEF Store, Decided, TypeOK
        <3>. HIDE DEF new
        <3>. QED  BY <3>2, <3>3, <3>4, <3>5, <3>6, OneStored
    <2>9. ASSUME NEW r \in Run, Published(r)
          PROVE  BasesPassed' /\ DecidedCool' /\ StoredCool'
        <3>1. \A q \in Run : Decided(q)' => Decided(q)
            BY <2>0, <2>9 DEF Published, Decided, TypeOK
        <3>. QED  BY <2>0, <2>9, <3>1, NothingStored DEF Published, store
    <2>10. ASSUME NEW r \in Run, Complete(r) \/ Unavailable(r)
           PROVE  BasesPassed' /\ DecidedCool' /\ StoredCool'
        <3>1. UNCHANGED <<now, log, kept, base, forced>>
            BY <2>10 DEF Complete, Unavailable
        <3>2. ASSUME NEW q \in Run
              PROVE  /\ pc'[q] = IF q = r THEN "deciding" ELSE pc[q]
                     /\ q # r => current'[q] = current[q]
            BY <2>0, <2>10 DEF Complete, Unavailable, TypeOK
        <3>. QED  BY <2>0, <3>1, <3>2, NothingStored DEF Decided
    <2>11. ASSUME NEW r \in Run, Return(r) \/ Interrupt(r)
           PROVE  BasesPassed' /\ DecidedCool' /\ StoredCool'
        <3>1. UNCHANGED <<now, log, kept>>
            BY <2>11 DEF Return, Interrupt, Over, store
        <3>2. ASSUME NEW q \in Run
              PROVE  /\ q = r => pc'[q] \in {"idle", "interrupted"}
                     /\ q # r => pc'[q] = pc[q]
                     /\ base'[q] = IF q = r THEN 0 ELSE base[q]
                     /\ q # r => forced'[q] = forced[q] /\ current'[q] = current[q]
            BY <2>0, <2>11 DEF Return, Interrupt, Over, TypeOK
        <3>. QED  BY <2>0, <3>1, <3>2, NothingStored DEF Decided
    <2>12. CASE UNCHANGED vars
        BY <2>0, <2>12, NothingStored DEF vars, store, runs, Decided
    <2>. QED
        BY <2>1, <2>2, <2>3, <2>4, <2>5, <2>6, <2>7, <2>8, <2>9, <2>10, <2>11, <2>12
        DEF Next
<1>3. CoolInv => CooldownAtDecision
    BY DEF CoolInv, StoredCool, Young, CooldownAtDecision
<1>4. Init => CoolInv
    <2>1. Init => TypeOK
        BY DEF Init, TypeOK, AutonomyAssumption
    <2>. QED  BY <1>1, <2>1 DEF CoolInv
<1>. QED  BY <1>2, <1>3, <1>4, TypeCorrect, PTL DEF Spec

-----------------------------------------------------------------------------
(* The global caps *)

FanOut == Cardinality(Run) * Cardinality(Recipient)

\* The messages that decisions made by t still have to send.
Owed(t) ==
    {p \in Run \X Recipient : Decided(p[1]) /\ base[p[1]] <= t /\ p[2] \in todo[p[1]]}

\* What is sent and what is owed stay below one cap and one fan-out.
Room(sent, owed, cap) ==
    sent \cup owed # {} => Cardinality(sent) + Cardinality(owed) < cap + FanOut

RoomEverywhere ==
    \A t \in 0..MaxTime :
        /\ Room(Autonomous(kept, t, Hour), Owed(t), HourCap)
        /\ Room(Autonomous(kept, t, Day), Owed(t), DayCap)

CapInv == TypeOK /\ BasesPassed /\ RoomEverywhere

\* What can be owed at all.
LEMMA FanOutBound ==
    /\ FanOut \in Nat
    /\ \A owed \in SUBSET (Run \X Recipient) :
          IsFiniteSet(owed) /\ Cardinality(owed) \in Nat /\ Cardinality(owed) <= FanOut
<1>1. IsFiniteSet(Run) /\ IsFiniteSet(Recipient)
    BY AutonomyAssumption DEF AutonomyAssumption
<1>2. IsFiniteSet(Run \X Recipient) /\ Cardinality(Run \X Recipient) = FanOut
    BY <1>1, FS_Product DEF FanOut
<1>3. FanOut \in Nat
    BY <1>2, FS_CardinalityType
<1>4. ASSUME NEW owed \in SUBSET (Run \X Recipient)
      PROVE  IsFiniteSet(owed) /\ Cardinality(owed) \in Nat /\ Cardinality(owed) <= FanOut
    <2>1. IsFiniteSet(owed) /\ Cardinality(owed) <= Cardinality(Run \X Recipient)
        BY <1>2, FS_Subset
    <2>. QED  BY <1>2, <2>1, FS_CardinalityType
<1>. QED  BY <1>3, <1>4

\* What is neither sent nor decided anew leaves the room there was.
LEMMA RoomLeft ==
    ASSUME NEW sent, IsFiniteSet(sent), NEW owed \in SUBSET (Run \X Recipient),
           NEW cap \in Nat, Room(sent, owed, cap),
           NEW sent2 \in SUBSET sent, NEW owed2 \in SUBSET owed
    PROVE  Room(sent2, owed2, cap)
<1>1. /\ IsFiniteSet(sent2) /\ Cardinality(sent2) <= Cardinality(sent)
      /\ Cardinality(sent2) \in Nat /\ Cardinality(sent) \in Nat
    <2>1. IsFiniteSet(sent2) /\ Cardinality(sent2) <= Cardinality(sent)
        BY FS_Subset
    <2>. QED  BY <2>1, FS_CardinalityType
<1>2. IsFiniteSet(owed) /\ FanOut \in Nat
    BY FanOutBound
<1>3. /\ Cardinality(owed2) <= Cardinality(owed)
      /\ Cardinality(owed2) \in Nat /\ Cardinality(owed) \in Nat
    <2>1. IsFiniteSet(owed2) /\ Cardinality(owed2) <= Cardinality(owed)
        BY <1>2, FS_Subset
    <2>. QED  BY <1>2, <2>1, FS_CardinalityType
<1>. QED  BY <1>1, <1>2, <1>3 DEF Room

\* A message that was owed and is sent uses the room it had.
LEMMA RoomMoved ==
    ASSUME NEW sent, IsFiniteSet(sent), NEW owed \in SUBSET (Run \X Recipient),
           NEW cap \in Nat, Room(sent, owed, cap),
           NEW x, NEW y \in owed,
           NEW sent2 \in SUBSET (sent \cup {x}), NEW owed2 \in SUBSET (owed \ {y})
    PROVE  Room(sent2, owed2, cap)
<1>1. /\ Cardinality(sent) \in Nat /\ Cardinality(sent2) \in Nat
      /\ Cardinality(sent2) <= Cardinality(sent) + 1
    <2>1. /\ IsFiniteSet(sent \cup {x})
          /\ Cardinality(sent \cup {x})
               = IF x \in sent THEN Cardinality(sent) ELSE Cardinality(sent) + 1
        BY FS_AddElement
    <2>2. IsFiniteSet(sent2) /\ Cardinality(sent2) <= Cardinality(sent \cup {x})
        BY <2>1, FS_Subset
    <2>3. /\ Cardinality(sent) \in Nat /\ Cardinality(sent2) \in Nat
          /\ Cardinality(sent \cup {x}) \in Nat
        BY <2>1, <2>2, FS_CardinalityType
    <2>. QED  BY <2>1, <2>2, <2>3
<1>2. /\ Cardinality(owed) \in Nat /\ Cardinality(owed2) \in Nat
      /\ Cardinality(owed2) <= Cardinality(owed) - 1
    <2>1. IsFiniteSet(owed)
        BY FanOutBound
    <2>2. IsFiniteSet(owed \ {y}) /\ Cardinality(owed \ {y}) = Cardinality(owed) - 1
        BY <2>1, FS_RemoveElement
    <2>3. IsFiniteSet(owed2) /\ Cardinality(owed2) <= Cardinality(owed \ {y})
        BY <2>2, FS_Subset
    <2>4. Cardinality(owed) \in Nat /\ Cardinality(owed2) \in Nat
        BY <2>1, <2>3, FS_CardinalityType
    <2>. QED  BY <2>2, <2>3, <2>4
<1>3. Cardinality(sent) + Cardinality(owed) < cap + FanOut /\ FanOut \in Nat
    BY FanOutBound DEF Room
<1>. QED  BY <1>1, <1>2, <1>3 DEF Room

\* A decision finds the room for a whole fan-out of every run.
LEMMA RoomMade ==
    ASSUME NEW counted, IsFiniteSet(counted), NEW sent \in SUBSET counted,
           NEW cap \in Nat, Cardinality(counted) < cap,
           NEW owed \in SUBSET (Run \X Recipient)
    PROVE  Room(sent, owed, cap)
<1>1. IsFiniteSet(sent) /\ Cardinality(sent) <= Cardinality(counted)
    BY FS_Subset
<1>2. Cardinality(sent) \in Nat /\ Cardinality(counted) \in Nat
    BY <1>1, FS_CardinalityType
<1>3. Cardinality(owed) \in Nat /\ Cardinality(owed) <= FanOut /\ FanOut \in Nat
    BY FanOutBound
<1>. QED  BY <1>1, <1>2, <1>3 DEF Room

\* The types the caps' arithmetic needs.
LEMMA CapTypes ==
    ASSUME TypeOK
    PROVE  /\ now \in Nat /\ Hour \in Nat /\ Day \in Nat /\ HourCap \in Nat /\ DayCap \in Nat
           /\ \A r \in Run : base[r] \in Nat
           /\ \A i \in kept : i \in DOMAIN log /\ log[i] \in Row /\ log[i].ts \in Nat
           /\ \A rows \in SUBSET kept : IsFiniteSet(rows)
           /\ \A t : Owed(t) \in SUBSET (Run \X Recipient)
<1>1. /\ now \in Nat /\ Hour \in Nat /\ Day \in Nat /\ HourCap \in Nat /\ DayCap \in Nat
      /\ \A r \in Run : base[r] \in Nat
    BY AutonomyAssumption DEF AutonomyAssumption, TypeOK
<1>2. \A i \in kept : i \in DOMAIN log /\ log[i] \in Row
    BY DEF TypeOK
<1>3. \A i \in kept : log[i].ts \in Nat
    BY <1>2, AutonomyAssumption DEF AutonomyAssumption, Row
<1>4. ASSUME NEW rows \in SUBSET kept PROVE IsFiniteSet(rows)
    <2>1. DOMAIN log = 1..Len(log) /\ Len(log) \in Nat /\ rows \subseteq DOMAIN log
        BY DEF TypeOK
    <2>2. IsFiniteSet(1..Len(log))
        BY <2>1, FS_Interval
    <2>. QED  BY <2>1, <2>2, FS_Subset
<1>5. \A t : Owed(t) \in SUBSET (Run \X Recipient)
    BY DEF Owed
<1>. QED  BY <1>1, <1>2, <1>3, <1>4, <1>5

\* A step that stores nothing and decides nothing leaves the room there was.
LEMMA CapsUntouched ==
    ASSUME CapInv, log' = log, kept' \subseteq kept, now' >= now, now' \in Nat,
           \A r \in Run : base'[r] = base[r] \/ base'[r] = now \/ base'[r] = 0,
           \A r \in Run : Decided(r)' =>
               Decided(r) /\ todo'[r] \subseteq todo[r] /\ base'[r] = base[r]
    PROVE  BasesPassed' /\ RoomEverywhere'
<1>1. TypeOK
    BY DEF CapInv
<1>2. BasesPassed'
    <2>1. now \in Nat /\ \A r \in Run : base[r] \in Nat /\ base[r] <= now
        BY <1>1, CapTypes DEF CapInv, BasesPassed
    <2>. QED  BY <2>1 DEF BasesPassed
<1>3. ASSUME NEW t \in 0..MaxTime, NEW len, NEW cap \in Nat,
             Room(Autonomous(kept, t, len), Owed(t), cap)
      PROVE  Room(Autonomous(kept, t, len)', Owed(t)', cap)
    <2>1. Autonomous(kept, t, len)' \in SUBSET Autonomous(kept, t, len)
        BY DEF Autonomous
    <2>2. Owed(t)' \in SUBSET Owed(t)
        BY DEF Owed
    <2>3. IsFiniteSet(Autonomous(kept, t, len))
        BY <1>1, CapTypes DEF Autonomous
    <2>4. Owed(t) \in SUBSET (Run \X Recipient)
        BY DEF Owed
    <2>. QED  BY <1>3, <2>1, <2>2, <2>3, <2>4, RoomLeft
<1>4. RoomEverywhere'
    BY <1>1, <1>3, CapTypes DEF CapInv, RoomEverywhere
<1>. QED  BY <1>2, <1>4

\* A message stored at the present time: an autonomous one had its room.
LEMMA CapsStored ==
    ASSUME CapInv, NEW row \in Row, Append1(row), row.ts = now,
           now' = now, base' = base,
           \A r \in Run : Decided(r)' => Decided(r) /\ todo'[r] \subseteq todo[r],
           row.by = "daemon" => \E r \in Run, u \in Recipient :
               Decided(r) /\ u \in todo[r] /\ u \notin todo'[r]
    PROVE  BasesPassed' /\ RoomEverywhere'
<1>. DEFINE new == Len(log) + 1
<1>0. TypeOK /\ BasesPassed
    BY DEF CapInv
<1>1. /\ new \notin DOMAIN log
      /\ \A i \in DOMAIN log : log'[i] = log[i]
      /\ log'[new] = row
      /\ kept' = kept \cup {new}
    BY <1>0, Stored
<1>2. /\ now \in Nat /\ \A r \in Run : base[r] \in Nat /\ base[r] <= now
      /\ kept \subseteq DOMAIN log
    BY <1>0, CapTypes DEF BasesPassed
<1>3. BasesPassed'
    BY <1>2 DEF BasesPassed
<1>4. ASSUME NEW t \in 0..MaxTime, NEW len \in Nat, NEW cap \in Nat,
             Room(Autonomous(kept, t, len), Owed(t), cap)
      PROVE  Room(Autonomous(kept, t, len)', Owed(t)', cap)
    <2>. DEFINE sent == Autonomous(kept, t, len)
    <2>1. sent' \in SUBSET (sent \cup {new}) /\ (new \in sent' => row.by = "daemon" /\ now <= t)
        <3>1. sent' = {i \in kept' : log'[i].by = "daemon" /\ log'[i].ts \in (t - len)..t}
            BY DEF Autonomous
        <3>. QED  BY <1>1, <1>2, <3>1 DEF Autonomous
    <2>2. Owed(t)' \in SUBSET Owed(t)
        BY DEF Owed
    <2>3. IsFiniteSet(sent) /\ Owed(t) \in SUBSET (Run \X Recipient)
        BY <1>0, CapTypes DEF Autonomous
    <2>4. CASE new \in sent'
        <3>1. PICK r \in Run, u \in Recipient :
                  Decided(r) /\ u \in todo[r] /\ u \notin todo'[r]
            BY <2>1, <2>4
        <3>2. base[r] <= t
            BY <1>2, <2>1, <2>4
        <3>3. <<r, u>> \in Owed(t) /\ <<r, u>> \notin Owed(t)'
            BY <3>1, <3>2 DEF Owed
        <3>4. Owed(t)' \in SUBSET (Owed(t) \ {<<r, u>>})
            BY <2>2, <3>3
        <3>5. sent' \in SUBSET (sent \cup {new}) /\ IsFiniteSet(sent) /\ Room(sent, Owed(t), cap)
            BY <1>4, <2>1, <2>3
        <3>6. PICK p \in Owed(t) : Owed(t)' \in SUBSET (Owed(t) \ {p})
            BY <3>3, <3>4
        <3>. HIDE DEF sent, new
        <3>7. Room(sent', Owed(t)', cap)
            BY <2>3, <3>5, <3>6, RoomMoved
        <3>. QED  BY <3>7 DEF sent
    <2>5. CASE new \notin sent'
        <3>1. sent' \in SUBSET sent
            BY <2>1, <2>5
        <3>. QED  BY <1>4, <2>2, <2>3, <3>1, RoomLeft
    <2>. QED  BY <2>4, <2>5
<1>5. RoomEverywhere'
    BY <1>0, <1>4, CapTypes DEF CapInv, RoomEverywhere
<1>. QED  BY <1>3, <1>5

\* The window of a decision reaches back at least its length, when no clock was
\* put forward.
LEMMA SinceEarlier ==
    ASSUME TypeOK, NoSpring, NEW b \in Nat, NEW len \in Nat
    PROVE  Since(b, len) \in Int /\ Since(b, len) <= b - len
<1>1. shift \in Int /\ shift <= 0 /\ ChangeAt \in Nat
    BY AutonomyAssumption DEF AutonomyAssumption, TypeOK, NoSpring
<1>. QED  BY <1>1 DEF Since, Instant, Wall

\* What a decision at b counts includes every autonomous message of a window
\* that ends at b or later.
LEMMA CountedBefore ==
    ASSUME TypeOK, NoSpring, NEW b \in Nat, NEW len \in Nat, NEW t \in Nat, b <= t
    PROVE  /\ Autonomous(kept, t, len) \in SUBSET InitiatedSince(Since(b, len))
           /\ IsFiniteSet(InitiatedSince(Since(b, len)))
<1>1. Since(b, len) \in Int /\ Since(b, len) <= b - len
    BY SinceEarlier
<1>2. \A i \in kept : log[i].ts \in Nat
    BY CapTypes
<1>3. Autonomous(kept, t, len) \in SUBSET InitiatedSince(Since(b, len))
    BY <1>1, <1>2 DEF Autonomous, InitiatedSince
<1>4. IsFiniteSet(InitiatedSince(Since(b, len)))
    BY CapTypes DEF InitiatedSince
<1>. QED  BY <1>3, <1>4

\* A decision is only made where there is room, or by force.
LEMMA CapsSelected ==
    ASSUME CapInv, NoSpring, NEW r \in Run, Select(r), TypeOK'
    PROVE  BasesPassed' /\ RoomEverywhere'
<1>0. TypeOK /\ BasesPassed
    BY DEF CapInv
<1>1. PICK c \in agenda[r], us \in SUBSET Recipient :
          /\ forced[r] \/ Gates(c, base[r])
          /\ todo' = [todo EXCEPT ![r] = us]
    BY DEF Select
<1>2. UNCHANGED <<now, log, kept, base, forced>>
    BY DEF Select, store
<1>3. \A q \in Run : q # r => (Decided(q)' <=> Decided(q)) /\ todo'[q] = todo[q]
    BY <1>0, <1>1, <1>2 DEF Select, TypeOK, Decided
<1>4. BasesPassed'
    BY <1>0, <1>2 DEF BasesPassed
<1>5. ASSUME NEW t \in 0..MaxTime, NEW len \in Nat, NEW cap \in Nat,
             Room(Autonomous(kept, t, len), Owed(t), cap),
             ~forced[r] => Cardinality(InitiatedSince(Since(base[r], len))) < cap
      PROVE  Room(Autonomous(kept, t, len)', Owed(t)', cap)
    <2>1. Autonomous(kept, t, len)' = Autonomous(kept, t, len)
        BY <1>2 DEF Autonomous
    <2>2. Owed(t)' \in SUBSET (Run \X Recipient) /\ Owed(t) \in SUBSET (Run \X Recipient)
        BY DEF Owed
    <2>3. CASE ~forced[r] /\ base[r] <= t
        <3>1. base[r] \in Nat /\ t \in Nat
            BY <1>0, CapTypes, AutonomyAssumption DEF AutonomyAssumption
        <3>2. /\ Autonomous(kept, t, len) \in SUBSET InitiatedSince(Since(base[r], len))
              /\ IsFiniteSet(InitiatedSince(Since(base[r], len)))
            BY <1>0, <2>3, <3>1, CountedBefore
        <3>3. Cardinality(InitiatedSince(Since(base[r], len))) < cap
            BY <1>5, <2>3
        <3>4. Room(Autonomous(kept, t, len), Owed(t)', cap)
            BY <2>2, <3>2, <3>3, RoomMade
        <3>. QED  BY <2>1, <3>4
    <2>4. CASE forced[r] \/ ~(base[r] <= t)
        <3>1. Owed(t)' \in SUBSET Owed(t)
            BY <1>2, <1>3, <2>4 DEF Owed, Decided
        <3>2. IsFiniteSet(Autonomous(kept, t, len))
            BY <1>0, CapTypes DEF Autonomous
        <3>3. Room(Autonomous(kept, t, len), Owed(t)', cap)
            BY <1>5, <2>2, <3>1, <3>2, RoomLeft
        <3>. QED  BY <2>1, <3>3
    <2>. QED  BY <2>3, <2>4
<1>6. ~forced[r] => /\ Cardinality(InitiatedSince(Since(base[r], Hour))) < HourCap
                    /\ Cardinality(InitiatedSince(Since(base[r], Day))) < DayCap
    BY <1>1 DEF Gates
<1>7. RoomEverywhere'
    BY <1>0, <1>5, <1>6, CapTypes DEF CapInv, RoomEverywhere
<1>. QED  BY <1>4, <1>7

\* The messages of a rolling hour and of a rolling day exceed their caps by less
\* than one fan-out of every run, however the runs interleave with the model, the
\* users and the deletions of threads, unless the clock is put forward (run_once).
THEOREM CapsBounded == NoSpring => (Spec => []CapsOvershoot)
<1>. SUFFICES ASSUME NoSpring PROVE Spec => []CapsOvershoot
    OBVIOUS
<1>. USE AutonomyAssumption
<1>1. Init => CapInv
    <2>. SUFFICES ASSUME Init PROVE CapInv
        OBVIOUS
    <2>1. TypeOK
        BY DEF Init, TypeOK, AutonomyAssumption
    <2>2. BasesPassed
        BY DEF Init, BasesPassed
    <2>3. \A t, len : Autonomous(kept, t, len) = {}
        BY DEF Init, Autonomous
    <2>4. \A t : Owed(t) = {}
        BY DEF Init, Owed, Decided
    <2>5. RoomEverywhere
        BY <2>3, <2>4 DEF RoomEverywhere, Room
    <2>. QED  BY <2>1, <2>2, <2>5 DEF CapInv
<1>2. CapInv /\ TypeOK' /\ [Next]_vars => CapInv'
    <2>. SUFFICES ASSUME CapInv, TypeOK', [Next]_vars
                  PROVE  BasesPassed' /\ RoomEverywhere'
        BY DEF CapInv
    <2>0. TypeOK /\ now \in Nat /\ now + 1 \in Nat
        BY DEF CapInv, TypeOK, AutonomyAssumption
    <2>1. CASE Tick
        BY <2>0, <2>1, CapsUntouched DEF Tick, store, runs, Decided
    <2>2. CASE Write
        <3>1. PICK row \in Row : Append1(row) /\ row.by # "daemon" /\ row.ts = now
            BY <2>0, <2>2, WrittenRow
        <3>2. UNCHANGED <<now, base, forced, pc, todo>>
            BY <2>2 DEF Write, runs
        <3>. QED  BY <3>1, <3>2, CapsStored DEF Decided
    <2>3. CASE DeleteThread
        <3>1. kept' \subseteq kept /\ log' = log
            BY <2>3 DEF DeleteThread
        <3>2. UNCHANGED <<now, base, todo, forced, pc>>
            BY <2>3 DEF DeleteThread, runs
        <3>. QED  BY <2>0, <3>1, <3>2, CapsUntouched DEF Decided
    <2>4. ASSUME NEW r \in Run, Begin(r)
          PROVE  BasesPassed' /\ RoomEverywhere'
        <3>1. UNCHANGED <<now, log, kept, todo>>
            BY <2>4 DEF Begin, store
        <3>2. ASSUME NEW q \in Run
              PROVE  /\ base'[q] = IF q = r THEN now ELSE base[q]
                     /\ pc'[q] = IF q = r THEN "deciding" ELSE pc[q]
                     /\ q # r => forced'[q] = forced[q]
            BY <2>0, <2>4 DEF Begin, TypeOK
        <3>. QED  BY <2>0, <3>1, <3>2, CapsUntouched DEF Decided
    <2>5. ASSUME NEW r \in Run, Defer(r)
          PROVE  BasesPassed' /\ RoomEverywhere'
        BY <2>0, <2>5, CapsUntouched DEF Defer, Decided
    <2>6. ASSUME NEW r \in Run, Select(r)
          PROVE  BasesPassed' /\ RoomEverywhere'
        BY <2>6, CapsSelected
    <2>7. ASSUME NEW r \in Run, Ask(r)
          PROVE  BasesPassed' /\ RoomEverywhere'
        <3>1. \A q \in Run : Decided(q)' => Decided(q)
            BY <2>0, <2>7 DEF Ask, Decided, TypeOK
        <3>. QED  BY <2>0, <2>7, <3>1, CapsUntouched DEF Ask, store
    <2>8. ASSUME NEW r \in Run, Store(r)
          PROVE  BasesPassed' /\ RoomEverywhere'
        <3>1. PICK row \in Row, u \in todo[r] :
                  /\ Append1(row) /\ row.ts = now
                  /\ row.by = "daemon" => ~forced[r]
                  /\ u \in Recipient
                  /\ todo' = [todo EXCEPT ![r] = @ \ {u}]
            BY <2>0, <2>8, StoredRow
        <3>2. \A q \in Run : todo'[q] = IF q = r THEN todo[q] \ {u} ELSE todo[q]
            BY <2>0, <3>1 DEF TypeOK
        <3>3. row.by = "daemon" => Decided(r) /\ u \in todo[r] /\ u \notin todo'[r]
            <4>1. pc[r] = "generating"
                BY <2>8 DEF Store
            <4>2. u \notin todo'[r]
                BY <3>2
            <4>. QED  BY <3>1, <4>1, <4>2 DEF Decided
        <3>4. now' = now /\ base' = base
            BY <2>8 DEF Store
        <3>5. \A q \in Run : Decided(q)' => Decided(q)
            BY <2>0, <2>8 DEF Store, Decided, TypeOK
        <3>6. \A q \in Run : todo'[q] \subseteq todo[q]
            BY <3>2
        <3>. QED  BY <3>1, <3>3, <3>4, <3>5, <3>6, CapsStored
    <2>9. ASSUME NEW r \in Run, Published(r)
          PROVE  BasesPassed' /\ RoomEverywhere'
        <3>1. \A q \in Run : Decided(q)' => Decided(q)
            BY <2>0, <2>9 DEF Published, Decided, TypeOK
        <3>. QED  BY <2>0, <2>9, <3>1, CapsUntouched DEF Published, store
    <2>10. ASSUME NEW r \in Run, Complete(r) \/ Unavailable(r)
           PROVE  BasesPassed' /\ RoomEverywhere'
        <3>1. UNCHANGED <<now, log, kept, base, forced>>
            BY <2>10 DEF Complete, Unavailable
        <3>2. ASSUME NEW q \in Run
              PROVE  /\ pc'[q] = IF q = r THEN "deciding" ELSE pc[q]
                     /\ q # r => todo'[q] = todo[q]
            BY <2>0, <2>10 DEF Complete, Unavailable, TypeOK
        <3>. QED  BY <2>0, <3>1, <3>2, CapsUntouched DEF Decided
    <2>11. ASSUME NEW r \in Run, Return(r) \/ Interrupt(r)
           PROVE  BasesPassed' /\ RoomEverywhere'
        <3>1. UNCHANGED <<now, log, kept>>
            BY <2>11 DEF Return, Interrupt, Over, store
        <3>2. ASSUME NEW q \in Run
              PROVE  /\ q = r => pc'[q] \in {"idle", "interrupted"}
                     /\ q # r => pc'[q] = pc[q]
                     /\ base'[q] = IF q = r THEN 0 ELSE base[q]
                     /\ q # r => forced'[q] = forced[q] /\ todo'[q] = todo[q]
            BY <2>0, <2>11 DEF Return, Interrupt, Over, TypeOK
        <3>. QED  BY <2>0, <3>1, <3>2, CapsUntouched DEF Decided
    <2>12. CASE UNCHANGED vars
        BY <2>0, <2>12, CapsUntouched DEF vars, store, runs, Decided
    <2>. QED
        BY <2>1, <2>2, <2>3, <2>4, <2>5, <2>6, <2>7, <2>8, <2>9, <2>10, <2>11, <2>12
        DEF Next
<1>3. CapInv => CapsOvershoot
    <2>. SUFFICES ASSUME CapInv PROVE CapsOvershoot
        OBVIOUS
    <2>1. TypeOK
        BY DEF CapInv
    <2>2. ASSUME NEW t \in 0..MaxTime, NEW len \in Nat, NEW cap \in Nat,
                 Room(Autonomous(kept, t, len), Owed(t), cap),
                 Autonomous(kept, t, len) # {}
          PROVE  Cardinality(Autonomous(kept, t, len)) < cap + FanOut
        <3>1. IsFiniteSet(Autonomous(kept, t, len))
            BY <2>1, CapTypes DEF Autonomous
        <3>2. Owed(t) \in SUBSET (Run \X Recipient)
            BY DEF Owed
        <3>3. FanOut \in Nat /\ Cardinality(Owed(t)) \in Nat
            BY <3>2, FanOutBound
        <3>4. Cardinality(Autonomous(kept, t, len)) \in Nat
            BY <3>1, FS_CardinalityType
        <3>. QED  BY <2>2, <3>3, <3>4 DEF Room
    <2>. QED  BY <2>1, <2>2, CapTypes DEF CapInv, RoomEverywhere, CapsOvershoot, FanOut
<1>. QED  BY <1>1, <1>2, <1>3, TypeCorrect, PTL DEF Spec

-----------------------------------------------------------------------------
(* One run at a time *)

\* No manual run overlaps another run: the daemon is left to itself.
Alone == \A q, r \in Run : q = r

\* The rows of daemon_state are in order, and of no later time than the run there is.
StateInv ==
    /\ TypeOK
    /\ BasesPassed
    /\ \A c \in Character : initiated[c] <= checked[c] /\ checked[c] <= now
    /\ \A r \in Run : Running(r) => \A c \in Character : checked[c] <= base[r]

\* The step of daemon_state: nothing goes back, and what is written is the base of
\* the run, which is not earlier than what it replaces.
StateStep ==
    \A c \in Character :
        /\ checked'[c] >= checked[c] /\ initiated'[c] >= initiated[c]
        /\ initiated'[c] <= checked'[c]

\* A step that writes no row of daemon_state and starts no run.
LEMMA StateUntouched ==
    ASSUME StateInv, TypeOK', UNCHANGED <<checked, initiated>>, now' >= now,
           \A r \in Run : base'[r] = base[r] \/ base'[r] = 0,
           \A r \in Run : Running(r)' => Running(r) /\ base'[r] = base[r]
    PROVE  StateInv' /\ StateStep
<1>0. /\ now \in Nat /\ now' \in Nat
      /\ \A r \in Run : base[r] \in Nat
      /\ \A c \in Character : checked[c] \in Int /\ initiated[c] \in Int
    BY AutonomyAssumption DEF AutonomyAssumption, StateInv, TypeOK
<1>1. BasesPassed'
    BY <1>0 DEF StateInv, BasesPassed
<1>2. StateStep
    BY <1>0 DEF StateInv, StateStep
<1>3. \A c \in Character : initiated'[c] <= checked'[c] /\ checked'[c] <= now'
    BY <1>0 DEF StateInv
<1>4. \A r \in Run : Running(r)' => \A c \in Character : checked'[c] <= base'[r]
    BY DEF StateInv
<1>. QED  BY <1>1, <1>2, <1>3, <1>4 DEF StateInv

\* A run writes the row of one character: its base as checked, and as initiated
\* when it sent what it had decided to send.
LEMMA StateWritten ==
    ASSUME StateInv, TypeOK', Alone, NEW r \in Run, NEW d \in Character,
           Running(r), UNCHANGED <<now, base>>,
           checked' = [checked EXCEPT ![d] = base[r]],
           \/ initiated' = initiated
           \/ initiated' = [initiated EXCEPT ![d] = base[r]]
    PROVE  StateInv' /\ StateStep
<1>0. /\ now \in Nat /\ base[r] \in Nat /\ base[r] <= now
      /\ \A c \in Character : checked[c] \in Int /\ initiated[c] \in Int
    BY AutonomyAssumption DEF AutonomyAssumption, StateInv, TypeOK, BasesPassed
<1>1. \A c \in Character :
          /\ initiated[c] <= checked[c] /\ checked[c] <= base[r]
          /\ checked'[c] = IF c = d THEN base[r] ELSE checked[c]
          /\ initiated'[c] = initiated[c] \/ (c = d /\ initiated'[c] = base[r])
    BY DEF StateInv, TypeOK
<1>2. StateStep
    BY <1>0, <1>1 DEF StateStep
<1>3. \A c \in Character : initiated'[c] <= checked'[c] /\ checked'[c] <= now'
    BY <1>0, <1>1
<1>4. \A q \in Run : Running(q)' => \A c \in Character : checked'[c] <= base'[q]
    BY <1>0, <1>1 DEF Alone
<1>5. BasesPassed'
    BY DEF StateInv, BasesPassed
<1>. QED  BY <1>2, <1>3, <1>4, <1>5 DEF StateInv

\* daemon_state keeps its order in every step of a daemon left to itself.
LEMMA StateKept ==
    ASSUME StateInv, TypeOK', Alone, [Next]_vars
    PROVE  StateInv' /\ StateStep
<1>0. TypeOK /\ now \in Nat /\ now + 1 >= now
    BY AutonomyAssumption DEF AutonomyAssumption, StateInv, TypeOK
<1>1. CASE Tick \/ Write \/ DeleteThread \/ UNCHANGED vars
    BY <1>0, <1>1, StateUntouched DEF Tick, Write, DeleteThread, vars, store, runs
<1>2. ASSUME NEW r \in Run, Begin(r) PROVE StateInv' /\ StateStep
    <2>1. UNCHANGED <<now, checked, initiated>> /\ base' = [base EXCEPT ![r] = now]
        BY <1>2 DEF Begin, store
    <2>2. \A q \in Run : base'[q] = now
        BY <1>0, <2>1 DEF Alone, TypeOK
    <2>3. BasesPassed'
        BY <1>0, <2>1, <2>2 DEF BasesPassed
    <2>4. \A c \in Character : checked[c] \in Int /\ initiated[c] \in Int
        BY <1>0 DEF TypeOK
    <2>. QED  BY <1>0, <2>1, <2>2, <2>3, <2>4 DEF StateInv, StateStep
<1>3. ASSUME NEW r \in Run, Defer(r) PROVE StateInv' /\ StateStep
    <2>1. PICK c \in agenda[r] : checked' = [checked EXCEPT ![c] = base[r]]
        BY <1>3 DEF Defer
    <2>2. c \in Character
        BY <1>0 DEF TypeOK
    <2>3. Running(r) /\ UNCHANGED <<now, base, initiated>>
        BY <1>3 DEF Defer
    <2>. QED  BY <2>1, <2>2, <2>3, StateWritten
<1>4. ASSUME NEW r \in Run, Select(r) \/ Ask(r) \/ Store(r) \/ Published(r)
      PROVE  StateInv' /\ StateStep
    <2>1. UNCHANGED <<now, checked, initiated, base>>
        BY <1>4 DEF Select, Ask, Store, Published, store
    <2>2. \A q \in Run : Running(q)' => Running(q)
        BY <1>0, <1>4 DEF Select, Ask, Store, Published, TypeOK
    <2>. QED  BY <1>0, <2>1, <2>2, StateUntouched
<1>5. ASSUME NEW r \in Run, Complete(r) \/ Unavailable(r) PROVE StateInv' /\ StateStep
    <2>1. /\ Running(r) /\ UNCHANGED <<now, base>>
          /\ checked' = [checked EXCEPT ![current[r]] = base[r]]
          /\ \/ initiated' = initiated
             \/ initiated' = [initiated EXCEPT ![current[r]] = base[r]]
        BY <1>5 DEF Complete, Unavailable
    <2>2. current[r] \in Character
        BY <1>0, <1>5 DEF TypeOK, Complete, Unavailable
    <2>. QED  BY <2>1, <2>2, StateWritten
<1>6. ASSUME NEW r \in Run, Return(r) \/ Interrupt(r) PROVE StateInv' /\ StateStep
    <2>1. UNCHANGED <<now, checked, initiated>>
        BY <1>6 DEF Return, Interrupt, Over, store
    <2>2. ASSUME NEW q \in Run
          PROVE  /\ q = r => pc'[q] \in {"idle", "interrupted"}
                 /\ q # r => pc'[q] = pc[q]
                 /\ base'[q] = IF q = r THEN 0 ELSE base[q]
        BY <1>0, <1>6 DEF Return, Interrupt, Over, TypeOK
    <2>. QED  BY <1>0, <2>1, <2>2, StateUntouched
<1>. QED  BY <1>1, <1>2, <1>3, <1>4, <1>5, <1>6 DEF Next

\* A daemon left to itself never moves a row of daemon_state back, and no
\* initiative is recorded later than the check that made it (set_daemon_state).
THEOREM StateOnlyAdvances == Alone => (Spec => StateAdvances)
<1>. SUFFICES ASSUME Alone PROVE Spec => StateAdvances
    OBVIOUS
<1>1. Init => StateInv
    <2>. SUFFICES ASSUME Init PROVE StateInv
        OBVIOUS
    <2>1. TypeOK
        BY AutonomyAssumption DEF Init, TypeOK, AutonomyAssumption
    <2>. QED  BY <2>1 DEF Init, StateInv, BasesPassed
<1>2. StateInv /\ TypeOK' /\ [Next]_vars => StateInv' /\ StateStep
    BY StateKept
<1>3. StateStep => [\A c \in Character :
          /\ checked'[c] >= checked[c] /\ initiated'[c] >= initiated[c]
          /\ initiated'[c] <= checked'[c]]_vars
    BY DEF StateStep
<1>. QED  BY <1>1, <1>2, <1>3, TypeCorrect, PTL DEF Spec, StateAdvances

\* What a run of all the characters has left behind, it has recorded as checked.
CheckedSoFar ==
    \A r \in Run : Running(r) /\ ~forced[r] =>
        \A c \in Character \ (agenda[r] \cup {current[r]}) : checked[c] = base[r]

\* In the runs of a daemon left to itself no character is passed over (run_once).
LEMMA CheckedKept ==
    ASSUME TypeOK, CheckedSoFar, Alone, [Next]_vars
    PROVE  CheckedSoFar'
<1>. SUFFICES ASSUME NEW q \in Run, Running(q)', ~forced'[q],
                     NEW c \in Character, c \notin agenda'[q], c # current'[q]
              PROVE  checked'[c] = base'[q]
    BY DEF CheckedSoFar
<1>0. Running(q) /\ ~forced[q] /\ c \notin agenda[q] /\ c # current[q]
          => checked[c] = base[q]
    BY DEF CheckedSoFar
<1>1. CASE Tick \/ Write \/ DeleteThread \/ UNCHANGED vars
    BY <1>0, <1>1 DEF Tick, Write, DeleteThread, vars, store, runs
<1>2. CASE Begin(q)
    <2>1. agenda' = [agenda EXCEPT ![q] = Character] \/ forced' = [forced EXCEPT ![q] = TRUE]
        BY <1>2 DEF Begin
    <2>. QED  BY <2>1 DEF TypeOK
<1>3. CASE Defer(q)
    <2>1. PICK d \in agenda[q] : /\ checked' = [checked EXCEPT ![d] = base[q]]
                                 /\ agenda' = [agenda EXCEPT ![q] = @ \ {d}]
        BY <1>3 DEF Defer
    <2>2. UNCHANGED <<pc, base, forced, current>>
        BY <1>3 DEF Defer
    <2>3. d = c => checked'[c] = base[q]
        BY <2>1 DEF TypeOK
    <2>4. d # c => checked'[c] = checked[c] /\ c \notin agenda[q]
        BY <2>1 DEF TypeOK
    <2>. QED  BY <1>0, <2>2, <2>3, <2>4
<1>4. CASE Select(q)
    <2>1. PICK d \in agenda[q] : /\ agenda' = [agenda EXCEPT ![q] = @ \ {d}]
                                 /\ current' = [current EXCEPT ![q] = d]
        BY <1>4 DEF Select
    <2>2. pc[q] = "deciding" /\ UNCHANGED <<checked, base, forced>>
        BY <1>4 DEF Select, store
    <2>3. c \notin agenda[q] /\ c # current[q]
        BY <2>1, <2>2, AutonomyAssumption DEF TypeOK, AutonomyAssumption
    <2>. QED  BY <1>0, <2>2, <2>3
<1>5. CASE Ask(q) \/ Store(q) \/ Published(q)
    BY <1>0, <1>5 DEF Ask, Store, Published, store
<1>6. CASE Complete(q) \/ Unavailable(q)
    <2>1. /\ checked' = [checked EXCEPT ![current[q]] = base[q]]
          /\ Running(q) /\ UNCHANGED <<base, forced, agenda>>
        BY <1>6 DEF Complete, Unavailable
    <2>2. c = current[q] => checked'[c] = base[q]
        BY <2>1 DEF TypeOK
    <2>3. c # current[q] => checked'[c] = checked[c]
        BY <2>1 DEF TypeOK
    <2>. QED  BY <1>0, <2>1, <2>2, <2>3
<1>7. CASE Return(q) \/ Interrupt(q)
    BY <1>7 DEF Return, Interrupt, Over, TypeOK
<1>. QED
    BY <1>1, <1>2, <1>3, <1>4, <1>5, <1>6, <1>7 DEF Next, Alone

\* A run of a daemon left to itself that ends without being interrupted has recorded
\* every character as checked, also those whose model was unavailable (run_once).
THEOREM EveryoneChecked == Alone => (Spec => EveryCharacterChecked)
<1>. SUFFICES ASSUME Alone PROVE Spec => EveryCharacterChecked
    OBVIOUS
<1>. DEFINE EndsChecked ==
         \A r \in Run :
            Running(r) /\ pc'[r] = "idle" /\ ~forced[r] =>
                \A c \in Character : checked'[c] = base[r]
<1>1. Init => CheckedSoFar
    BY DEF Init, CheckedSoFar
<1>2. TypeOK /\ CheckedSoFar /\ [Next]_vars => CheckedSoFar'
    BY CheckedKept
<1>3. TypeOK /\ CheckedSoFar /\ [Next]_vars => [EndsChecked]_vars
    <2>. SUFFICES ASSUME TypeOK, CheckedSoFar, Next,
                         NEW r \in Run, Running(r), pc'[r] = "idle", ~forced[r],
                         NEW c \in Character
                  PROVE  checked'[c] = base[r]
        OBVIOUS
    <2>1. Return(r)
        <3>1. ASSUME NEW q \in Run, Begin(q) \/ Defer(q) \/ Select(q) \/ Ask(q) \/ Store(q)
                                    \/ Published(q) \/ Complete(q) \/ Unavailable(q)
              PROVE  FALSE
            BY <3>1 DEF Alone, TypeOK, Begin, Defer, Select, Ask, Store, Published,
               Complete, Unavailable
        <3>2. ASSUME NEW q \in Run, Interrupt(q) PROVE FALSE
            BY <3>2 DEF Alone, TypeOK, Interrupt, Over
        <3>3. ~(Tick \/ Write \/ DeleteThread)
            BY DEF Tick, Write, DeleteThread, runs
        <3>4. PICK q \in Run : Return(q)
            BY <3>1, <3>2, <3>3 DEF Next
        <3>. QED  BY <3>4 DEF Alone
    <2>2. agenda[r] = {} /\ current[r] = None /\ UNCHANGED checked
        BY <2>1 DEF Return, Over, store, TypeOK
    <2>. QED  BY <2>2, AutonomyAssumption DEF CheckedSoFar, AutonomyAssumption
<1>. QED  BY <1>1, <1>2, <1>3, TypeCorrect, PTL DEF Spec, EveryCharacterChecked

-----------------------------------------------------------------------------
(* Two initiatives of one character *)

\* An autonomous message of c.
Initiative(row, c) == row.by = "daemon" /\ row.character = c

\* Nothing is stored with a later time, nor is a run of a later time.
NothingLater == BasesPassed /\ \A i \in kept : log[i].ts <= now

\* A run writes for a character that it has taken off its list.
TakenOff == \A r \in Run : current[r] \notin agenda[r]

\* What a character on the list of a run has sent, it sent before the run began.
SentBefore ==
    \A r \in Run : Running(r) =>
        \A i \in kept, c \in agenda[r] : Initiative(log[i], c) => log[i].ts <= base[r]

\* What the character a run writes for has sent is a cooldown before the run began,
\* or the run sent it itself, to a recipient it will not write to again.
SentApart ==
    \A r \in Run : Decided(r) =>
        \A i \in kept : Initiative(log[i], current[r]) =>
            \/ base[r] - log[i].ts >= Cooldown
            \/ log[i].base = base[r] /\ log[i].user \notin todo[r]

ApartInv ==
    TypeOK /\ NothingLater /\ TakenOff /\ SentBefore /\ SentApart /\ InitiativesApart

ApartNext == NothingLater' /\ TakenOff' /\ SentBefore' /\ SentApart' /\ InitiativesApart'

\* Times of rows and runs are naturals.
LEMMA ApartTypes ==
    ASSUME TypeOK
    PROVE  /\ now \in Nat /\ Cooldown \in Nat
           /\ \A r \in Run : base[r] \in Nat
           /\ \A i \in kept : log[i] \in Row /\ log[i].ts \in Nat /\ i \in Nat
<1>1. now \in Nat /\ Cooldown \in Nat /\ \A r \in Run : base[r] \in Nat
    BY AutonomyAssumption DEF AutonomyAssumption, TypeOK
<1>2. ASSUME NEW i \in kept PROVE log[i] \in Row /\ log[i].ts \in Nat /\ i \in Nat
    <2>1. log[i] \in Row /\ i \in Nat
        BY DEF TypeOK
    <2>. QED  BY <2>1, AutonomyAssumption DEF AutonomyAssumption, Row
<1>. QED  BY <1>1, <1>2

\* A step that stores no message, starts no run and makes no decision.
LEMMA ApartUntouched ==
    ASSUME ApartInv, log' = log, kept' \subseteq kept, now' >= now, now' \in Nat,
           \A r \in Run : base'[r] = base[r] \/ base'[r] = 0,
           \A r \in Run : current'[r] \notin agenda'[r],
           \A r \in Run : Running(r)' =>
               Running(r) /\ base'[r] = base[r] /\ agenda'[r] \subseteq agenda[r],
           \A r \in Run : Decided(r)' =>
               /\ Decided(r) /\ current'[r] = current[r] /\ base'[r] = base[r]
               /\ todo'[r] \subseteq todo[r]
    PROVE  ApartNext
<1>1. NothingLater'
    BY ApartTypes DEF ApartInv, NothingLater, BasesPassed
<1>2. TakenOff'
    BY DEF TakenOff
<1>3. SentBefore'
    BY DEF ApartInv, SentBefore
<1>4. SentApart'
    BY DEF ApartInv, SentApart
<1>5. InitiativesApart'
    BY DEF ApartInv, InitiativesApart
<1>. QED  BY <1>1, <1>2, <1>3, <1>4, <1>5 DEF ApartNext

\* A run begins at the present time: whatever is stored is not later.
LEMMA ApartBegun ==
    ASSUME ApartInv, Alone, TypeOK', NEW r \in Run, Begin(r)
    PROVE  ApartNext
<1>0. TypeOK /\ TypeOK'
    BY DEF ApartInv
<1>1. UNCHANGED <<now, log, kept, current>> /\ base' = [base EXCEPT ![r] = now]
      /\ ~Running(r) /\ pc' = [pc EXCEPT ![r] = "deciding"]
    BY DEF Begin, store
<1>2. \A q \in Run : q = r /\ base'[q] = now /\ pc'[q] = "deciding" /\ current'[q] = None
    BY <1>0, <1>1 DEF Alone, TypeOK
<1>3. NothingLater'
    BY <1>0, <1>1, <1>2, ApartTypes DEF ApartInv, NothingLater, BasesPassed
<1>4. \A q \in Run : current'[q] \notin agenda'[q]
    BY <1>0, <1>2, AutonomyAssumption DEF TypeOK, AutonomyAssumption
<1>5. TakenOff'
    BY <1>4 DEF TakenOff
<1>6. SentBefore'
    BY <1>1, <1>2 DEF ApartInv, NothingLater, SentBefore
<1>7. SentApart'
    BY <1>2 DEF SentApart, Decided
<1>8. InitiativesApart'
    BY <1>1 DEF ApartInv, InitiativesApart
<1>. QED  BY <1>3, <1>5, <1>6, <1>7, <1>8 DEF ApartNext

\* A decision is made a cooldown after every message of the character, unless a
\* clock is put forward; its list held nothing that was sent since it began.
LEMMA ApartSelected ==
    ASSUME ApartInv, NoSpring, Alone, NEW r \in Run, Select(r)
    PROVE  ApartNext
<1>0. TypeOK
    BY DEF ApartInv
<1>1. PICK c \in agenda[r], us \in SUBSET Recipient :
          /\ forced[r] \/ Gates(c, base[r])
          /\ agenda' = [agenda EXCEPT ![r] = @ \ {c}]
          /\ current' = [current EXCEPT ![r] = c]
    BY DEF Select
<1>2. UNCHANGED <<now, log, kept, base, forced>> /\ pc[r] = "deciding"
    BY DEF Select, store
<1>3. \A q \in Run : /\ q = r /\ Running(q)
                     /\ agenda'[q] = agenda[q] \ {c} /\ current'[q] = c
    BY <1>0, <1>1, <1>2 DEF Alone, TypeOK
<1>4. NothingLater'
    BY <1>2 DEF ApartInv, NothingLater, BasesPassed
<1>5. TakenOff'
    BY <1>3 DEF TakenOff
<1>6. SentBefore'
    BY <1>2, <1>3 DEF ApartInv, SentBefore
<1>7. ASSUME NEW i \in kept, Initiative(log[i], c), ~forced[r]
      PROVE  base[r] - log[i].ts >= Cooldown
    <2>1. /\ shift \in Int /\ shift <= 0 /\ ChangeAt \in Nat
        BY <1>0, AutonomyAssumption DEF AutonomyAssumption, TypeOK, NoSpring
    <2>2. base[r] \in Nat /\ log[i].ts \in Nat /\ Cooldown \in Nat
        BY <1>0, ApartTypes
    <2>3. Wall(base[r]) - Wall(log[i].ts) >= Cooldown
        BY <1>1, <1>7 DEF Gates, CooledDown, Initiative
    <2>4. log[i].ts <= base[r]
        BY <1>2, <1>7 DEF ApartInv, SentBefore
    <2>. QED  BY <2>1, <2>2, <2>3, <2>4 DEF Wall
<1>8. SentApart'
    BY <1>2, <1>3, <1>7 DEF SentApart, Decided
<1>9. InitiativesApart'
    BY <1>2 DEF ApartInv, InitiativesApart
<1>. QED  BY <1>4, <1>5, <1>6, <1>8, <1>9 DEF ApartNext

\* A message is stored at the present time: an autonomous one by a run that had
\* decided to send it, to a recipient it takes off its list.
LEMMA ApartStored ==
    ASSUME ApartInv, Alone, NEW row \in Row, Append1(row), row.ts = now,
           UNCHANGED <<now, base, current, forced, agenda>>,
           \A r \in Run : (Running(r)') => Running(r),
           \A r \in Run : Decided(r)' => Decided(r) /\ todo'[r] \subseteq todo[r],
           row.by = "daemon" => \E r \in Run :
               /\ Decided(r) /\ row.character = current[r] /\ row.base = base[r]
               /\ row.user \in todo[r] /\ row.user \notin todo'[r]
    PROVE  ApartNext
<1>. DEFINE new == Len(log) + 1
<1>0. TypeOK /\ kept \subseteq DOMAIN log /\ log \in Seq(Row)
    BY DEF ApartInv, TypeOK
<1>1. /\ new \notin DOMAIN log
      /\ kept' = kept \cup {new} /\ log'[new] = row
      /\ \A i \in kept : log'[i] = log[i]
    BY <1>0, Stored
<1>2. \A i \in kept : i < new
    <2>1. DOMAIN log = 1..Len(log) /\ Len(log) \in Nat
        BY <1>0
    <2>. QED  BY <1>0, <2>1
<1>3. new \in Nat
    BY <1>0
<1>. HIDE DEF new
<1>4. NothingLater'
    BY <1>0, <1>1, ApartTypes DEF ApartInv, NothingLater, BasesPassed
<1>5. TakenOff'
    BY DEF ApartInv, TakenOff
<1>6. SentBefore'
    <2>. SUFFICES ASSUME NEW r \in Run, Running(r)', NEW i \in kept', NEW c \in agenda[r],
                         Initiative(log'[i], c)
                  PROVE  log'[i].ts <= base[r]
        BY DEF SentBefore
    <2>1. CASE i = new
        <3>1. current[r] = c
            BY <1>1, <2>1 DEF Initiative, Alone
        <3>. QED  BY <3>1 DEF ApartInv, TakenOff
    <2>2. CASE i # new
        BY <1>1, <2>2 DEF ApartInv, SentBefore
    <2>. QED  BY <2>1, <2>2
<1>7. SentApart'
    <2>. SUFFICES ASSUME NEW r \in Run, Decided(r)', NEW i \in kept',
                         Initiative(log'[i], current[r])
                  PROVE  \/ base[r] - log'[i].ts >= Cooldown
                         \/ log'[i].base = base[r] /\ log'[i].user \notin todo'[r]
        BY DEF SentApart
    <2>1. CASE i = new
        BY <1>1, <2>1 DEF Initiative, Alone
    <2>2. CASE i # new
        BY <1>1, <2>2 DEF ApartInv, SentApart
    <2>. QED  BY <2>1, <2>2
<1>8. InitiativesApart'
    <2>. SUFFICES ASSUME NEW i \in kept', NEW j \in kept', i < j,
                         log'[i].by = "daemon", log'[j].by = "daemon",
                         log'[i].character = log'[j].character
                  PROVE  \/ log'[j].ts - log'[i].ts >= Cooldown
                         \/ log'[i].base = log'[j].base /\ log'[i].user # log'[j].user
        BY DEF InitiativesApart
    <2>1. i \in kept /\ log'[i] = log[i]
        <3>1. i # new
            BY <1>0, <1>1, <1>2, <1>3, ApartTypes
        <3>. QED  BY <1>1, <3>1
    <2>2. CASE j = new
        <3>1. PICK r \in Run : /\ Decided(r) /\ row.character = current[r]
                               /\ row.base = base[r] /\ row.user \in todo[r]
            BY <1>1, <2>2
        <3>2. \/ base[r] - log[i].ts >= Cooldown
              \/ log[i].base = base[r] /\ log[i].user \notin todo[r]
            BY <1>1, <2>1, <2>2, <3>1 DEF ApartInv, SentApart, Initiative
        <3>3. /\ base[r] <= now /\ base[r] \in Nat /\ now \in Nat /\ Cooldown \in Nat
              /\ log[i].ts \in Nat
            BY <1>0, <2>1, ApartTypes DEF ApartInv, NothingLater, BasesPassed
        <3>4. log'[j] = row
            BY <1>1, <2>2
        <3>5. CASE base[r] - log[i].ts >= Cooldown
            BY <2>1, <3>3, <3>4, <3>5
        <3>6. CASE log[i].base = base[r] /\ log[i].user \notin todo[r]
            BY <2>1, <3>1, <3>4, <3>6
        <3>. QED  BY <3>2, <3>5, <3>6
    <2>3. CASE j # new
        BY <1>1, <2>1, <2>3 DEF ApartInv, InitiativesApart
    <2>. QED  BY <2>2, <2>3
<1>. QED  BY <1>4, <1>5, <1>6, <1>7, <1>8 DEF ApartNext

\* Unless the clock is put forward, two autonomous messages of a character are a
\* cooldown apart, or come of one decision and go to two recipients, for a daemon
\* left to itself, whatever is written, deleted and abandoned in between (run_once).
THEOREM OneInitiativePerCooldown == NoSpring /\ Alone => (Spec => []InitiativesApart)
<1>. SUFFICES ASSUME NoSpring, Alone PROVE Spec => []InitiativesApart
    OBVIOUS
<1>1. Init => ApartInv
    <2>. SUFFICES ASSUME Init PROVE ApartInv
        OBVIOUS
    <2>1. TypeOK
        BY AutonomyAssumption DEF Init, TypeOK, AutonomyAssumption
    <2>. QED
        BY <2>1 DEF Init, ApartInv, NothingLater, BasesPassed, TakenOff, SentBefore,
                    SentApart, InitiativesApart
<1>2. ApartInv /\ TypeOK' /\ [Next]_vars => ApartInv'
    <2>. SUFFICES ASSUME ApartInv, TypeOK', [Next]_vars PROVE ApartNext
        BY DEF ApartInv, ApartNext
    <2>0. TypeOK /\ now \in Nat /\ now + 1 \in Nat /\ TakenOff
        BY ApartTypes DEF ApartInv
    <2>1. CASE Tick \/ UNCHANGED vars
        <3>1. UNCHANGED <<log, kept, base, pc, forced, agenda, current, todo>>
              /\ (now' = now \/ now' = now + 1)
            BY <2>1 DEF Tick, vars, store, runs
        <3>. QED  BY <2>0, <3>1, ApartUntouched DEF Decided, TakenOff
    <2>2. CASE Write
        <3>1. PICK row \in Row : Append1(row) /\ row.by # "daemon" /\ row.ts = now
            BY <2>0, <2>2, WrittenRow
        <3>2. UNCHANGED <<now, base, current, forced, pc, agenda, todo>>
            BY <2>2 DEF Write, runs
        <3>. QED  BY <3>1, <3>2, ApartStored DEF Decided
    <2>3. CASE DeleteThread
        <3>1. kept' \subseteq kept /\ log' = log
            BY <2>3 DEF DeleteThread
        <3>2. UNCHANGED <<now, base, current, forced, pc, agenda, todo>>
            BY <2>3 DEF DeleteThread, runs
        <3>. QED  BY <2>0, <3>1, <3>2, ApartUntouched DEF Decided, TakenOff
    <2>4. ASSUME NEW r \in Run, Begin(r) PROVE ApartNext
        BY <2>4, ApartBegun
    <2>5. ASSUME NEW r \in Run, Defer(r) PROVE ApartNext
        <3>1. UNCHANGED <<now, log, kept, base, current, forced, pc, todo>>
            BY <2>5 DEF Defer
        <3>2. \A q \in Run : agenda'[q] \subseteq agenda[q]
            BY <2>0, <2>5 DEF Defer, TypeOK
        <3>. QED  BY <2>0, <3>1, <3>2, ApartUntouched DEF Decided, TakenOff
    <2>6. ASSUME NEW r \in Run, Select(r) PROVE ApartNext
        BY <2>6, ApartSelected
    <2>7. ASSUME NEW r \in Run, Ask(r) \/ Published(r) PROVE ApartNext
        <3>1. UNCHANGED <<now, log, kept, base, current, forced, agenda, todo>>
            BY <2>7 DEF Ask, Published, store
        <3>2. \A q \in Run : (Decided(q)' => Decided(q)) /\ (Running(q)' => Running(q))
            BY <2>0, <2>7 DEF Ask, Published, Decided, TypeOK
        <3>. QED  BY <2>0, <3>1, <3>2, ApartUntouched DEF TakenOff
    <2>8. ASSUME NEW r \in Run, Store(r) PROVE ApartNext
        <3>1. PICK row \in Row :
                  /\ Append1(row) /\ row.ts = now
                  /\ row.by = "daemon" => ~forced[r]
                  /\ row.character = current[r] /\ row.base = base[r]
                  /\ row.user \in todo[r]
                  /\ todo' = [todo EXCEPT ![r] = @ \ {row.user}]
            BY <2>0, <2>8, StoredRow
        <3>2. UNCHANGED <<now, base, current, forced, agenda>> /\ pc[r] = "generating"
            BY <2>8 DEF Store
        <3>3. \A q \in Run : todo'[q] = IF q = r THEN todo[q] \ {row.user} ELSE todo[q]
            BY <2>0, <3>1 DEF TypeOK
        <3>4. \A q \in Run : (Decided(q)' => Decided(q)) /\ (Running(q)' => Running(q))
            BY <2>0, <2>8 DEF Store, Decided, TypeOK
        <3>5. row.by = "daemon" => /\ Decided(r) /\ row.character = current[r]
                                   /\ row.base = base[r] /\ row.user \in todo[r]
                                   /\ row.user \notin todo'[r]
            BY <3>1, <3>2, <3>3 DEF Decided
        <3>6. \A q \in Run : todo'[q] \subseteq todo[q]
            BY <3>3
        <3>. QED  BY <3>1, <3>2, <3>4, <3>5, <3>6, ApartStored
    <2>9. ASSUME NEW r \in Run, Complete(r) \/ Unavailable(r) PROVE ApartNext
        <3>1. UNCHANGED <<now, log, kept, base, forced, agenda>> /\ Running(r)
            BY <2>9 DEF Complete, Unavailable
        <3>2. \A q \in Run : q = r /\ pc'[q] = "deciding" /\ current'[q] = None
            BY <2>0, <2>9 DEF Complete, Unavailable, TypeOK, Alone
        <3>3. \A q \in Run : current'[q] \notin agenda'[q]
            BY <2>0, <3>1, <3>2, AutonomyAssumption DEF TypeOK, AutonomyAssumption
        <3>4. \A q \in Run : ~Decided(q)'
            BY <3>2 DEF Decided
        <3>. QED  BY <2>0, <3>1, <3>2, <3>3, <3>4, ApartUntouched
    <2>10. ASSUME NEW r \in Run, Return(r) \/ Interrupt(r) PROVE ApartNext
        <3>1. UNCHANGED <<now, log, kept>>
            BY <2>10 DEF Return, Interrupt, Over, store
        <3>2. ASSUME NEW q \in Run
              PROVE  ~Running(q)' /\ base'[q] = 0 /\ agenda'[q] = {}
            BY <2>0, <2>10 DEF Return, Interrupt, Over, TypeOK, Alone
        <3>. QED  BY <2>0, <3>1, <3>2, ApartUntouched DEF Decided
    <2>. QED
        BY <2>1, <2>2, <2>3, <2>4, <2>5, <2>6, <2>7, <2>8, <2>9, <2>10 DEF Next
<1>3. ApartInv => InitiativesApart
    BY DEF ApartInv
<1>. QED  BY <1>1, <1>2, <1>3, TypeCorrect, PTL DEF Spec

=============================================================================
