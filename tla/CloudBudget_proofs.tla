------------------------- MODULE CloudBudget_proofs -------------------------
(***************************************************************************)
(* What is proved of CloudBudget for every set of requests, every clock    *)
(* bound, every window length and every set of limits.                     *)
(***************************************************************************)
EXTENDS CloudBudget, FiniteSetTheorems, WellFoundedInduction, TLAPS

-----------------------------------------------------------------------------
(* The ledger after an insertion and after an update *)

\* A window's start never moves back when its end moves forward.
LEMMA BackMonotone ==
    ASSUME NEW s \in Nat, NEW t \in Nat, NEW w \in Nat, s <= t
    PROVE  Back(s, w) <= Back(t, w)
BY DEF Back

LEMMA BackType ==
    ASSUME NEW s \in Nat, NEW w \in Nat
    PROVE  Back(s, w) \in Nat
BY DEF Back

\* What a call carries.
LEMMA CallType ==
    ASSUME BudgetAssumption, TypeOK, NEW r \in Request
    PROVE  /\ call[r].kind \in {"chat", "image"}
           /\ call[r].prompt \in Nat
           /\ call[r].dry \in BOOLEAN
<1>1. call[r] \in Call
    BY DEF TypeOK
<1>2. Prompts \cup {0} \subseteq Nat
    BY DEF BudgetAssumption
<1>. QED  BY <1>1, <1>2 DEF Call

\* The row a request reserves is a row.
LEMMA ReservationType ==
    ASSUME BudgetAssumption, TypeOK, NEW r \in Request
    PROVE  Reservation(r) \in Row
<1>1. call[r].prompt \in Nat /\ Allowance(r) \in Nat
    BY CallType DEF BudgetAssumption, Allowance
<1>2. Price(call[r].prompt, Allowance(r)) \in Nat
    BY <1>1 DEF Price
<1>3. stamp[r] \in Nat
    BY DEF BudgetAssumption, TypeOK
<1>. QED  BY <1>1, <1>2, <1>3, CallType DEF Reservation, Row

\* Appending a row keeps the rows there are and adds one index.
LEMMA Appended ==
    ASSUME ledger \in Seq(Row), NEW new \in Row, ledger' = Append(ledger, new)
    PROVE  /\ ledger' \in Seq(Row)
           /\ DOMAIN ledger' = DOMAIN ledger \cup {Len(ledger) + 1}
           /\ Len(ledger) + 1 \notin DOMAIN ledger
           /\ \A i \in DOMAIN ledger : ledger'[i] = ledger[i]
           /\ ledger'[Len(ledger) + 1] = new
OBVIOUS

\* An update changes neither the rows' number nor their timestamps nor kinds.
LEMMA Updated ==
    ASSUME ledger \in Seq(Row), NEW r \in Request,
           NEW input \in Nat, NEW output \in Nat, NEW cost \in Nat,
           Observed(r, input, output, cost)
    PROVE  /\ ledger' \in Seq(Row)
           /\ DOMAIN ledger' = DOMAIN ledger
           /\ \A i \in DOMAIN ledger :
                /\ ledger'[i].ts = ledger[i].ts
                /\ ledger'[i].kind = ledger[i].kind
                /\ i # row[r] => ledger'[i] = ledger[i]
<1>1. DOMAIN ledger' = DOMAIN ledger
    BY DEF Observed
<1>2. ASSUME NEW i \in DOMAIN ledger
      PROVE  /\ ledger'[i] \in Row
             /\ ledger'[i].ts = ledger[i].ts
             /\ ledger'[i].kind = ledger[i].kind
             /\ i # row[r] => ledger'[i] = ledger[i]
    <2>1. ledger[i] \in Row
        OBVIOUS
    <2>2. CASE i = row[r]
        BY <2>1, <2>2 DEF Observed, Row
    <2>3. CASE i # row[r]
        BY <2>1, <2>3 DEF Observed
    <2>. QED  BY <2>2, <2>3
<1>3. ledger' \in Seq(Row)
    <2>1. DOMAIN ledger' = 1..Len(ledger) /\ Len(ledger) \in Nat
        BY <1>1
    <2>2. ledger' = [i \in 1..Len(ledger) |-> ledger'[i]]
        BY <2>1 DEF Observed
    <2>. QED  BY <1>2, <2>1, <2>2
<1>. QED  BY <1>1, <1>2, <1>3

\* Prices are natural numbers.
LEMMA PriceType ==
    ASSUME NEW input \in Nat, NEW output \in Nat
    PROVE  Price(input, output) \in Nat
BY DEF Price

-----------------------------------------------------------------------------
(* Type correctness *)

\* The ledger stays a sequence of rows and every request in a known state,
\* whatever the interleaving of reserve_cloud, update_usage_log and crashes.
THEOREM TypeCorrect == Spec => []TypeOK
<1>. USE BudgetAssumption
<1>1. Init => TypeOK
    BY DEF Init, TypeOK, BudgetAssumption, Call
<1>2. TypeOK /\ [Next]_vars => TypeOK'
    <2>. SUFFICES ASSUME TypeOK, [Next]_vars PROVE TypeOK'
        OBVIOUS
    <2>1. CASE Tick
        BY <2>1 DEF Tick, TypeOK, BudgetAssumption
    <2>2. CASE UpdateLimits
        BY <2>2 DEF UpdateLimits, TypeOK
    <2>3. CASE Crash
        BY <2>3 DEF Crash, TypeOK
    <2>4. ASSUME NEW r \in Request, ReadLimits(r) PROVE TypeOK'
        <3>1. call[r] \in Call /\ call \in [Request -> Call]
            BY DEF TypeOK
        <3>2. ASSUME NEW p \in Prompts PROVE [call[r] EXCEPT !.prompt = p] \in Call
            BY <3>1 DEF Call
        <3>3. ASSUME NEW d \in BOOLEAN PROVE [call[r] EXCEPT !.dry = d] \in Call
            BY <3>1 DEF Call
        <3>4. {call[r].dry, TRUE} \subseteq BOOLEAN
            BY <3>1 DEF Call
        <3>5. call' \in [Request -> Call]
            BY <2>4, <3>1, <3>2, <3>3, <3>4 DEF ReadLimits
        <3>. QED  BY <2>4, <3>5 DEF ReadLimits, TypeOK
    <2>5. ASSUME NEW r \in Request, TakeStamp(r) PROVE TypeOK'
        BY <2>5 DEF TakeStamp, TypeOK
    <2>6. ASSUME NEW r \in Request, Reserve(r) PROVE TypeOK'
        <3>1. ledger' \in Seq(Row)
            BY <2>6, ReservationType, Appended DEF Reserve, TypeOK
        <3>. QED  BY <2>6, <3>1 DEF Reserve, TypeOK
    <2>7. ASSUME NEW r \in Request, Refuse(r) PROVE TypeOK'
        BY <2>7 DEF Refuse, TypeOK
    <2>8. ASSUME NEW r \in Request, DryRun(r) PROVE TypeOK'
        <3>1. call[r].prompt \in Nat /\ DryRunAnswer \in Nat
            BY CallType DEF BudgetAssumption
        <3>2. ledger' \in Seq(Row)
            BY <2>8, <3>1, Updated DEF DryRun, TypeOK
        <3>. QED  BY <2>8, <3>2 DEF DryRun, TypeOK
    <2>9. ASSUME NEW r \in Request, Settle(r) PROVE TypeOK'
        <3>1. PICK input \in Prompts, output \in Answers :
                 Observed(r, input, output, Price(input, output))
            BY <2>9 DEF Settle
        <3>2. input \in Nat /\ output \in Nat /\ Price(input, output) \in Nat
            BY PriceType DEF BudgetAssumption
        <3>3. ledger' \in Seq(Row)
            BY <3>1, <3>2, Updated DEF TypeOK
        <3>. QED  BY <2>9, <3>3 DEF Settle, TypeOK
    <2>10. ASSUME NEW r \in Request, Fail(r) PROVE TypeOK'
        BY <2>10 DEF Fail, TypeOK
    <2>11. CASE UNCHANGED vars
        BY <2>11 DEF vars, TypeOK
    <2>. QED
        BY <2>1, <2>2, <2>3, <2>4, <2>5, <2>6, <2>7, <2>8, <2>9, <2>10, <2>11 DEF Next
<1>. QED  BY <1>1, <1>2, PTL DEF Spec
-----------------------------------------------------------------------------
(* Rolling windows *)

\* The limits a request read, and the limits in force, are among those that
\* have been in force.
LimitsKnown == limits \in inForce /\ \A r \in Request : read[r] \in inForce

WindowInv == TypeOK /\ LimitsKnown /\ RequestWindows /\ ImageWindows

\* A set counted below n has at most n elements with one more.
LEMMA OneMore ==
    ASSUME NEW R, IsFiniteSet(R), NEW W, W \subseteq R, NEW x,
           NEW n \in Nat, Cardinality(R) < n
    PROVE  Cardinality(W \cup {x}) <= n
<1>1. IsFiniteSet(W) /\ Cardinality(W) <= Cardinality(R)
    BY FS_Subset
<1>2. Cardinality(W) \in Nat /\ Cardinality(R) \in Nat
    BY <1>1, FS_CardinalityType
<1>3. Cardinality(W \cup {x}) <= Cardinality(W) + 1
    <2>1. Cardinality(W \cup {x}) = IF x \in W THEN Cardinality(W) ELSE Cardinality(W) + 1
        BY <1>1, FS_AddElement, Zenon
    <2>. QED  BY <1>2, <2>1
<1>. QED
    <2>1. Cardinality(W \cup {x}) \in Nat
        BY <1>1, FS_AddElement, FS_CardinalityType
    <2>. QED  BY <1>1, <1>2, <1>3, <2>1

\* What a window's count has below it: the rows counted by reserve_cloud for a
\* request stamped inside the window include the rows of the window.
LEMMA CountedCoversWindow ==
    ASSUME TypeOK, BudgetAssumption, NEW t \in Nat, NEW len \in Nat, NEW s \in Nat,
           s <= t
    PROVE  /\ Window(t, len) \subseteq RowsSince(Back(s, len))
           /\ IsFiniteSet(RowsSince(Back(s, len)))
<1>1. Back(s, len) <= Back(t, len) /\ Back(s, len) \in Nat /\ Back(t, len) \in Nat
    BY BackMonotone, BackType
<1>2. \A i \in DOMAIN ledger : ledger[i].ts \in Nat
    <2>1. \A i \in DOMAIN ledger : ledger[i] \in Row
        BY DEF TypeOK
    <2>. QED  BY <2>1 DEF Row
<1>3. Window(t, len) \subseteq RowsSince(Back(s, len))
    BY <1>1, <1>2 DEF Window, RowsSince
<1>4. IsFiniteSet(DOMAIN ledger)
    <2>1. DOMAIN ledger = 1..Len(ledger) /\ Len(ledger) \in Nat
        BY DEF TypeOK
    <2>. QED  BY <2>1, FS_Interval
<1>5. RowsSince(Back(s, len)) \subseteq DOMAIN ledger
    BY DEF RowsSince
<1>. QED  BY <1>3, <1>4, <1>5, FS_Subset

\* A committed reservation enters the windows that hold its timestamp.
LEMMA WindowAfterReserve ==
    ASSUME TypeOK, BudgetAssumption, NEW r \in Request, Reserve(r),
           NEW t \in Nat, NEW len \in Nat
    PROVE  /\ \A i \in DOMAIN ledger :
                  (i \in Window(t, len)' <=> i \in Window(t, len)) /\ ledger'[i] = ledger[i]
           /\ Window(t, len) \subseteq DOMAIN ledger
           /\ Window(t, len)' \subseteq DOMAIN ledger \cup {Len(ledger) + 1}
           /\ Len(ledger) + 1 \in Window(t, len)' => stamp[r] <= t
           /\ ledger'[Len(ledger) + 1].kind = call[r].kind
<1>1. Reservation(r) \in Row /\ ledger \in Seq(Row) /\ ledger' = Append(ledger, Reservation(r))
    BY ReservationType DEF Reserve, TypeOK
<1>2. /\ DOMAIN ledger' = DOMAIN ledger \cup {Len(ledger) + 1}
      /\ \A i \in DOMAIN ledger : ledger'[i] = ledger[i]
      /\ ledger'[Len(ledger) + 1] = Reservation(r)
    BY <1>1, Appended
<1>3. Back(t, len) \in Nat
    BY BackType
<1>4. stamp[r] \in Nat
    BY DEF TypeOK, BudgetAssumption
<1>. QED  BY <1>2, <1>3, <1>4 DEF Window, Reservation

\* The request counters after a commit.
LEMMA RequestsAfterReserve ==
    ASSUME WindowInv, BudgetAssumption, NEW r \in Request, Reserve(r),
           NEW t \in 0..MaxTime
    PROVE  /\ \E l \in inForce : Cardinality(Window(t, Hour)') <= l.hour
           /\ \E l \in inForce : Cardinality(Window(t, Day)') <= l.day
<1>1. t \in Nat /\ Hour \in Nat /\ Day \in Nat /\ stamp[r] \in Nat
    BY DEF BudgetAssumption, WindowInv, TypeOK
<1>2. read[r] \in inForce /\ read[r].hour \in Nat /\ read[r].day \in Nat
    BY DEF WindowInv, LimitsKnown, TypeOK, BudgetAssumption, Limits
<1>3. /\ Cardinality(RowsSince(Back(stamp[r], Hour))) < read[r].hour
      /\ Cardinality(RowsSince(Back(stamp[r], Day))) < read[r].day
    BY DEF Reserve, Fits
<1>4. ASSUME NEW len \in Nat
      PROVE  /\ \A i \in DOMAIN ledger : i \in Window(t, len)' <=> i \in Window(t, len)
             /\ Window(t, len) \subseteq DOMAIN ledger
             /\ Window(t, len)' \subseteq DOMAIN ledger \cup {Len(ledger) + 1}
             /\ Len(ledger) + 1 \in Window(t, len)' => stamp[r] <= t
    BY <1>1, WindowAfterReserve DEF WindowInv
<1>5. ASSUME NEW len \in Nat, NEW n \in Nat, Cardinality(RowsSince(Back(stamp[r], len))) < n,
             Len(ledger) + 1 \in Window(t, len)'
      PROVE  Cardinality(Window(t, len)') <= n
    <2>1. stamp[r] <= t /\ Window(t, len)' = Window(t, len) \cup {Len(ledger) + 1}
        BY <1>1, <1>5, <1>4
    <2>2. Window(t, len) \subseteq RowsSince(Back(stamp[r], len))
          /\ IsFiniteSet(RowsSince(Back(stamp[r], len)))
        BY <1>1, <2>1, CountedCoversWindow DEF WindowInv
    <2>. QED  BY <1>5, <2>1, <2>2, OneMore
<1>6. ASSUME NEW len \in Nat, Len(ledger) + 1 \notin Window(t, len)'
      PROVE  Window(t, len)' = Window(t, len)
    BY <1>1, <1>6, <1>4
<1>7. \E l \in inForce : Cardinality(Window(t, Hour)') <= l.hour
    BY <1>1, <1>2, <1>3, <1>5, <1>6 DEF WindowInv, RequestWindows
<1>8. \E l \in inForce : Cardinality(Window(t, Day)') <= l.day
    BY <1>1, <1>2, <1>3, <1>5, <1>6 DEF WindowInv, RequestWindows
<1>. QED  BY <1>7, <1>8

\* The image counter after a commit.
LEMMA ImagesAfterReserve ==
    ASSUME WindowInv, BudgetAssumption, NEW r \in Request, Reserve(r),
           NEW t \in 0..MaxTime
    PROVE  \E l \in inForce :
              Cardinality({i \in Window(t, Day) : ledger[i].kind = "image"}') <= l.image
<1>. DEFINE W == {i \in Window(t, Day) : ledger[i].kind = "image"}
            new == Len(ledger) + 1
<1>1. t \in Nat /\ Day \in Nat /\ stamp[r] \in Nat
    BY DEF BudgetAssumption, WindowInv, TypeOK
<1>2. read[r] \in inForce /\ read[r].image \in Nat
    BY DEF WindowInv, LimitsKnown, TypeOK, BudgetAssumption, Limits
<1>3. /\ \A i \in DOMAIN ledger : /\ i \in Window(t, Day)' <=> i \in Window(t, Day)
                                  /\ ledger'[i] = ledger[i]
      /\ Window(t, Day) \subseteq DOMAIN ledger
      /\ Window(t, Day)' \subseteq DOMAIN ledger \cup {new}
      /\ new \in Window(t, Day)' => stamp[r] <= t
      /\ ledger'[new].kind = call[r].kind
    BY <1>1, WindowAfterReserve DEF WindowInv
<1>4. W' = {i \in Window(t, Day)' : ledger'[i].kind = "image"}
    OBVIOUS
<1>5. CASE new \in W'
    <2>1. call[r].kind = "image" /\ stamp[r] <= t
        BY <1>3, <1>4, <1>5
    <2>2. Cardinality(ImagesSince(Back(stamp[r], Day))) < read[r].image
        BY <2>1 DEF Reserve, Fits
    <2>3. /\ Window(t, Day) \subseteq RowsSince(Back(stamp[r], Day))
          /\ IsFiniteSet(RowsSince(Back(stamp[r], Day)))
        BY <1>1, <2>1, CountedCoversWindow DEF WindowInv
    <2>4. W \subseteq ImagesSince(Back(stamp[r], Day))
        BY <2>3 DEF ImagesSince
    <2>5. IsFiniteSet(ImagesSince(Back(stamp[r], Day)))
        <3>1. ImagesSince(Back(stamp[r], Day)) \subseteq RowsSince(Back(stamp[r], Day))
            BY DEF ImagesSince
        <3>. QED  BY <2>3, <3>1, FS_Subset
    <2>6. W' = W \cup {new}
        BY <1>3, <1>4, <1>5
    <2>7. Cardinality(W') <= read[r].image
        BY <1>2, <2>2, <2>4, <2>5, <2>6, OneMore
    <2>. QED  BY <1>2, <2>7
<1>6. CASE new \notin W'
    <2>1. W' = W
        BY <1>3, <1>4, <1>6
    <2>. QED  BY <2>1 DEF WindowInv, ImageWindows
<1>. QED  BY <1>5, <1>6

\* A step that moves no timestamp and forgets no limit keeps the windows.
LEMMA SameWindows ==
    ASSUME RequestWindows, ImageWindows, inForce \subseteq inForce',
           DOMAIN ledger' = DOMAIN ledger,
           \A i \in DOMAIN ledger : /\ ledger'[i].ts = ledger[i].ts
                                   /\ ledger'[i].kind = ledger[i].kind
    PROVE  RequestWindows' /\ ImageWindows'
<1>1. ASSUME NEW t, NEW len
      PROVE  Window(t, len)' = Window(t, len)
    BY DEF Window
<1>2. ASSUME NEW t, NEW len
      PROVE  {i \in Window(t, len) : ledger[i].kind = "image"}'
                = {i \in Window(t, len) : ledger[i].kind = "image"}
    <2>1. Window(t, len) \subseteq DOMAIN ledger
        BY DEF Window
    <2>. QED  BY <1>1, <2>1
<1>3. RequestWindows'
    BY <1>1 DEF RequestWindows
<1>4. ImageWindows'
    BY <1>2 DEF ImageWindows
<1>. QED  BY <1>3, <1>4

\* The windows stay within limits that have been in force.
LEMMA WindowsKept == Spec => []WindowInv
<1>. USE BudgetAssumption
<1>1. Init => WindowInv
    <2>. SUFFICES ASSUME Init PROVE WindowInv
        OBVIOUS
    <2>1. TypeOK
        BY DEF Init, TypeOK, BudgetAssumption, Call
    <2>2. LimitsKnown
        BY DEF Init, LimitsKnown
    <2>3. \A t, len : Window(t, len) = {}
        BY DEF Init, Window
    <2>4. limits.hour \in Nat /\ limits.day \in Nat /\ limits.image \in Nat
        BY <2>1 DEF TypeOK, BudgetAssumption, Limits
    <2>5. Cardinality({}) = 0
        BY FS_EmptySet
    <2>6. RequestWindows
        BY <2>2, <2>3, <2>4, <2>5 DEF RequestWindows, LimitsKnown
    <2>7. ImageWindows
        <3>1. \A t \in 0..MaxTime : {i \in Window(t, Day) : ledger[i].kind = "image"} = {}
            BY <2>3
        <3>2. limits \in inForce /\ 0 <= limits.image
            BY <2>2, <2>4 DEF LimitsKnown
        <3>3. \A t \in 0..MaxTime :
                  Cardinality({i \in Window(t, Day) : ledger[i].kind = "image"}) <= limits.image
            BY <2>5, <3>1, <3>2
        <3>. QED  BY <3>2, <3>3 DEF ImageWindows
    <2>. QED  BY <2>1, <2>2, <2>6, <2>7 DEF WindowInv
<1>2. WindowInv /\ TypeOK' /\ [Next]_vars => WindowInv'
    <2>. SUFFICES ASSUME WindowInv, TypeOK', [Next]_vars
                  PROVE  LimitsKnown' /\ RequestWindows' /\ ImageWindows'
        BY DEF WindowInv
    <2>. USE DEF WindowInv
    <2>1. CASE Tick
        BY <2>1, SameWindows DEF Tick, LimitsKnown
    <2>2. CASE UpdateLimits
        BY <2>2, SameWindows DEF UpdateLimits, LimitsKnown
    <2>3. CASE Crash
        BY <2>3, SameWindows DEF Crash, LimitsKnown
    <2>4. ASSUME NEW r \in Request, ReadLimits(r)
          PROVE  LimitsKnown' /\ RequestWindows' /\ ImageWindows'
        <3>1. LimitsKnown'
            BY <2>4 DEF ReadLimits, LimitsKnown, TypeOK
        <3>. QED  BY <2>4, <3>1, SameWindows DEF ReadLimits
    <2>5. ASSUME NEW r \in Request, TakeStamp(r)
          PROVE  LimitsKnown' /\ RequestWindows' /\ ImageWindows'
        BY <2>5, SameWindows DEF TakeStamp, LimitsKnown
    <2>6. ASSUME NEW r \in Request, Reserve(r)
          PROVE  LimitsKnown' /\ RequestWindows' /\ ImageWindows'
        <3>1. LimitsKnown' /\ inForce' = inForce
            BY <2>6 DEF Reserve, LimitsKnown
        <3>2. RequestWindows'
            BY <2>6, <3>1, RequestsAfterReserve DEF RequestWindows
        <3>3. ImageWindows'
            BY <2>6, <3>1, ImagesAfterReserve DEF ImageWindows
        <3>. QED  BY <3>1, <3>2, <3>3
    <2>7. ASSUME NEW r \in Request, Refuse(r)
          PROVE  LimitsKnown' /\ RequestWindows' /\ ImageWindows'
        BY <2>7, SameWindows DEF Refuse, LimitsKnown
    <2>8. ASSUME NEW r \in Request, DryRun(r)
          PROVE  LimitsKnown' /\ RequestWindows' /\ ImageWindows'
        <3>1. call[r].prompt \in Nat /\ DryRunAnswer \in Nat
            BY CallType DEF BudgetAssumption
        <3>2. /\ DOMAIN ledger' = DOMAIN ledger
              /\ \A i \in DOMAIN ledger : /\ ledger'[i].ts = ledger[i].ts
                                         /\ ledger'[i].kind = ledger[i].kind
            BY <2>8, <3>1, Updated DEF DryRun, TypeOK
        <3>3. LimitsKnown' /\ inForce' = inForce
            BY <2>8 DEF DryRun, LimitsKnown
        <3>. QED  BY <3>2, <3>3, SameWindows
    <2>9. ASSUME NEW r \in Request, Settle(r)
          PROVE  LimitsKnown' /\ RequestWindows' /\ ImageWindows'
        <3>1. PICK input \in Prompts, output \in Answers :
                 Observed(r, input, output, Price(input, output))
            BY <2>9 DEF Settle
        <3>2. input \in Nat /\ output \in Nat /\ Price(input, output) \in Nat
            BY PriceType DEF BudgetAssumption
        <3>3. /\ DOMAIN ledger' = DOMAIN ledger
              /\ \A i \in DOMAIN ledger : /\ ledger'[i].ts = ledger[i].ts
                                         /\ ledger'[i].kind = ledger[i].kind
            BY <3>1, <3>2, Updated DEF TypeOK
        <3>4. LimitsKnown' /\ inForce' = inForce
            BY <2>9 DEF Settle, LimitsKnown
        <3>. QED  BY <3>3, <3>4, SameWindows
    <2>10. ASSUME NEW r \in Request, Fail(r)
           PROVE  LimitsKnown' /\ RequestWindows' /\ ImageWindows'
        BY <2>10, SameWindows DEF Fail, LimitsKnown
    <2>11. CASE UNCHANGED vars
        BY <2>11, SameWindows DEF vars, LimitsKnown
    <2>. QED
        BY <2>1, <2>2, <2>3, <2>4, <2>5, <2>6, <2>7, <2>8, <2>9, <2>10, <2>11 DEF Next
<1>. QED  BY <1>1, <1>2, TypeCorrect, PTL DEF Spec

\* No rolling hour and no rolling day of the ledger holds more requests, nor a
\* rolling day more images, than the largest limit that was ever in force,
\* however threads interleave between get_settings, datetime.now and the
\* BEGIN IMMEDIATE of reserve_cloud.
THEOREM RollingWindows == Spec => [](RequestWindows /\ ImageWindows)
<1>1. WindowInv => RequestWindows /\ ImageWindows
    BY DEF WindowInv
<1>. QED  BY <1>1, WindowsKept, PTL

\* Every limit a request goes by has been in force.
LEMMA LimitsSeen == Spec => []LimitsKnown
<1>1. WindowInv => LimitsKnown
    BY DEF WindowInv
<1>. QED  BY <1>1, WindowsKept, PTL

\* In particular, no window of a day holds more images than the largest daily limit of
\* images that was in force (reserve_cloud, is_image).
COROLLARY ImagesBounded == Spec => []ImageWindows
BY RollingWindows, PTL

-----------------------------------------------------------------------------
(* Reservations *)

\* A request has no row before its transaction commits.
NoRowYet == \A r \in Request : pc[r] \in {"idle", "limits", "stamped"} => row[r] = 0

RowInv == TypeOK /\ ReservedWhileInFlight /\ NoRowYet

\* A step that answers nobody and touches neither the ledger nor the rows, and
\* whose request, if it changes its call or its timestamp, has no row.
LEMMA SameRows ==
    ASSUME RowInv, UNCHANGED <<ledger, row>>,
           \A r \in Request : row[r] # 0 =>
               /\ call'[r] = call[r] /\ stamp'[r] = stamp[r]
               /\ pc'[r] = pc[r] \/ (pc[r] # "answered" /\ pc'[r] = "failed"),
           \A r \in Request : row[r] = 0 => pc'[r] \notin {"dispatched", "dry"}
    PROVE  ReservedWhileInFlight' /\ NoRowYet'
<1>1. ASSUME NEW r \in Request
      PROVE  /\ pc'[r] \in {"dispatched", "dry"} => row[r] # 0
             /\ row[r] # 0 => row[r] \in DOMAIN ledger /\ \A q \in Request \ {r} : row[q] # row[r]
             /\ row[r] # 0 /\ pc'[r] # "answered" => ledger[row[r]] = Reservation(r)'
             /\ pc'[r] \in {"idle", "limits", "stamped"} => row[r] = 0
    <2>1. CASE row[r] = 0
        BY <2>1
    <2>2. CASE row[r] # 0
        <3>1. Reservation(r)' = Reservation(r)
            BY <2>2 DEF Reservation, Allowance
        <3>. QED  BY <2>2, <3>1 DEF RowInv, ReservedWhileInFlight, NoRowYet
    <2>. QED  BY <2>1, <2>2
<1>. QED  BY <1>1 DEF ReservedWhileInFlight, NoRowYet

\* The answer of one request leaves the reservations of the others alone.
LEMMA RowsAfterAnswer ==
    ASSUME RowInv, NEW r \in Request, row[r] # 0,
           pc' = [pc EXCEPT ![r] = "answered"], UNCHANGED <<call, stamp, row>>,
           DOMAIN ledger' = DOMAIN ledger,
           \A i \in DOMAIN ledger : i # row[r] => ledger'[i] = ledger[i]
    PROVE  ReservedWhileInFlight' /\ NoRowYet'
<1>1. ASSUME NEW q \in Request
      PROVE  /\ pc'[q] \in {"dispatched", "dry"} => row[q] # 0
             /\ row[q] # 0 => row[q] \in DOMAIN ledger' /\ \A p \in Request \ {q} : row[p] # row[q]
             /\ row[q] # 0 /\ pc'[q] # "answered" => ledger'[row[q]] = Reservation(q)'
             /\ pc'[q] \in {"idle", "limits", "stamped"} => row[q] = 0
    <2>1. Reservation(q)' = Reservation(q)
        BY DEF Reservation, Allowance
    <2>2. pc'[q] = IF q = r THEN "answered" ELSE pc[q]
        BY DEF RowInv, TypeOK
    <2>. QED  BY <2>1, <2>2 DEF RowInv, ReservedWhileInFlight, NoRowYet
<1>. QED  BY <1>1 DEF ReservedWhileInFlight, NoRowYet

\* A request has a row of its own from its commit on, with its full estimate until it is
\* answered, and none before.
LEMMA RowsKept == Spec => []RowInv
<1>. USE BudgetAssumption
<1>1. Init => RowInv
    <2>1. Init => TypeOK
        BY DEF Init, TypeOK, BudgetAssumption, Call
    <2>2. Init => ReservedWhileInFlight /\ NoRowYet
        BY DEF Init, ReservedWhileInFlight, NoRowYet
    <2>. QED  BY <2>1, <2>2 DEF RowInv
<1>2. RowInv /\ TypeOK' /\ [Next]_vars => RowInv'
    <2>. SUFFICES ASSUME RowInv, TypeOK', [Next]_vars
                  PROVE  ReservedWhileInFlight' /\ NoRowYet'
        BY DEF RowInv
    <2>0. /\ TypeOK
          /\ \A r \in Request : pc[r] \in {"dispatched", "dry"} => row[r] # 0
          /\ \A r \in Request : pc[r] \in {"idle", "limits", "stamped"} => row[r] = 0
        BY DEF RowInv, ReservedWhileInFlight, NoRowYet
    <2>1. CASE Tick
        BY <2>0, <2>1, SameRows DEF Tick
    <2>2. CASE UpdateLimits
        BY <2>0, <2>2, SameRows DEF UpdateLimits
    <2>3. CASE Crash
        <3>1. \A r \in Request : pc'[r] = IF pc[r] \in {"limits", "stamped", "dry", "dispatched"}
                                         THEN "failed" ELSE pc[r]
            BY <2>3 DEF Crash
        <3>. QED  BY <2>0, <2>3, <3>1, SameRows DEF Crash
    <2>4. ASSUME NEW r \in Request, ReadLimits(r)
          PROVE  ReservedWhileInFlight' /\ NoRowYet'
        <3>1. row[r] = 0 /\ UNCHANGED <<ledger, row, stamp>>
            BY <2>0, <2>4 DEF ReadLimits
        <3>2. \A q \in Request : /\ q # r => call'[q] = call[q]
                                /\ pc'[q] = IF q = r THEN "limits" ELSE pc[q]
            BY <2>0, <2>4 DEF ReadLimits, TypeOK
        <3>. QED  BY <2>0, <3>1, <3>2, SameRows
    <2>5. ASSUME NEW r \in Request, TakeStamp(r)
          PROVE  ReservedWhileInFlight' /\ NoRowYet'
        <3>1. row[r] = 0 /\ UNCHANGED <<ledger, row, call>>
            BY <2>0, <2>5 DEF TakeStamp
        <3>2. \A q \in Request : /\ q # r => stamp'[q] = stamp[q]
                                /\ pc'[q] = IF q = r THEN "stamped" ELSE pc[q]
            BY <2>0, <2>5 DEF TakeStamp, TypeOK
        <3>. QED  BY <2>0, <3>1, <3>2, SameRows
    <2>6. ASSUME NEW r \in Request, Reserve(r)
          PROVE  ReservedWhileInFlight' /\ NoRowYet'
        <3>1. /\ DOMAIN ledger' = DOMAIN ledger \cup {Len(ledger) + 1}
              /\ Len(ledger) + 1 \notin DOMAIN ledger
              /\ \A i \in DOMAIN ledger : ledger'[i] = ledger[i]
              /\ ledger'[Len(ledger) + 1] = Reservation(r)
              /\ Len(ledger) + 1 # 0
            BY <2>0, <2>6, ReservationType, Appended DEF Reserve, TypeOK
        <3>2. ASSUME NEW q \in Request
              PROVE  /\ Reservation(q)' = Reservation(q)
                     /\ row'[q] = IF q = r THEN Len(ledger) + 1 ELSE row[q]
                     /\ q = r => pc'[q] \in {"dry", "dispatched"}
                     /\ q # r => pc'[q] = pc[q]
            BY <2>0, <2>6 DEF Reserve, TypeOK, Reservation, Allowance
        <3>3. ASSUME NEW q \in Request
              PROVE  /\ pc'[q] \in {"dispatched", "dry"} => row'[q] # 0
                     /\ row'[q] # 0 => row'[q] \in DOMAIN ledger' /\ \A p \in Request \ {q} : row'[p] # row'[q]
                     /\ row'[q] # 0 /\ pc'[q] # "answered" => ledger'[row'[q]] = Reservation(q)'
                     /\ pc'[q] \in {"idle", "limits", "stamped"} => row'[q] = 0
            BY <3>1, <3>2 DEF RowInv, ReservedWhileInFlight, NoRowYet
        <3>. QED  BY <3>3 DEF ReservedWhileInFlight, NoRowYet
    <2>7. ASSUME NEW r \in Request, Refuse(r)
          PROVE  ReservedWhileInFlight' /\ NoRowYet'
        <3>1. row[r] = 0 /\ UNCHANGED <<ledger, row, call, stamp>>
            BY <2>0, <2>7 DEF Refuse
        <3>2. \A q \in Request : pc'[q] = IF q = r THEN "refused" ELSE pc[q]
            BY <2>0, <2>7 DEF Refuse, TypeOK
        <3>. QED  BY <2>0, <3>1, <3>2, SameRows
    <2>8. ASSUME NEW r \in Request, DryRun(r)
          PROVE  ReservedWhileInFlight' /\ NoRowYet'
        <3>1. call[r].prompt \in Nat /\ DryRunAnswer \in Nat
            BY <2>0, CallType DEF BudgetAssumption
        <3>2. /\ DOMAIN ledger' = DOMAIN ledger
              /\ \A i \in DOMAIN ledger : i # row[r] => ledger'[i] = ledger[i]
            BY <2>0, <2>8, <3>1, Updated DEF DryRun, TypeOK
        <3>. QED  BY <2>0, <2>8, <3>2, RowsAfterAnswer DEF DryRun
    <2>9. ASSUME NEW r \in Request, Settle(r)
          PROVE  ReservedWhileInFlight' /\ NoRowYet'
        <3>1. PICK input \in Prompts, output \in Answers :
                 Observed(r, input, output, Price(input, output))
            BY <2>9 DEF Settle
        <3>2. input \in Nat /\ output \in Nat /\ Price(input, output) \in Nat
            BY PriceType DEF BudgetAssumption
        <3>3. /\ DOMAIN ledger' = DOMAIN ledger
              /\ \A i \in DOMAIN ledger : i # row[r] => ledger'[i] = ledger[i]
            BY <2>0, <3>1, <3>2, Updated DEF TypeOK
        <3>. QED  BY <2>0, <2>9, <3>3, RowsAfterAnswer DEF Settle
    <2>10. ASSUME NEW r \in Request, Fail(r)
           PROVE  ReservedWhileInFlight' /\ NoRowYet'
        <3>1. row[r] # 0 /\ pc[r] = "dispatched" /\ UNCHANGED <<ledger, row, call, stamp>>
            BY <2>0, <2>10 DEF Fail
        <3>2. \A q \in Request : pc'[q] = IF q = r THEN "failed" ELSE pc[q]
            BY <2>0, <2>10 DEF Fail, TypeOK
        <3>. QED  BY <2>0, <3>1, <3>2, SameRows
    <2>11. CASE UNCHANGED vars
        BY <2>0, <2>11, SameRows DEF vars
    <2>. QED
        BY <2>1, <2>2, <2>3, <2>4, <2>5, <2>6, <2>7, <2>8, <2>9, <2>10, <2>11 DEF Next
<1>. QED  BY <1>1, <1>2, TypeCorrect, PTL DEF Spec

\* No request is at the provider without a reservation of its own at the full
\* estimate, and failed calls and crashes leave the estimate in the ledger:
\* nothing that other requests commit, settle or fail disturbs it.
THEOREM ReservationHeld == Spec => []ReservedWhileInFlight
<1>1. RowInv => ReservedWhileInFlight
    BY DEF RowInv
<1>. QED  BY <1>1, RowsKept, PTL

-----------------------------------------------------------------------------
(* Sums of natural numbers over a finite set *)

\* Every set of natural numbers has a least element: what induction rests on here.
LEMMA Least ==
    ASSUME NEW T, T \subseteq Nat, T # {}
    PROVE  \E n \in T : \A k \in T : n <= k
<1>1. PICK n \in T : \A k \in T : <<k, n>> \notin OpToRel(<, Nat)
    BY NatLessThanWellFounded, WFMin
<1>2. \A k \in T : <<k, n>> \in Nat \X Nat
    OBVIOUS
<1>3. \A k \in T : ~ (k < n)
    BY <1>1, <1>2 DEF OpToRel
<1>. QED  BY <1>3

\* The element a fold takes next.
Pick(s) == CHOOSE x \in s : TRUE

\* It is one of them.
LEMMA PickIs == ASSUME NEW s, s # {} PROVE Pick(s) \in s
BY DEF Pick

\* The function by which MapThenSumSet sums the numbers w over the subsets of S.
IsSum(w, S, g) ==
    g = [s \in SUBSET S |-> IF s = {} THEN 0 ELSE w[Pick(s)] + g[s \ {Pick(s)}]]

\* The same for the subsets of at most n elements.
Layer(S, n) == {s \in SUBSET S : Cardinality(s) <= n}
IsPart(w, S, n, g) ==
    g = [s \in Layer(S, n) |-> IF s = {} THEN 0 ELSE w[Pick(s)] + g[s \ {Pick(s)}]]

\* What is left has one element less.
LEMMA PickedOut ==
    ASSUME NEW S, IsFiniteSet(S), NEW s \in SUBSET S, s # {}
    PROVE  /\ Pick(s) \in s /\ s \ {Pick(s)} \in SUBSET S
           /\ Cardinality(s) \in Nat /\ Cardinality(s \ {Pick(s)}) = Cardinality(s) - 1
           /\ Cardinality(s \ {Pick(s)}) \in Nat
<1>1. IsFiniteSet(s) /\ Pick(s) \in s
    BY FS_Subset, PickIs
<1>2. IsFiniteSet(s \ {Pick(s)}) /\ Cardinality(s \ {Pick(s)}) = Cardinality(s) - 1
    BY <1>1, FS_RemoveElement
<1>. QED  BY <1>1, <1>2, FS_CardinalityType

\* There is such a function on a finite set.
LEMMA SumExists ==
    ASSUME NEW w, NEW S, IsFiniteSet(S)
    PROVE  \E g : IsSum(w, S, g)
<1>. DEFINE T == {n \in Nat : ~ \E g : IsPart(w, S, n, g)}
<1>1. ASSUME NEW n \in Nat, \A k \in T : n <= k PROVE \E g : IsPart(w, S, n, g)
    <2>1. CASE n = 0
        <3>. DEFINE g == [s \in Layer(S, n) |-> 0]
        <3>1. \A s \in Layer(S, n) : s = {}
            <4>1. \A s \in SUBSET S : Cardinality(s) \in Nat /\ (Cardinality(s) = 0 => s = {})
                BY FS_Subset, FS_CardinalityType, FS_EmptySet
            <4>. QED  BY <2>1, <4>1 DEF Layer
        <3>2. IsPart(w, S, n, g)
            BY <3>1 DEF IsPart
        <3>. QED  BY <3>2
    <2>2. CASE n # 0
        <3>1. n - 1 \in Nat /\ n - 1 \notin T
            BY <1>1, <2>2
        <3>2. PICK f : IsPart(w, S, n - 1, f)
            BY <3>1
        <3>. DEFINE g == [s \in Layer(S, n) |->
                             IF s = {} THEN 0 ELSE w[Pick(s)] + f[s \ {Pick(s)}]]
        <3>3. ASSUME NEW s \in Layer(S, n), s # {}
              PROVE  s \ {Pick(s)} \in Layer(S, n - 1) /\ s \ {Pick(s)} \in Layer(S, n)
            BY <3>3, PickedOut DEF Layer
        <3>4. \A s \in Layer(S, n - 1) : s \in Layer(S, n)
            <4>1. \A s \in SUBSET S : Cardinality(s) \in Nat
                BY FS_Subset, FS_CardinalityType
            <4>. QED  BY <3>1, <4>1 DEF Layer
        <3>5. \A s \in Layer(S, n - 1) :
                  f[s] = IF s = {} THEN 0 ELSE w[Pick(s)] + f[s \ {Pick(s)}]
            BY <3>2 DEF IsPart
        <3>6. \A s \in Layer(S, n - 1) : g[s] = f[s]
            BY <3>4, <3>5
        <3>7. \A s \in Layer(S, n) : s # {} => g[s \ {Pick(s)}] = f[s \ {Pick(s)}]
            BY <3>3, <3>6
        <3>8. IsPart(w, S, n, g)
            BY <3>7 DEF IsPart
        <3>. QED  BY <3>8
    <2>. QED  BY <2>1, <2>2
<1>2. T = {}
    <2>. SUFFICES ASSUME T # {} PROVE FALSE
        OBVIOUS
    <2>1. PICK n \in T : \A k \in T : n <= k
        BY Least
    <2>. QED  BY <1>1, <2>1
<1>3. Cardinality(S) \in Nat /\ Layer(S, Cardinality(S)) = SUBSET S
    BY FS_Subset, FS_CardinalityType DEF Layer
<1>4. PICK g : IsPart(w, S, Cardinality(S), g)
    BY <1>2, <1>3
<1>. QED  BY <1>3, <1>4 DEF IsSum, IsPart

\* What holds of a set when it holds of its proper subsets holds of every subset of a
\* finite set; G is the set of those it holds of.
LEMMA SubsetInduction ==
    ASSUME NEW S, IsFiniteSet(S), NEW G,
           ASSUME NEW s \in SUBSET S, \A r \in SUBSET s : r # s => r \in G PROVE s \in G
    PROVE  \A s \in SUBSET S : s \in G
<1>. DEFINE T == {n \in Nat : \E s \in SUBSET S : Cardinality(s) = n /\ s \notin G}
<1>1. \A s \in SUBSET S : Cardinality(s) \in Nat
    BY FS_Subset, FS_CardinalityType
<1>2. T = {}
    <2>. SUFFICES ASSUME T # {} PROVE FALSE
        OBVIOUS
    <2>1. PICK n \in T : \A k \in T : n <= k
        BY Least
    <2>2. PICK s \in SUBSET S : Cardinality(s) = n /\ s \notin G
        OBVIOUS
    <2>3. ASSUME NEW r \in SUBSET s, r # s PROVE r \in G
        <3>1. IsFiniteSet(s)
            BY FS_Subset
        <3>2. Cardinality(r) <= Cardinality(s) /\ Cardinality(r) # Cardinality(s)
            BY <2>3, <3>1, FS_Subset
        <3>. QED  BY <1>1, <2>1, <2>2, <3>2
    <2>. QED  BY <2>2, <2>3
<1>. QED  BY <1>1, <1>2

\* It is the only one, and depends only on the numbers of the set.
LEMMA SumUnique ==
    ASSUME NEW S, IsFiniteSet(S), NEW R \in SUBSET S, NEW w, NEW v,
           \A x \in R : w[x] = v[x],
           NEW g, IsSum(w, S, g), NEW h, IsSum(v, R, h)
    PROVE  \A s \in SUBSET R : g[s] = h[s]
<1>. DEFINE G == {s \in SUBSET R : g[s] = h[s]}
<1>1. IsFiniteSet(R)
    BY FS_Subset
<1>2. ASSUME NEW s \in SUBSET R, \A r \in SUBSET s : r # s => r \in G PROVE s \in G
    <2>1. /\ g[s] = IF s = {} THEN 0 ELSE w[Pick(s)] + g[s \ {Pick(s)}]
          /\ h[s] = IF s = {} THEN 0 ELSE v[Pick(s)] + h[s \ {Pick(s)}]
        BY DEF IsSum
    <2>2. s # {} => Pick(s) \in s /\ s \ {Pick(s)} \in SUBSET s /\ s \ {Pick(s)} # s
        BY PickIs
    <2>. QED  BY <1>2, <2>1, <2>2
<1>. HIDE DEF G
<1>3. \A s \in SUBSET R : s \in G
    BY <1>1, <1>2, SubsetInduction
<1>. QED  BY <1>3 DEF G

\* The sum of the numbers w over S, as the model writes it.
Total(w, S) == MapThenSumSet(LAMBDA x : w[x], S)

\* It is the value of any such function.
LEMMA TotalIs ==
    ASSUME NEW S, IsFiniteSet(S), NEW w, NEW g, IsSum(w, S, g)
    PROVE  Total(w, S) = g[S]
<1>. DEFINE it == CHOOSE h : IsSum(w, S, h)
<1>1. IsSum(w, S, it)
    OBVIOUS
<1>2. Total(w, S) = it[S]
    BY DEF Total, MapThenSumSet, MapThenFoldSet, IsSum, Pick
<1>. HIDE DEF it
<1>. QED  BY <1>1, <1>2, SumUnique

\* A sum depends only on the numbers of its set.
LEMMA TotalSame ==
    ASSUME NEW S, IsFiniteSet(S), NEW w, NEW v, \A x \in S : w[x] = v[x]
    PROVE  Total(w, S) = Total(v, S)
<1>1. PICK g : IsSum(w, S, g)
    BY SumExists
<1>2. PICK h : IsSum(v, S, h)
    BY SumExists
<1>3. Total(w, S) = g[S] /\ Total(v, S) = h[S]
    BY <1>1, <1>2, TotalIs
<1>4. \A s \in SUBSET S : g[s] = h[s]
    BY <1>1, <1>2, SumUnique
<1>. QED  BY <1>3, <1>4

\* The step of the fold.
LEMMA TotalStep ==
    ASSUME NEW S, IsFiniteSet(S), NEW w
    PROVE  Total(w, S) = IF S = {} THEN 0 ELSE w[Pick(S)] + Total(w, S \ {Pick(S)})
<1>1. PICK g : IsSum(w, S, g)
    BY SumExists
<1>2. Total(w, S) = IF S = {} THEN 0 ELSE w[Pick(S)] + g[S \ {Pick(S)}]
    <2>1. Total(w, S) = g[S]
        BY <1>1, TotalIs
    <2>2. \A s \in SUBSET S : g[s] = IF s = {} THEN 0 ELSE w[Pick(s)] + g[s \ {Pick(s)}]
        BY <1>1 DEF IsSum
    <2>. QED  BY <2>1, <2>2
<1>3. S \ {Pick(S)} \in SUBSET S /\ IsFiniteSet(S \ {Pick(S)})
    BY FS_RemoveElement
<1>4. PICK h : IsSum(w, S \ {Pick(S)}, h)
    BY <1>3, SumExists
<1>5. h[S \ {Pick(S)}] = g[S \ {Pick(S)}]
    <2>. DEFINE R == S \ {Pick(S)}
    <2>1. R \in SUBSET S /\ IsSum(w, R, h) /\ \A x \in R : w[x] = w[x]
        BY <1>3, <1>4
    <2>. HIDE DEF R
    <2>2. \A s \in SUBSET R : g[s] = h[s]
        BY <1>1, <2>1, SumUnique
    <2>3. g[R] = h[R]
        BY <2>2
    <2>. QED  BY <2>3 DEF R
<1>. QED  BY <1>2, <1>3, <1>4, <1>5, TotalIs

\* A sum of natural numbers is one.
LEMMA TotalNat ==
    ASSUME NEW S, IsFiniteSet(S), NEW w, \A x \in S : w[x] \in Nat
    PROVE  Total(w, S) \in Nat
<1>. DEFINE G == {s \in SUBSET S : Total(w, s) \in Nat}
<1>1. ASSUME NEW s \in SUBSET S, \A r \in SUBSET s : r # s => r \in G PROVE s \in G
    <2>1. IsFiniteSet(s)
        BY FS_Subset
    <2>2. Total(w, s) = IF s = {} THEN 0 ELSE w[Pick(s)] + Total(w, s \ {Pick(s)})
        BY <2>1, TotalStep
    <2>3. s # {} => Pick(s) \in s /\ s \ {Pick(s)} \in SUBSET s /\ s \ {Pick(s)} # s
        BY PickIs
    <2>4. s # {} => Total(w, s \ {Pick(s)}) \in Nat /\ w[Pick(s)] \in Nat
        BY <1>1, <2>3
    <2>. QED  BY <2>2, <2>4
<1>. HIDE DEF G
<1>2. \A s \in SUBSET S : s \in G
    BY <1>1, SubsetInduction
<1>. QED  BY <1>2 DEF G

\* One more element adds its number, whatever the order of the sum.
LEMMA TotalAdd ==
    ASSUME NEW S, IsFiniteSet(S), NEW w, \A x \in S : w[x] \in Nat, NEW y \in S
    PROVE  Total(w, S) = w[y] + Total(w, S \ {y})
<1>. DEFINE G == {s \in SUBSET S : \A x \in s : Total(w, s) = w[x] + Total(w, s \ {x})}
<1>1. ASSUME NEW s \in SUBSET S, \A r \in SUBSET s : r # s => r \in G PROVE s \in G
    <2>. SUFFICES ASSUME NEW x \in s PROVE Total(w, s) = w[x] + Total(w, s \ {x})
        OBVIOUS
    <2>. DEFINE p == Pick(s)
                both == (s \ {x}) \ {p}
    <2>1. IsFiniteSet(s) /\ IsFiniteSet(s \ {x}) /\ IsFiniteSet(both) /\ p \in s
        BY FS_Subset, FS_RemoveElement, PickIs
    <2>2. Total(w, s) = w[p] + Total(w, s \ {p})
        BY <2>1, TotalStep
    <2>3. CASE x = p
        BY <2>2, <2>3
    <2>4. CASE x # p
        <3>1. s \ {p} \in G /\ s \ {x} \in G
            BY <1>1, <2>1
        <3>2. both = (s \ {p}) \ {x}
            OBVIOUS
        <3>3. Total(w, s \ {p}) = w[x] + Total(w, both)
            BY <2>4, <3>1, <3>2
        <3>4. Total(w, s \ {x}) = w[p] + Total(w, both)
            BY <2>1, <2>4, <3>1
        <3>5. Total(w, both) \in Nat /\ w[x] \in Nat /\ w[p] \in Nat
            <4>1. \A z \in both : w[z] \in Nat
                OBVIOUS
            <4>. QED  BY <2>1, <4>1, TotalNat
        <3>. HIDE DEF both, p
        <3>. QED  BY <2>2, <3>3, <3>4, <3>5
    <2>. QED  BY <2>3, <2>4
<1>. HIDE DEF G
<1>2. \A s \in SUBSET S : s \in G
    BY <1>1, SubsetInduction
<1>. QED  BY <1>2 DEF G

\* A smaller set has no larger sum.
LEMMA TotalMonotone ==
    ASSUME NEW S, IsFiniteSet(S), NEW w, \A x \in S : w[x] \in Nat, NEW R \in SUBSET S
    PROVE  Total(w, R) <= Total(w, S)
<1>. DEFINE G == {s \in SUBSET S : R \subseteq s => Total(w, R) <= Total(w, s)}
<1>1. ASSUME NEW s \in SUBSET S, \A r \in SUBSET s : r # s => r \in G PROVE s \in G
    <2>. SUFFICES ASSUME R \subseteq s PROVE Total(w, R) <= Total(w, s)
        OBVIOUS
    <2>1. IsFiniteSet(s) /\ IsFiniteSet(R)
        BY FS_Subset
    <2>2. Total(w, R) \in Nat
        BY <2>1, TotalNat
    <2>3. CASE R = s
        BY <2>2, <2>3
    <2>4. CASE R # s
        <3>1. PICK x \in s : x \notin R
            BY <2>4
        <3>2. s \ {x} \in G /\ R \subseteq s \ {x}
            BY <1>1, <3>1
        <3>3. Total(w, R) <= Total(w, s \ {x})
            BY <3>2
        <3>4. Total(w, s) = w[x] + Total(w, s \ {x})
            BY <2>1, TotalAdd
        <3>5. IsFiniteSet(s \ {x}) /\ \A z \in s \ {x} : w[z] \in Nat
            BY <2>1, FS_RemoveElement
        <3>6. Total(w, s \ {x}) \in Nat /\ w[x] \in Nat
            BY <3>5, TotalNat
        <3>. QED  BY <2>2, <3>3, <3>4, <3>6
    <2>. QED  BY <2>3, <2>4
<1>. HIDE DEF G
<1>2. \A s \in SUBSET S : s \in G
    BY <1>1, SubsetInduction
<1>. QED  BY <1>2 DEF G

-----------------------------------------------------------------------------
(* Tokens and spend of a rolling day *)

\* The tokens and the cost of each row, and what each request used above its own.
Tokens == [i \in DOMAIN ledger |-> ledger[i].input + ledger[i].output]
Costs == [i \in DOMAIN ledger |-> ledger[i].cost]
Overruns == [r \in Request |-> Overrun(r)]
CostOverruns == [r \in Request |-> CostOverrun(r)]

\* SpendWindows, with the sums taken over these functions.
SpendTotals ==
    \A t \in 0..MaxTime :
        /\ \E l \in inForce :
               Total(Tokens, Window(t, Day)) <= l.tokens + Total(Overruns, Request)
        /\ \E l \in inForce :
               Total(Costs, Window(t, Day)) <= l.cost + Total(CostOverruns, Request)

\* The model's sums are these totals.
LEMMA TokenTotal ==
    ASSUME NEW S \in SUBSET DOMAIN ledger, IsFiniteSet(S)
    PROVE  MapThenSumSet(LAMBDA i : ledger[i].input + ledger[i].output, S) = Total(Tokens, S)
<1>. DEFINE it == CHOOSE g : g = [s \in SUBSET S |->
                      IF s = {} THEN 0
                      ELSE ledger[Pick(s)].input + ledger[Pick(s)].output + g[s \ {Pick(s)}]]
<1>1. PICK h : IsSum(Tokens, S, h)
    BY SumExists
<1>2. \A s \in SUBSET S : s # {} =>
          Tokens[Pick(s)] = ledger[Pick(s)].input + ledger[Pick(s)].output
    <2>1. \A s \in SUBSET S : s # {} => Pick(s) \in DOMAIN ledger
        BY PickIs
    <2>. QED  BY <2>1 DEF Tokens
<1>3. h = [s \in SUBSET S |->
              IF s = {} THEN 0
              ELSE ledger[Pick(s)].input + ledger[Pick(s)].output + h[s \ {Pick(s)}]]
    BY <1>1, <1>2 DEF IsSum
<1>4. it = [s \in SUBSET S |->
              IF s = {} THEN 0
              ELSE ledger[Pick(s)].input + ledger[Pick(s)].output + it[s \ {Pick(s)}]]
    BY <1>3
<1>5. IsSum(Tokens, S, it)
    BY <1>2, <1>4 DEF IsSum
<1>6. MapThenSumSet(LAMBDA i : ledger[i].input + ledger[i].output, S) = it[S]
    BY DEF MapThenSumSet, MapThenFoldSet, Pick
<1>. QED  BY <1>5, <1>6, TotalIs

LEMMA CostTotal ==
    ASSUME NEW S \in SUBSET DOMAIN ledger, IsFiniteSet(S)
    PROVE  MapThenSumSet(LAMBDA i : ledger[i].cost, S) = Total(Costs, S)
<1>. DEFINE it == CHOOSE g : g = [s \in SUBSET S |->
                      IF s = {} THEN 0 ELSE ledger[Pick(s)].cost + g[s \ {Pick(s)}]]
<1>1. PICK h : IsSum(Costs, S, h)
    BY SumExists
<1>2. \A s \in SUBSET S : s # {} => Costs[Pick(s)] = ledger[Pick(s)].cost
    <2>1. \A s \in SUBSET S : s # {} => Pick(s) \in DOMAIN ledger
        BY PickIs
    <2>. QED  BY <2>1 DEF Costs
<1>3. h = [s \in SUBSET S |-> IF s = {} THEN 0 ELSE ledger[Pick(s)].cost + h[s \ {Pick(s)}]]
    BY <1>1, <1>2 DEF IsSum
<1>4. it = [s \in SUBSET S |-> IF s = {} THEN 0 ELSE ledger[Pick(s)].cost + it[s \ {Pick(s)}]]
    BY <1>3
<1>5. IsSum(Costs, S, it)
    BY <1>2, <1>4 DEF IsSum
<1>6. MapThenSumSet(LAMBDA i : ledger[i].cost, S) = it[S]
    BY DEF MapThenSumSet, MapThenFoldSet, Pick
<1>. QED  BY <1>5, <1>6, TotalIs

LEMMA OverrunTotal ==
    ASSUME IsFiniteSet(Request)
    PROVE  /\ MapThenSumSet(Overrun, Request) = Total(Overruns, Request)
           /\ MapThenSumSet(CostOverrun, Request) = Total(CostOverruns, Request)
<1>. DEFINE it == CHOOSE g : g = [s \in SUBSET Request |->
                      IF s = {} THEN 0 ELSE Overrun(Pick(s)) + g[s \ {Pick(s)}]]
            costs == CHOOSE g : g = [s \in SUBSET Request |->
                      IF s = {} THEN 0 ELSE CostOverrun(Pick(s)) + g[s \ {Pick(s)}]]
<1>1. PICK h : IsSum(Overruns, Request, h)
    BY SumExists
<1>2. PICK k : IsSum(CostOverruns, Request, k)
    BY SumExists
<1>3. \A s \in SUBSET Request : s # {} =>
          /\ Overruns[Pick(s)] = Overrun(Pick(s))
          /\ CostOverruns[Pick(s)] = CostOverrun(Pick(s))
    <2>1. \A s \in SUBSET Request : s # {} => Pick(s) \in Request
        BY PickIs
    <2>. QED  BY <2>1 DEF Overruns, CostOverruns
<1>4. h = [s \in SUBSET Request |-> IF s = {} THEN 0 ELSE Overrun(Pick(s)) + h[s \ {Pick(s)}]]
    BY <1>1, <1>3 DEF IsSum
<1>5. k = [s \in SUBSET Request |-> IF s = {} THEN 0 ELSE CostOverrun(Pick(s)) + k[s \ {Pick(s)}]]
    BY <1>2, <1>3 DEF IsSum
<1>6. it = [s \in SUBSET Request |-> IF s = {} THEN 0 ELSE Overrun(Pick(s)) + it[s \ {Pick(s)}]]
    BY <1>4
<1>7. costs = [s \in SUBSET Request |->
                  IF s = {} THEN 0 ELSE CostOverrun(Pick(s)) + costs[s \ {Pick(s)}]]
    BY <1>5
<1>8. IsSum(Overruns, Request, it) /\ IsSum(CostOverruns, Request, costs)
    BY <1>3, <1>6, <1>7 DEF IsSum
<1>9. MapThenSumSet(Overrun, Request) = it[Request]
    BY DEF MapThenSumSet, MapThenFoldSet, Pick
<1>10. MapThenSumSet(CostOverrun, Request) = costs[Request]
    BY DEF MapThenSumSet, MapThenFoldSet, Pick
<1>. QED  BY <1>8, <1>9, <1>10, TotalIs

\* The numbers these sums add up are natural.
LEMMA SpendType ==
    ASSUME BudgetAssumption, TypeOK, ReservedWhileInFlight
    PROVE  /\ IsFiniteSet(DOMAIN ledger) /\ IsFiniteSet(Request)
           /\ \A i \in DOMAIN ledger : /\ ledger[i].input \in Nat /\ ledger[i].output \in Nat
                                      /\ ledger[i].cost \in Nat
                                      /\ Tokens[i] \in Nat /\ Costs[i] \in Nat
           /\ \A r \in Request : Overruns[r] \in Nat /\ CostOverruns[r] \in Nat
<1>1. IsFiniteSet(DOMAIN ledger)
    <2>1. DOMAIN ledger = 1..Len(ledger) /\ Len(ledger) \in Nat
        BY DEF TypeOK
    <2>. QED  BY <2>1, FS_Interval
<1>2. \A i \in DOMAIN ledger : /\ ledger[i].input \in Nat /\ ledger[i].output \in Nat
                              /\ ledger[i].cost \in Nat
    <2>1. \A i \in DOMAIN ledger : ledger[i] \in Row
        BY DEF TypeOK
    <2>. QED  BY <2>1 DEF Row
<1>3. \A i \in DOMAIN ledger : Tokens[i] \in Nat /\ Costs[i] \in Nat
    BY <1>2 DEF Tokens, Costs
<1>4. ASSUME NEW r \in Request PROVE Overruns[r] \in Nat /\ CostOverruns[r] \in Nat
    <2>1. row[r] # 0 => row[r] \in DOMAIN ledger
        BY DEF ReservedWhileInFlight
    <2>2. call[r].prompt \in Nat /\ Allowance(r) \in Nat
        BY CallType DEF Allowance, BudgetAssumption
    <2>3. Price(call[r].prompt, Allowance(r)) \in Nat
        BY <2>2, PriceType
    <2>4. Overrun(r) \in Nat
        BY <1>2, <2>1, <2>2 DEF Overrun
    <2>5. CostOverrun(r) \in Nat
        BY <1>2, <2>1, <2>3 DEF CostOverrun
    <2>. QED  BY <2>4, <2>5 DEF Overruns, CostOverruns
<1>. QED  BY <1>1, <1>2, <1>3, <1>4 DEF BudgetAssumption

\* The totals are what the property speaks of.
LEMMA TotalsAreSpend ==
    ASSUME BudgetAssumption, TypeOK, ReservedWhileInFlight, SpendTotals
    PROVE  SpendWindows
<1>1. \A t \in 0..MaxTime : Window(t, Day) \in SUBSET DOMAIN ledger
    BY DEF Window
<1>2. IsFiniteSet(DOMAIN ledger) /\ IsFiniteSet(Request)
    BY SpendType
<1>3. \A t \in 0..MaxTime : IsFiniteSet(Window(t, Day))
    BY <1>1, <1>2, FS_Subset
<1>4. ASSUME NEW t \in 0..MaxTime
      PROVE  /\ \E l \in inForce :
                  MapThenSumSet(LAMBDA i : ledger[i].input + ledger[i].output, Window(t, Day))
                     <= l.tokens + MapThenSumSet(Overrun, Request)
             /\ \E l \in inForce :
                  MapThenSumSet(LAMBDA i : ledger[i].cost, Window(t, Day))
                     <= l.cost + MapThenSumSet(CostOverrun, Request)
    <2>1. MapThenSumSet(LAMBDA i : ledger[i].input + ledger[i].output, Window(t, Day))
             = Total(Tokens, Window(t, Day))
        BY <1>1, <1>3, TokenTotal
    <2>2. MapThenSumSet(LAMBDA i : ledger[i].cost, Window(t, Day))
             = Total(Costs, Window(t, Day))
        BY <1>1, <1>3, CostTotal
    <2>3. /\ MapThenSumSet(Overrun, Request) = Total(Overruns, Request)
          /\ MapThenSumSet(CostOverrun, Request) = Total(CostOverruns, Request)
        BY <1>2, OverrunTotal
    <2>4. /\ \E l \in inForce :
                 Total(Tokens, Window(t, Day)) <= l.tokens + Total(Overruns, Request)
          /\ \E l \in inForce :
                 Total(Costs, Window(t, Day)) <= l.cost + Total(CostOverruns, Request)
        BY DEF SpendTotals
    <2>. QED  BY <2>1, <2>2, <2>3, <2>4
<1>. QED  BY <1>4 DEF SpendWindows

\* The sum v of W and one more element x, the set R of the sum w covering W and leaving
\* room for x under n.
Room(R, W, x, w, v, n) ==
    /\ IsFiniteSet(R) /\ W \in SUBSET R /\ x \notin R /\ n \in Nat
    /\ v[x] \in Nat /\ \A i \in R : w[i] \in Nat
    /\ \A i \in W : v[i] = w[i]
    /\ Total(w, R) + v[x] <= n

\* Then the new element fits.
LEMMA TotalOfOneMore ==
    ASSUME NEW R, NEW W, NEW x, NEW w, NEW v, NEW n, Room(R, W, x, w, v, n)
    PROVE  Total(v, W \cup {x}) <= n
<1>. USE DEF Room
<1>1. IsFiniteSet(W) /\ IsFiniteSet(W \cup {x}) /\ (W \cup {x}) \ {x} = W
    BY FS_Subset, FS_AddElement
<1>2. \A i \in W \cup {x} : v[i] \in Nat
    OBVIOUS
<1>3. Total(v, W \cup {x}) = v[x] + Total(v, (W \cup {x}) \ {x})
    BY <1>1, <1>2, TotalAdd
<1>4. Total(v, W) = Total(w, W)
    BY <1>1, TotalSame
<1>5. Total(w, W) <= Total(w, R) /\ Total(w, W) \in Nat /\ Total(w, R) \in Nat
    BY <1>1, TotalMonotone, TotalNat
<1>. QED  BY <1>1, <1>3, <1>4, <1>5

\* One number of a sum grows by at most what one number of another sum grows by.
LEMMA TotalRaised ==
    ASSUME NEW S, IsFiniteSet(S), NEW y \in S, NEW d \in Nat,
           NEW w, \A x \in S : w[x] \in Nat, NEW v, \A x \in S : v[x] \in Nat,
           \A x \in S \ {y} : v[x] = w[x]
    PROVE  /\ v[y] <= w[y] + d => Total(v, S) <= Total(w, S) + d
           /\ v[y] = w[y] + d => Total(v, S) = Total(w, S) + d
<1>1. Total(v, S) = v[y] + Total(v, S \ {y}) /\ Total(w, S) = w[y] + Total(w, S \ {y})
    BY TotalAdd
<1>2. IsFiniteSet(S \ {y})
    BY FS_RemoveElement
<1>3. Total(v, S \ {y}) = Total(w, S \ {y})
    BY <1>2, TotalSame
<1>4. \A x \in S \ {y} : w[x] \in Nat
    OBVIOUS
<1>5. Total(w, S \ {y}) \in Nat
    BY <1>2, <1>4, TotalNat
<1>. QED  BY <1>1, <1>3, <1>5

\* The sum w of W is n above the sum o of Q at most, and both change in one element: i of
\* W, if it is one, by no more than r of Q, which counted nothing before.
Covered(W, Q, i, r, w, v, o, p, n) ==
    /\ IsFiniteSet(W) /\ IsFiniteSet(Q) /\ r \in Q /\ n \in Nat
    /\ \A x \in W : w[x] \in Nat /\ v[x] \in Nat
    /\ \A q \in Q : o[q] \in Nat /\ p[q] \in Nat
    /\ \A x \in W \ {i} : v[x] = w[x]
    /\ \A q \in Q \ {r} : p[q] = o[q]
    /\ o[r] = 0
    /\ i \in W => v[i] <= w[i] + p[r]
    /\ Total(w, W) <= n + Total(o, Q)

\* Then the sums keep their distance.
LEMMA AnswerCovered ==
    ASSUME NEW W, NEW Q, NEW i, NEW r, NEW w, NEW v, NEW o, NEW p, NEW n,
           Covered(W, Q, i, r, w, v, o, p, n)
    PROVE  Total(v, W) <= n + Total(p, Q)
<1>. USE DEF Covered
<1>1. Total(p, Q) = Total(o, Q) + p[r]
    <2>1. p[r] \in Nat /\ p[r] = o[r] + p[r]
        OBVIOUS
    <2>. QED  BY <2>1, TotalRaised
<1>2. Total(v, W) <= Total(w, W) + p[r]
    <2>1. CASE i \in W
        <3>1. p[r] \in Nat
            OBVIOUS
        <3>. QED  BY <2>1, <3>1, TotalRaised
    <2>2. CASE i \notin W
        <3>1. \A x \in W : v[x] = w[x]
            BY <2>2
        <3>2. Total(v, W) = Total(w, W) /\ Total(w, W) \in Nat
            BY <3>1, TotalSame, TotalNat
        <3>. QED  BY <3>2
    <2>. QED  BY <2>1, <2>2
<1>3. Total(w, W) \in Nat /\ Total(v, W) \in Nat /\ Total(o, Q) \in Nat
    BY TotalNat
<1>. QED  BY <1>1, <1>2, <1>3

\* A step that changes no row, forgets no limit, and gives no request a row or, once it
\* has one, another call.
LEMMA SameSpend ==
    ASSUME SpendTotals, UNCHANGED <<ledger, row>>, inForce \subseteq inForce',
           \A r \in Request : row[r] # 0 => call'[r] = call[r]
    PROVE  SpendTotals'
<1>1. \A t \in 0..MaxTime : Window(t, Day)' = Window(t, Day)
    BY DEF Window
<1>2. Tokens' = Tokens /\ Costs' = Costs
    BY DEF Tokens, Costs
<1>3. Overruns' = Overruns /\ CostOverruns' = CostOverruns
    <2>1. ASSUME NEW r \in Request
          PROVE  Overrun(r)' = Overrun(r) /\ CostOverrun(r)' = CostOverrun(r)
        BY DEF Overrun, CostOverrun, Allowance
    <2>. QED  BY <2>1 DEF Overruns, CostOverruns
<1>. QED  BY <1>1, <1>2, <1>3 DEF SpendTotals

\* reserve_cloud: the windows that take the new row had room for it in the limits the
\* request read, which have been in force.
LEMMA SpendAfterReserve ==
    ASSUME BudgetAssumption, TypeOK, LimitsKnown, ReservedWhileInFlight, NoRowYet,
           SpendTotals, NEW r \in Request, Reserve(r)
    PROVE  SpendTotals'
<1>. DEFINE new == Len(ledger) + 1
            since == Back(stamp[r], Day)
<1>0. /\ ledger \in Seq(Row) /\ Reservation(r) \in Row
      /\ ledger' = Append(ledger, Reservation(r)) /\ inForce' = inForce
      /\ row' = [row EXCEPT ![r] = new] /\ call' = call /\ row \in [Request -> Nat]
      /\ row[r] = 0
    BY ReservationType DEF TypeOK, Reserve, NoRowYet
<1>1. /\ DOMAIN ledger' = DOMAIN ledger \cup {new} /\ new \notin DOMAIN ledger
      /\ \A i \in DOMAIN ledger : ledger'[i] = ledger[i]
      /\ ledger'[new] = Reservation(r)
    BY <1>0, Appended
<1>2. /\ \A i \in DOMAIN ledger : Tokens'[i] = Tokens[i] /\ Costs'[i] = Costs[i]
      /\ Tokens'[new] = Reservation(r).input + Reservation(r).output
      /\ Costs'[new] = Reservation(r).cost
    BY <1>1 DEF Tokens, Costs
<1>3. Reservation(r).input \in Nat /\ Reservation(r).output \in Nat /\ Reservation(r).cost \in Nat
    BY <1>0 DEF Row
<1>4. Overruns' = Overruns /\ CostOverruns' = CostOverruns
    <2>1. ASSUME NEW q \in Request
          PROVE  Overrun(q)' = Overrun(q) /\ CostOverrun(q)' = CostOverrun(q)
        <3>1. CASE q = r
            <4>1. row'[r] = new /\ call'[r] = call[r] /\ call[r].prompt \in Nat
                  /\ Allowance(r)' = Allowance(r) /\ Allowance(r) \in Nat
                BY <1>0, CallType DEF Allowance, BudgetAssumption
            <4>2. /\ ledger'[new].input + ledger'[new].output = call[r].prompt + Allowance(r)
                  /\ ledger'[new].cost = Price(call[r].prompt, Allowance(r))
                BY <1>1 DEF Reservation
            <4>3. Price(call[r].prompt, Allowance(r)) \in Nat
                BY <4>1, PriceType
            <4>4. Overrun(r)' = 0 /\ CostOverrun(r)' = 0
                BY <4>1, <4>2, <4>3 DEF Overrun, CostOverrun
            <4>. QED  BY <1>0, <3>1, <4>4 DEF Overrun, CostOverrun
        <3>2. CASE q # r
            <4>1. row'[q] = row[q] /\ call'[q] = call[q] /\ Allowance(q)' = Allowance(q)
                BY <1>0, <3>2 DEF Allowance
            <4>2. row[q] # 0 => ledger'[row[q]] = ledger[row[q]]
                BY <1>1 DEF ReservedWhileInFlight
            <4>. QED  BY <4>1, <4>2 DEF Overrun, CostOverrun
        <3>. QED  BY <3>1, <3>2
    <2>. QED  BY <2>1 DEF Overruns, CostOverruns
<1>5. /\ IsFiniteSet(DOMAIN ledger) /\ IsFiniteSet(Request)
      /\ \A i \in DOMAIN ledger : Tokens[i] \in Nat /\ Costs[i] \in Nat
      /\ \A q \in Request : Overruns[q] \in Nat /\ CostOverruns[q] \in Nat
    BY SpendType
<1>6. Total(Overruns, Request) \in Nat /\ Total(CostOverruns, Request) \in Nat
    BY <1>5, TotalNat
<1>7. /\ RowsSince(since) \in SUBSET DOMAIN ledger /\ IsFiniteSet(RowsSince(since))
      /\ new \notin RowsSince(since)
    <2>1. RowsSince(since) \in SUBSET DOMAIN ledger
        BY DEF RowsSince
    <2>. QED  BY <1>1, <1>5, <2>1, FS_Subset
<1>8. /\ read[r] \in inForce /\ read[r].tokens \in Nat /\ read[r].cost \in Nat
      /\ Total(Tokens, RowsSince(since)) + Tokens'[new] <= read[r].tokens
      /\ Total(Costs, RowsSince(since)) + Costs'[new] <= read[r].cost
    <2>1. TokensSince(since) = Total(Tokens, RowsSince(since))
        BY <1>7, TokenTotal DEF TokensSince
    <2>2. CostSince(since) = Total(Costs, RowsSince(since))
        BY <1>7, CostTotal DEF CostSince
    <2>3. /\ TokensSince(since) + Reservation(r).input + Reservation(r).output <= read[r].tokens
          /\ CostSince(since) + Reservation(r).cost <= read[r].cost
        BY DEF Reserve, Fits
    <2>4. Total(Tokens, RowsSince(since)) \in Nat
        BY <1>5, <1>7, TotalNat
    <2>5. read[r] \in inForce /\ read[r].tokens \in Nat /\ read[r].cost \in Nat
        BY DEF LimitsKnown, TypeOK, BudgetAssumption, Limits
    <2>. QED  BY <1>2, <1>3, <2>1, <2>2, <2>3, <2>4, <2>5
<1>9. ASSUME NEW t \in 0..MaxTime
      PROVE  /\ \E l \in inForce :
                    Total(Tokens', Window(t, Day)') <= l.tokens + Total(Overruns, Request)
             /\ \E l \in inForce :
                    Total(Costs', Window(t, Day)') <= l.cost + Total(CostOverruns, Request)
    <2>0. t \in Nat /\ Day \in Nat /\ stamp[r] \in Nat
        BY DEF BudgetAssumption, TypeOK
    <2>1. /\ \A i \in DOMAIN ledger : i \in Window(t, Day)' <=> i \in Window(t, Day)
          /\ Window(t, Day) \subseteq DOMAIN ledger
          /\ Window(t, Day)' \subseteq DOMAIN ledger \cup {new}
          /\ new \in Window(t, Day)' => stamp[r] <= t
        BY <2>0, WindowAfterReserve
    <2>2. CASE new \in Window(t, Day)'
        <3>1. Window(t, Day)' = Window(t, Day) \cup {new} /\ stamp[r] <= t
            BY <2>1, <2>2
        <3>2. Window(t, Day) \in SUBSET RowsSince(since)
            BY <2>0, <3>1, CountedCoversWindow
        <3>3. /\ \A i \in RowsSince(since) : Tokens[i] \in Nat
              /\ \A i \in RowsSince(since) : Costs[i] \in Nat
              /\ \A i \in Window(t, Day) : Tokens'[i] = Tokens[i]
              /\ \A i \in Window(t, Day) : Costs'[i] = Costs[i]
              /\ Tokens'[new] \in Nat /\ Costs'[new] \in Nat
            BY <1>2, <1>3, <1>5, <1>7, <2>1
        <3>. HIDE DEF new, since
        <3>4. Total(Tokens', Window(t, Day)') <= read[r].tokens
            <4>1. Room(RowsSince(since), Window(t, Day), new, Tokens, Tokens', read[r].tokens)
                BY <1>7, <1>8, <3>2, <3>3 DEF Room
            <4>. QED  BY <3>1, <4>1, TotalOfOneMore
        <3>5. Total(Costs', Window(t, Day)') <= read[r].cost
            <4>1. Room(RowsSince(since), Window(t, Day), new, Costs, Costs', read[r].cost)
                BY <1>7, <1>8, <3>2, <3>3 DEF Room
            <4>. QED  BY <3>1, <4>1, TotalOfOneMore
        <3>6. /\ IsFiniteSet(Window(t, Day)')
              /\ \A i \in Window(t, Day)' : Tokens'[i] \in Nat /\ Costs'[i] \in Nat
            <4>1. IsFiniteSet(Window(t, Day))
                BY <1>7, <3>2, FS_Subset
            <4>2. IsFiniteSet(Window(t, Day) \cup {new})
                BY <4>1, FS_AddElement
            <4>. QED  BY <1>5, <2>1, <3>1, <3>3, <4>2
        <3>7. Total(Tokens', Window(t, Day)') \in Nat /\ Total(Costs', Window(t, Day)') \in Nat
            BY <3>6, TotalNat
        <3>8. Total(Tokens', Window(t, Day)') <= read[r].tokens + Total(Overruns, Request)
            BY <1>6, <1>8, <3>4, <3>7
        <3>9. Total(Costs', Window(t, Day)') <= read[r].cost + Total(CostOverruns, Request)
            BY <1>6, <1>8, <3>5, <3>7
        <3>. QED  BY <1>8, <3>8, <3>9
    <2>3. CASE new \notin Window(t, Day)'
        <3>1. Window(t, Day)' = Window(t, Day)
            BY <2>1, <2>3
        <3>2. IsFiniteSet(Window(t, Day))
            BY <1>5, <2>1, FS_Subset
        <3>3. \A i \in Window(t, Day) : Tokens'[i] = Tokens[i] /\ Costs'[i] = Costs[i]
            BY <1>2, <2>1
        <3>4. /\ Total(Tokens', Window(t, Day)) = Total(Tokens, Window(t, Day))
              /\ Total(Costs', Window(t, Day)) = Total(Costs, Window(t, Day))
            BY <3>2, <3>3, TotalSame
        <3>. QED  BY <3>1, <3>4 DEF SpendTotals
    <2>. QED  BY <2>2, <2>3
<1>. QED  BY <1>0, <1>4, <1>9 DEF SpendTotals

\* update_usage_log: the row of an answer held the estimate until then.
LEMMA SpendAfterAnswer ==
    ASSUME BudgetAssumption, TypeOK, ReservedWhileInFlight, SpendTotals, TypeOK',
           ReservedWhileInFlight', NEW r \in Request, row[r] # 0, pc[r] # "answered",
           NEW input \in Nat, NEW output \in Nat, NEW cost \in Nat,
           Observed(r, input, output, cost), UNCHANGED <<call, row, inForce>>
    PROVE  SpendTotals'
<1>. DEFINE i == row[r]
<1>0. i \in DOMAIN ledger /\ ledger[i] = Reservation(r)
    BY DEF ReservedWhileInFlight
<1>1. /\ DOMAIN ledger' = DOMAIN ledger
      /\ \A j \in DOMAIN ledger : /\ ledger'[j].ts = ledger[j].ts
                                  /\ j # i => ledger'[j] = ledger[j]
    BY Updated DEF TypeOK
<1>2. \A t \in 0..MaxTime : Window(t, Day)' = Window(t, Day)
    BY <1>1 DEF Window
<1>3. \A j \in DOMAIN ledger : j # i => Tokens'[j] = Tokens[j] /\ Costs'[j] = Costs[j]
    BY <1>1 DEF Tokens, Costs
<1>4. ASSUME NEW q \in Request, q # r
      PROVE  Overruns'[q] = Overruns[q] /\ CostOverruns'[q] = CostOverruns[q]
    <2>1. row[q] # 0 => row[q] \in DOMAIN ledger /\ row[q] # i
        BY <1>4 DEF ReservedWhileInFlight
    <2>2. row[q] # 0 => ledger'[row[q]] = ledger[row[q]]
        BY <1>1, <2>1
    <2>3. Overrun(q)' = Overrun(q) /\ CostOverrun(q)' = CostOverrun(q)
        BY <2>2 DEF Overrun, CostOverrun, Allowance
    <2>. QED  BY <2>3 DEF Overruns, CostOverruns
<1>5. /\ IsFiniteSet(DOMAIN ledger) /\ IsFiniteSet(Request)
      /\ \A j \in DOMAIN ledger : Tokens[j] \in Nat /\ Costs[j] \in Nat
      /\ \A q \in Request : Overruns[q] \in Nat /\ CostOverruns[q] \in Nat
    BY SpendType
<1>6. /\ \A j \in DOMAIN ledger : /\ ledger'[j].input \in Nat /\ ledger'[j].output \in Nat
                                  /\ ledger'[j].cost \in Nat
                                  /\ Tokens'[j] \in Nat /\ Costs'[j] \in Nat
      /\ \A q \in Request : Overruns'[q] \in Nat /\ CostOverruns'[q] \in Nat
    <2>1. \A j \in DOMAIN ledger' : ledger'[j] \in Row
        BY DEF TypeOK
    <2>2. \A j \in DOMAIN ledger : /\ ledger'[j].input \in Nat /\ ledger'[j].output \in Nat
                                   /\ ledger'[j].cost \in Nat
        BY <1>1, <2>1 DEF Row
    <2>3. \A j \in DOMAIN ledger : Tokens'[j] \in Nat /\ Costs'[j] \in Nat
        BY <1>1, <2>2 DEF Tokens, Costs
    <2>4. Overrun(r)' \in Nat /\ CostOverrun(r)' \in Nat
        <3>1. call[r].prompt \in Nat /\ Allowance(r) \in Nat
            BY CallType DEF Allowance, BudgetAssumption
        <3>2. Price(call[r].prompt, Allowance(r)) \in Nat
            BY <3>1, PriceType
        <3>3. Allowance(r)' = Allowance(r)
            BY DEF Allowance
        <3>. QED  BY <1>0, <2>2, <3>1, <3>2, <3>3 DEF Overrun, CostOverrun
    <2>5. Overruns'[r] \in Nat /\ CostOverruns'[r] \in Nat
        BY <2>4 DEF Overruns, CostOverruns
    <2>. QED  BY <1>4, <1>5, <2>2, <2>3, <2>5
<1>7. /\ Overruns[r] = 0 /\ CostOverruns[r] = 0
      /\ Tokens'[i] <= Tokens[i] + Overruns'[r] /\ Costs'[i] <= Costs[i] + CostOverruns'[r]
    <2>1. call[r].prompt \in Nat /\ Allowance(r) \in Nat /\ Allowance(r)' = Allowance(r)
        BY CallType DEF Allowance, BudgetAssumption
    <2>2. Price(call[r].prompt, Allowance(r)) \in Nat
        BY <2>1, PriceType
    <2>3. /\ ledger[i].input + ledger[i].output = call[r].prompt + Allowance(r)
          /\ ledger[i].cost = Price(call[r].prompt, Allowance(r))
        BY <1>0 DEF Reservation
    <2>4. Overrun(r) = 0 /\ CostOverrun(r) = 0
        BY <2>1, <2>2, <2>3 DEF Overrun, CostOverrun
    <2>5. /\ ledger'[i].input + ledger'[i].output <= call[r].prompt + Allowance(r) + Overrun(r)'
          /\ ledger'[i].cost <= Price(call[r].prompt, Allowance(r)) + CostOverrun(r)'
        <3>1. /\ ledger'[i].input \in Nat /\ ledger'[i].output \in Nat
              /\ ledger'[i].cost \in Nat
            BY <1>0, <1>6
        <3>. QED  BY <2>1, <2>2, <3>1 DEF Overrun, CostOverrun
    <2>6. /\ Tokens'[i] = ledger'[i].input + ledger'[i].output /\ Costs'[i] = ledger'[i].cost
          /\ Tokens[i] = ledger[i].input + ledger[i].output /\ Costs[i] = ledger[i].cost
        BY <1>0, <1>1 DEF Tokens, Costs
    <2>7. /\ Overruns[r] = Overrun(r) /\ CostOverruns[r] = CostOverrun(r)
          /\ Overruns'[r] = Overrun(r)' /\ CostOverruns'[r] = CostOverrun(r)'
        BY DEF Overruns, CostOverruns
    <2>. QED  BY <2>3, <2>4, <2>5, <2>6, <2>7
<1>8. ASSUME NEW t \in 0..MaxTime
      PROVE  /\ \E l \in inForce :
                    Total(Tokens', Window(t, Day)) <= l.tokens + Total(Overruns', Request)
             /\ \E l \in inForce :
                    Total(Costs', Window(t, Day)) <= l.cost + Total(CostOverruns', Request)
    <2>1. Window(t, Day) \subseteq DOMAIN ledger
        BY DEF Window
    <2>2. IsFiniteSet(Window(t, Day))
        BY <1>5, <2>1, FS_Subset
    <2>3. /\ \A j \in Window(t, Day) : Tokens[j] \in Nat
          /\ \A j \in Window(t, Day) : Tokens'[j] \in Nat
          /\ \A j \in Window(t, Day) \ {i} : Tokens'[j] = Tokens[j]
          /\ \A q \in Request : Overruns[q] \in Nat
          /\ \A q \in Request : Overruns'[q] \in Nat
          /\ \A q \in Request \ {r} : Overruns'[q] = Overruns[q]
          /\ i \in Window(t, Day) => Tokens'[i] <= Tokens[i] + Overruns'[r]
        BY <1>3, <1>4, <1>5, <1>6, <1>7, <2>1
    <2>4. /\ \A j \in Window(t, Day) : Costs[j] \in Nat
          /\ \A j \in Window(t, Day) : Costs'[j] \in Nat
          /\ \A j \in Window(t, Day) \ {i} : Costs'[j] = Costs[j]
          /\ \A q \in Request : CostOverruns[q] \in Nat
          /\ \A q \in Request : CostOverruns'[q] \in Nat
          /\ \A q \in Request \ {r} : CostOverruns'[q] = CostOverruns[q]
          /\ i \in Window(t, Day) => Costs'[i] <= Costs[i] + CostOverruns'[r]
        BY <1>3, <1>4, <1>5, <1>6, <1>7, <2>1
    <2>5. \A l \in inForce : l.tokens \in Nat /\ l.cost \in Nat
        BY DEF TypeOK, BudgetAssumption, Limits
    <2>. HIDE DEF i
    <2>6. \E l \in inForce : Total(Tokens', Window(t, Day)) <= l.tokens + Total(Overruns', Request)
        <3>1. PICK l \in inForce :
                  Total(Tokens, Window(t, Day)) <= l.tokens + Total(Overruns, Request)
            BY DEF SpendTotals
        <3>2. l.tokens \in Nat
            BY <2>5
        <3>3. Covered(Window(t, Day), Request, i, r,
                      Tokens, Tokens', Overruns, Overruns', l.tokens)
            BY <1>5, <1>7, <2>2, <2>3, <3>1, <3>2 DEF Covered
        <3>4. Total(Tokens', Window(t, Day)) <= l.tokens + Total(Overruns', Request)
            BY <3>3, AnswerCovered
        <3>. QED  BY <3>4
    <2>7. \E l \in inForce : Total(Costs', Window(t, Day)) <= l.cost + Total(CostOverruns', Request)
        <3>1. PICK l \in inForce :
                  Total(Costs, Window(t, Day)) <= l.cost + Total(CostOverruns, Request)
            BY DEF SpendTotals
        <3>2. l.cost \in Nat
            BY <2>5
        <3>3. Covered(Window(t, Day), Request, i, r,
                      Costs, Costs', CostOverruns, CostOverruns', l.cost)
            BY <1>5, <1>7, <2>2, <2>4, <3>1, <3>2 DEF Covered
        <3>4. Total(Costs', Window(t, Day)) <= l.cost + Total(CostOverruns', Request)
            BY <3>3, AnswerCovered
        <3>. QED  BY <3>4
    <2>. QED  BY <2>6, <2>7
<1>. QED  BY <1>2, <1>8 DEF SpendTotals

\* An empty ledger spends nothing.
LEMMA SpendAtFirst ==
    ASSUME BudgetAssumption, Init PROVE SpendTotals
<1>1. TypeOK /\ ReservedWhileInFlight
    BY DEF Init, TypeOK, BudgetAssumption, Call, ReservedWhileInFlight
<1>2. \A t \in 0..MaxTime : Window(t, Day) = {}
    BY DEF Init, Window
<1>3. Total(Tokens, {}) = 0 /\ Total(Costs, {}) = 0
    BY FS_EmptySet, TotalStep
<1>4. Total(Overruns, Request) \in Nat /\ Total(CostOverruns, Request) \in Nat
    BY <1>1, SpendType, TotalNat
<1>5. limits \in inForce /\ limits.tokens \in Nat /\ limits.cost \in Nat
    BY DEF Init, BudgetAssumption, Limits
<1>6. /\ 0 <= limits.tokens + Total(Overruns, Request)
      /\ 0 <= limits.cost + Total(CostOverruns, Request)
    BY <1>4, <1>5
<1>7. ASSUME NEW t \in 0..MaxTime
      PROVE  /\ Total(Tokens, Window(t, Day)) <= limits.tokens + Total(Overruns, Request)
             /\ Total(Costs, Window(t, Day)) <= limits.cost + Total(CostOverruns, Request)
    BY <1>2, <1>3, <1>6
<1>. QED  BY <1>5, <1>7 DEF SpendTotals

\* The tokens and the spend of a rolling day exceed the largest limit that was ever in
\* force by no more than what answers used above their own reservation, however the
\* transactions of reserve_cloud and the updates of update_usage_log interleave.
THEOREM SpendBounded == Spec => []SpendWindows
<1>. USE BudgetAssumption
<1>1. Init => SpendTotals
    BY SpendAtFirst
<1>2. /\ RowInv /\ RowInv' /\ LimitsKnown /\ SpendTotals /\ [Next]_vars
      => SpendTotals'
    <2>. SUFFICES ASSUME RowInv, RowInv', LimitsKnown, SpendTotals, [Next]_vars
                  PROVE  SpendTotals'
        OBVIOUS
    <2>0. /\ TypeOK /\ ReservedWhileInFlight /\ NoRowYet /\ TypeOK' /\ ReservedWhileInFlight'
          /\ \A r \in Request : pc[r] = "idle" => row[r] = 0
          /\ \A r \in Request : pc[r] \in {"dry", "dispatched"} => row[r] # 0
        BY DEF RowInv, NoRowYet, ReservedWhileInFlight
    <2>1. CASE Tick
        BY <2>1, SameSpend DEF Tick
    <2>2. CASE UpdateLimits
        BY <2>2, SameSpend DEF UpdateLimits
    <2>3. CASE Crash
        BY <2>3, SameSpend DEF Crash
    <2>4. ASSUME NEW r \in Request, ReadLimits(r) PROVE SpendTotals'
        <3>1. row[r] = 0 /\ UNCHANGED <<ledger, row, inForce>>
            BY <2>0, <2>4 DEF ReadLimits
        <3>2. \A q \in Request : q # r => call'[q] = call[q]
            BY <2>0, <2>4 DEF ReadLimits, TypeOK
        <3>. QED  BY <3>1, <3>2, SameSpend
    <2>5. ASSUME NEW r \in Request, TakeStamp(r) PROVE SpendTotals'
        BY <2>5, SameSpend DEF TakeStamp
    <2>6. ASSUME NEW r \in Request, Reserve(r) PROVE SpendTotals'
        BY <2>0, <2>6, SpendAfterReserve
    <2>7. ASSUME NEW r \in Request, Refuse(r) PROVE SpendTotals'
        BY <2>7, SameSpend DEF Refuse
    <2>8. ASSUME NEW r \in Request, DryRun(r) PROVE SpendTotals'
        <3>1. CASE call[r].kind = "chat"
            <4>1. call[r].prompt \in Nat /\ DryRunAnswer \in Nat /\ 0 \in Nat
                BY <2>0, CallType DEF BudgetAssumption
            <4>2. /\ Observed(r, call[r].prompt, DryRunAnswer, 0)
                  /\ pc[r] # "answered" /\ row[r] # 0 /\ UNCHANGED <<call, row, inForce>>
                BY <2>0, <2>8, <3>1 DEF DryRun
            <4>. QED  BY <2>0, <4>1, <4>2, SpendAfterAnswer
        <3>2. CASE call[r].kind # "chat"
            BY <2>8, <3>2, SameSpend DEF DryRun
        <3>. QED  BY <3>1, <3>2
    <2>9. ASSUME NEW r \in Request, Settle(r) PROVE SpendTotals'
        <3>1. PICK input \in Prompts, output \in Answers :
                 Observed(r, input, output, Price(input, output))
            BY <2>9 DEF Settle
        <3>2. input \in Nat /\ output \in Nat /\ Price(input, output) \in Nat
            BY PriceType DEF BudgetAssumption
        <3>3. pc[r] # "answered" /\ row[r] # 0 /\ UNCHANGED <<call, row, inForce>>
            BY <2>0, <2>9 DEF Settle
        <3>. QED  BY <2>0, <3>1, <3>2, <3>3, SpendAfterAnswer
    <2>10. ASSUME NEW r \in Request, Fail(r) PROVE SpendTotals'
        BY <2>10, SameSpend DEF Fail
    <2>11. CASE UNCHANGED vars
        BY <2>11, SameSpend DEF vars
    <2>. QED
        BY <2>1, <2>2, <2>3, <2>4, <2>5, <2>6, <2>7, <2>8, <2>9, <2>10, <2>11 DEF Next
<1>3. RowInv /\ SpendTotals => SpendWindows
    BY TotalsAreSpend DEF RowInv
<1>4. Spec => []RowInv
    BY RowsKept
<1>5. Spec => []LimitsKnown
    BY LimitsSeen
<1>. QED  BY <1>1, <1>2, <1>3, <1>4, <1>5, PTL DEF Spec

-----------------------------------------------------------------------------
(* The history of the ledger *)

\* A row is never removed, keeps its timestamp and kind, and takes another usage
\* only when the request that reserved it is answered: docs/RATE_LIMITING.md,
\* reserve_cloud and update_usage_log.
THEOREM HistoryOfRows == Spec => LedgerHistory
<1>. USE BudgetAssumption
<1>. DEFINE Written ==
         \A i \in DOMAIN ledger :
            /\ i \in DOMAIN ledger'
            /\ ledger'[i].ts = ledger[i].ts /\ ledger'[i].kind = ledger[i].kind
            /\ ledger'[i] # ledger[i] =>
                  \E r \in Request : row[r] = i /\ pc[r] # "answered" /\ pc'[r] = "answered"
<1>1. TypeOK /\ [Next]_vars => [Written]_vars
    <2>. SUFFICES ASSUME TypeOK, Next PROVE Written
        OBVIOUS
    <2>1. CASE ledger' = ledger
        BY <2>1
    <2>2. ASSUME NEW r \in Request, Reserve(r) PROVE Written
        <3>1. /\ DOMAIN ledger' = DOMAIN ledger \cup {Len(ledger) + 1}
              /\ \A i \in DOMAIN ledger : ledger'[i] = ledger[i]
            BY <2>2, ReservationType, Appended DEF Reserve, TypeOK
        <3>. QED  BY <3>1
    <2>3. ASSUME NEW r \in Request,
                 NEW input \in Nat, NEW output \in Nat, NEW cost \in Nat,
                 Observed(r, input, output, cost),
                 pc[r] # "answered", pc' = [pc EXCEPT ![r] = "answered"]
          PROVE  Written
        <3>1. /\ DOMAIN ledger' = DOMAIN ledger
              /\ \A i \in DOMAIN ledger :
                    /\ ledger'[i].ts = ledger[i].ts
                    /\ ledger'[i].kind = ledger[i].kind
                    /\ i # row[r] => ledger'[i] = ledger[i]
            BY <2>3, Updated DEF TypeOK
        <3>2. pc'[r] = "answered"
            BY <2>3 DEF TypeOK
        <3>. QED  BY <2>3, <3>1, <3>2
    <2>4. ASSUME NEW r \in Request, DryRun(r) PROVE Written
        <3>1. CASE call[r].kind = "chat"
            <4>1. call[r].prompt \in Nat /\ DryRunAnswer \in Nat /\ 0 \in Nat
                BY CallType DEF BudgetAssumption
            <4>2. /\ Observed(r, call[r].prompt, DryRunAnswer, 0)
                  /\ pc[r] # "answered" /\ pc' = [pc EXCEPT ![r] = "answered"]
                BY <2>4, <3>1 DEF DryRun
            <4>. HIDE DEF Written
            <4>. QED  BY <2>3, <4>1, <4>2
        <3>2. CASE call[r].kind # "chat"
            BY <2>1, <2>4, <3>2 DEF DryRun
        <3>. QED  BY <3>1, <3>2
    <2>5. ASSUME NEW r \in Request, Settle(r) PROVE Written
        <3>1. PICK input \in Prompts, output \in Answers :
                 Observed(r, input, output, Price(input, output))
            BY <2>5 DEF Settle
        <3>2. input \in Nat /\ output \in Nat /\ Price(input, output) \in Nat
            BY PriceType DEF BudgetAssumption
        <3>3. pc[r] # "answered" /\ pc' = [pc EXCEPT ![r] = "answered"]
            BY <2>5 DEF Settle
        <3>. HIDE DEF Written
        <3>. QED  BY <2>3, <3>1, <3>2, <3>3
    <2>6. \/ ledger' = ledger
          \/ \E r \in Request : Reserve(r) \/ DryRun(r) \/ Settle(r)
        BY DEF Next, Tick, UpdateLimits, Crash, ReadLimits, TakeStamp, Refuse, Fail
    <2>. HIDE DEF Written
    <2>. QED  BY <2>1, <2>2, <2>4, <2>5, <2>6
<1>2. Spec => [][Written]_vars
    BY <1>1, TypeCorrect, PTL DEF Spec
<1>. QED  BY <1>2 DEF LedgerHistory

=============================================================================
