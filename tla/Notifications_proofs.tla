------------------------ MODULE Notifications_proofs ------------------------
(***************************************************************************)
(* What is proved of Notifications for every set of accounts, endpoints,   *)
(* WebSockets and messages being delivered.                                *)
(***************************************************************************)
EXTENDS Notifications, FiniteSetTheorems, TLAPS

-----------------------------------------------------------------------------
(* Type correctness *)

\* Subscriptions belong to accounts that exist, and every local keeps its type.
LEMMA TypeStep ==
    ASSUME NotificationsAssumption, TypeOK, [Next]_vars
    PROVE  TypeOK'
<1>. USE DEF store, tabs, fan, worker
<1>1. CASE DeleteUser
    <2>1. PICK u \in users :
             /\ users' = users \ {u}
             /\ subs' = [e \in {e \in DOMAIN subs : subs[e] # u} |-> subs[e]]
        BY <1>1 DEF DeleteUser
    <2>2. DOMAIN subs' \subseteq Endpoint /\ subs' \in [DOMAIN subs' -> Accounts']
        BY <2>1 DEF TypeOK, Accounts
    <2>. QED  BY <1>1, <2>1, <2>2 DEF DeleteUser, TypeOK
<1>2. CASE Subscribe
    <2>1. DOMAIN subs' \subseteq Endpoint /\ subs' \in [DOMAIN subs' -> Accounts]
        BY <1>2 DEF Subscribe, TypeOK
    <2>. QED  BY <1>2, <2>1 DEF Subscribe, TypeOK, Accounts
<1>3. ASSUME NEW e, Drop(e)
      PROVE  DOMAIN subs' \subseteq Endpoint /\ subs' \in [DOMAIN subs' -> Accounts]
    BY <1>3 DEF Drop, TypeOK
<1>4. CASE Unsubscribe
    BY <1>3, <1>4 DEF Unsubscribe, TypeOK, Accounts
<1>5. ASSUME NEW P PROVE Forget(P) => /\ audience' \in [Publish -> SUBSET Socket]
                                      /\ sent' \in [Publish -> SUBSET Socket]
                                      /\ stale' \in [Publish -> SUBSET Socket]
    BY DEF Forget, TypeOK
<1>6. ASSUME NEW P PROVE Unload(P) => /\ target' \in [Publish -> Owner]
                                      /\ listed' \in [Publish -> SUBSET Endpoint]
                                      /\ tried' \in [Publish -> SUBSET Endpoint]
                                      /\ current' \in [Publish -> Endpoint \cup {Nowhere}]
                                      /\ status' \in [Publish -> Status]
    BY DEF Unload, TypeOK, Owner, Status
<1>7. CASE Restart
    <2>1. pc' \in [Publish -> Ended]
        BY <1>7 DEF Restart, Ended
    <2>. QED  BY <1>5, <1>6, <1>7, <2>1 DEF Restart, TypeOK, Accounts
<1>8. ASSUME NEW s \in Socket, Connect(s) \/ CloseTab(s) \/ Disconnect(s) PROVE TypeOK'
    BY <1>8 DEF Connect, CloseTab, Disconnect, TypeOK, Accounts
<1>9. ASSUME NEW p \in Publish, NEW more \in BOOLEAN, Continue(p, more)
      PROVE  /\ pc' \in [Publish -> Ended \cup {"sending", "started", "skipping", "pushing",
                                                "answered", "removed"}]
             /\ target' \in [Publish -> Owner]
             /\ listed' \in [Publish -> SUBSET Endpoint]
             /\ tried' \in [Publish -> SUBSET Endpoint]
             /\ current' \in [Publish -> Endpoint \cup {Nowhere}]
             /\ status' \in [Publish -> Status]
    BY <1>6, <1>9 DEF Continue, Goto, Ended, Status, TypeOK
<1>10. ASSUME NEW p \in Publish, Begin(p) \/ Send(p) \/ SendRaises(p) PROVE TypeOK'
    <2>1. CASE Begin(p)
        BY <2>1 DEF Begin, Goto, TypeOK, Accounts, Owner
    <2>2. CASE Send(p)
        BY <2>2 DEF Send, Unsent, TypeOK, Accounts
    <2>3. CASE SendRaises(p)
        BY <2>3 DEF SendRaises, Unsent, TypeOK, Accounts
    <2>. QED  BY <1>10, <2>1, <2>2, <2>3
<1>11. ASSUME NEW p \in Publish, Fanned(p) \/ Cancel(p) PROVE TypeOK'
    BY <1>5, <1>6, <1>11 DEF Fanned, Cancel, Goto, Ended, TypeOK, Accounts
<1>12. ASSUME NEW p \in Publish, Decline(p) \/ List(p) PROVE TypeOK'
    BY <1>12 DEF Decline, List, Matching, Goto, TypeOK, Accounts
<1>13. ASSUME NEW p \in Publish, Push(p) PROVE TypeOK'
    <2>1. PICK e \in listed[p] \ tried[p] :
             /\ current' = [current EXCEPT ![p] = e]
             /\ tried' = [tried EXCEPT ![p] = @ \cup {e}]
             /\ Answer(p, e)
        BY <1>13 DEF Push
    <2>2. e \in Endpoint
        BY <2>1 DEF TypeOK
    <2>3. status' \in [Publish -> Status] /\ accepted' \subseteq Publish \X Endpoint
        BY <2>1, <2>2 DEF Answer, Status, TypeOK
    <2>. QED  BY <1>13, <2>1, <2>2, <2>3 DEF Push, Goto, TypeOK, Accounts
<1>14. ASSUME NEW p \in Publish, Remove(p) PROVE TypeOK'
    BY <1>3, <1>14 DEF Remove, Goto, TypeOK, Accounts
<1>15. ASSUME NEW p \in Publish, Log(p) PROVE TypeOK'
    <2>1. <<p, current[p], status[p]>> \in Publish \X (Endpoint \cup {Nowhere}) \X Status
        BY DEF TypeOK
    <2>. QED  BY <1>9, <1>15, <2>1 DEF Log, TypeOK, Accounts
<1>16. ASSUME NEW p \in Publish, Skip(p) PROVE TypeOK'
    <2>1. <<p, Nowhere, "skipped">> \in Publish \X (Endpoint \cup {Nowhere}) \X Status
        BY DEF Status
    <2>. QED  BY <1>9, <1>16, <2>1 DEF Skip, TypeOK, Accounts
<1>17. ASSUME NEW p \in Publish, Raise(p) PROVE TypeOK'
    BY <1>6, <1>17 DEF Raise, Goto, Ended, TypeOK, Accounts
<1>18. CASE UNCHANGED vars
    BY <1>18 DEF vars, TypeOK, Accounts
<1>. QED
    BY <1>1, <1>2, <1>4, <1>7, <1>8, <1>10, <1>11, <1>12, <1>13, <1>14, <1>15, <1>16,
       <1>17, <1>18 DEF Next

\* Initially nobody has subscribed, connected or written.
LEMMA TypeInit ==
    ASSUME NotificationsAssumption, Init
    PROVE  TypeOK
BY DEF Init, TypeOK, Accounts, Owner, Ended, Status

\* See TypeStep: in particular no subscription outlives its account (delete_user).
THEOREM TypeCorrect == Spec => []TypeOK
<1>1. Init => TypeOK
    BY NotificationsAssumption, TypeInit
<1>2. TypeOK /\ [Next]_vars => TypeOK'
    BY NotificationsAssumption, TypeStep
<1>. QED  BY <1>1, <1>2, PTL DEF Spec

-----------------------------------------------------------------------------
(* Tabs *)

\* An open tab is registered, and only sockets that are gone are taken for stale.
TabInv ==
    /\ \A s \in Socket : tab[s] = "open" => s \in sockets
    /\ \A p \in Publish : \A s \in stale[p] : tab[s] = "closed"

\* No step unregisters a tab that is open, or gives up on one.
LEMMA TabStep ==
    ASSUME TypeOK, TabInv, [Next]_vars
    PROVE  TabInv'
<1>. USE DEF store, tabs, fan, worker
<1>1. CASE DeleteUser \/ Subscribe \/ Unsubscribe
    BY <1>1 DEF DeleteUser, Subscribe, Unsubscribe, TabInv
<1>2. CASE Restart
    BY <1>2 DEF Restart, Forget, TabInv
<1>3. ASSUME NEW s \in Socket, Connect(s) \/ CloseTab(s) \/ Disconnect(s) PROVE TabInv'
    BY <1>3 DEF Connect, CloseTab, Disconnect, TabInv, TypeOK
<1>4. ASSUME NEW p \in Publish, Begin(p) \/ Send(p) PROVE TabInv'
    BY <1>4 DEF Begin, Send, TabInv
<1>5. ASSUME NEW p \in Publish, SendRaises(p) PROVE TabInv'
    BY <1>5 DEF SendRaises, TabInv, TypeOK
<1>6. ASSUME NEW p \in Publish, Fanned(p) \/ Cancel(p) PROVE TabInv'
    BY <1>6 DEF Fanned, Cancel, Forget, TabInv
<1>7. ASSUME NEW p \in Publish,
             Decline(p) \/ List(p) \/ Push(p) \/ Remove(p) \/ Log(p) \/ Skip(p) \/ Raise(p)
      PROVE  TabInv'
    BY <1>7 DEF Decline, List, Push, Remove, Log, Skip, Raise, TabInv
<1>8. CASE UNCHANGED vars
    BY <1>8 DEF vars, TabInv
<1>. QED
    BY <1>1, <1>2, <1>3, <1>4, <1>5, <1>6, <1>7, <1>8 DEF Next

\* The tables and the tabs together.
LEMMA TabsCorrect == Spec => [](TypeOK /\ TabInv)
<1>1. Init => TypeOK /\ TabInv
    BY NotificationsAssumption, TypeInit DEF Init, TabInv
<1>2. TypeOK /\ TabInv /\ [Next]_vars => (TypeOK /\ TabInv)'
    BY NotificationsAssumption, TypeStep, TabStep
<1>. QED  BY <1>1, <1>2, PTL DEF Spec

\* A call that leaves one place for another is the only one that moves.
LEMMA OneMoves ==
    ASSUME TypeOK, [Next]_vars, NEW p \in Publish, pc'[p] # pc[p]
    PROVE  \/ Restart
           \/ Begin(p) \/ Fanned(p) \/ Cancel(p) \/ Decline(p) \/ List(p) \/ Push(p)
           \/ Remove(p) \/ Log(p) \/ Skip(p) \/ Raise(p)
<1>1. ASSUME NEW q \in Publish, q # p, NEW label, Goto(q, label) PROVE pc'[p] = pc[p]
    BY <1>1 DEF Goto, TypeOK
<1>2. ASSUME NEW q \in Publish, q # p, NEW more, Continue(q, more) PROVE pc'[p] = pc[p]
    BY <1>1, <1>2 DEF Continue
<1>3. ASSUME NEW q \in Publish, q # p,
             \/ Begin(q) \/ Fanned(q) \/ Cancel(q) \/ Decline(q) \/ List(q) \/ Push(q)
             \/ Remove(q) \/ Log(q) \/ Skip(q) \/ Raise(q)
      PROVE  FALSE
    BY <1>1, <1>2, <1>3
    DEF Begin, Fanned, Cancel, Decline, List, Push, Remove, Log, Skip, Raise
<1>. QED
    BY <1>3 DEF Next, DeleteUser, Subscribe, Unsubscribe, Connect, CloseTab, Disconnect,
                Send, SendRaises, vars

\* publish: every tab that stays open until the message is fanned out has it,
\* whichever connections break meanwhile, for any number of tabs and messages.
THEOREM TabsHear == Spec => EveryTabHears
<1>1. TypeOK /\ TabInv /\ [Next]_vars =>
        (\A p \in Publish : pc[p] = "sending" /\ pc'[p] = "started" =>
            \A s \in Socket : tab[s] = "open" =>
                s \in sockets' /\ (s \in audience[p] => s \in sent[p]))
    <2>. SUFFICES ASSUME TypeOK, TabInv, [Next]_vars, NEW p \in Publish,
                         pc[p] = "sending", pc'[p] = "started",
                         NEW s \in Socket, tab[s] = "open"
                  PROVE  s \in sockets' /\ (s \in audience[p] => s \in sent[p])
        OBVIOUS
    <2>1. Fanned(p)
        <3>1. ~Restart
            BY DEF Restart, Ended
        <3>2. \A label : Goto(p, label) => label = "started"
            BY DEF Goto, TypeOK
        <3>. QED
            BY <3>1, <3>2, OneMoves
            DEF Begin, Cancel, Decline, List, Push, Remove, Log, Skip, Raise, Attempted
    <2>2. s \notin stale[p] /\ s \in sockets
        BY DEF TabInv
    <2>. QED  BY <2>1, <2>2 DEF Fanned, Unsent
<1>. QED  BY <1>1, TabsCorrect, PTL DEF Spec, EveryTabHears

-----------------------------------------------------------------------------
(* The ledger *)

Recorded(p) == {e \in Endpoint : <<p, e, "sent">> \in ledger}
Taken(p) == {e \in Endpoint : <<p, e>> \in accepted}

\* The ledger is behind by the subscription the call is at, and only between
\* webpush and its row: LedgerAgrees does not say where, and so is not inductive.
LedgerInv ==
    \A p \in Publish :
        /\ Recorded(p) \subseteq Taken(p)
        /\ \A e, f \in Taken(p) \ Recorded(p) : e = f
        /\ pc[p] \notin {"answered", "removed", "raised", "lost"} => Taken(p) = Recorded(p)
        /\ pc[p] \in {"answered", "removed"} =>
              IF status[p] = "sent"
              THEN current[p] \in Taken(p) /\ Taken(p) \ Recorded(p) \subseteq {current[p]}
              ELSE Taken(p) = Recorded(p)

\* A step that writes neither side, and begins or ends no attempt.
LEMMA LedgerIdle ==
    ASSUME LedgerInv, ledger' = ledger, accepted' = accepted,
           \A q \in Publish :
              \/ pc'[q] \in {"raised", "lost"}
              \/ pc'[q] = pc[q] /\ status'[q] = status[q] /\ current'[q] = current[q]
              \/ pc[q] \notin {"answered", "removed", "raised", "lost"}
                 /\ pc'[q] \notin {"answered", "removed"}
              \/ pc[q] = "answered" /\ pc'[q] = "removed"
                 /\ status'[q] = status[q] /\ current'[q] = current[q]
    PROVE  LedgerInv'
<1>1. \A q \in Publish : Taken(q)' = Taken(q) /\ Recorded(q)' = Recorded(q)
    BY DEF Taken, Recorded
<1>. QED  BY <1>1 DEF LedgerInv

\* Push: webpush returns, or raises.
LEMMA LedgerPush ==
    ASSUME TypeOK, LedgerInv, NEW p \in Publish, Push(p)
    PROVE  LedgerInv'
<1>1. PICK e \in listed[p] \ tried[p] :
         current' = [current EXCEPT ![p] = e] /\ Answer(p, e)
    BY DEF Push
<1>2. /\ e \in Endpoint /\ pc[p] = "pushing" /\ pc'[p] = "answered"
      /\ current'[p] = e /\ Taken(p) = Recorded(p)
    BY <1>1 DEF Push, Goto, TypeOK, LedgerInv
<1>3. \A q \in Publish : Recorded(q)' = Recorded(q)
    BY DEF Push, store, Recorded
<1>4. ASSUME NEW q \in Publish, q # p
      PROVE  /\ Taken(q)' = Taken(q) /\ pc'[q] = pc[q]
             /\ status'[q] = status[q] /\ current'[q] = current[q]
    BY <1>1, <1>4 DEF Push, Goto, Answer, Taken, TypeOK
<1>5. CASE accepted' = accepted /\ status'[p] # "sent"
    <2>1. Taken(p)' = Taken(p)
        BY <1>5 DEF Taken
    <2>. QED  BY <1>2, <1>3, <1>4, <1>5, <2>1 DEF LedgerInv
<1>6. CASE accepted' = accepted \cup {<<p, e>>} /\ status'[p] = "sent"
    <2>1. Taken(p)' = Taken(p) \cup {e}
        BY <1>2, <1>6 DEF Taken
    <2>. QED  BY <1>2, <1>3, <1>4, <1>6, <2>1 DEF LedgerInv
<1>7. \/ accepted' = accepted /\ status'[p] # "sent"
      \/ accepted' = accepted \cup {<<p, e>>} /\ status'[p] = "sent"
    BY <1>1 DEF Answer, TypeOK
<1>. QED  BY <1>5, <1>6, <1>7

\* Log and Skip: the row of the attempt closes the gap.
LEMMA LedgerRow ==
    ASSUME TypeOK, LedgerInv, NEW p \in Publish, Log(p) \/ Skip(p)
    PROVE  LedgerInv'
<1>1. /\ \A q \in Publish : Taken(q)' = Taken(q)
      /\ \A q \in Publish \ {p} : Recorded(q)' = Recorded(q)
    BY DEF Log, Skip, Taken, Recorded
<1>2. /\ pc'[p] \in {"pushing", "done"}
      /\ \A q \in Publish \ {p} :
            pc'[q] = pc[q] /\ status'[q] = status[q] /\ current'[q] = current[q]
    BY DEF Log, Skip, Continue, Unload, Goto, TypeOK
<1>3. Recorded(p)' = Taken(p)
    <2>1. CASE Log(p) /\ status[p] = "sent"
        <3>1. pc[p] = "answered"
            BY <2>1 DEF Log, Attempted
        <3>2. current[p] \in Taken(p) /\ Taken(p) \ Recorded(p) \subseteq {current[p]}
            BY <2>1, <3>1 DEF LedgerInv
        <3>3. Recorded(p)' = Recorded(p) \cup {current[p]}
            BY <2>1, <3>2 DEF Log, Recorded, Taken
        <3>. QED  BY <3>2, <3>3 DEF LedgerInv
    <2>2. CASE Log(p) /\ status[p] # "sent"
        <3>1. pc[p] \in {"answered", "removed"}
            BY <2>2 DEF Log, Attempted
        <3>2. Taken(p) = Recorded(p)
            BY <2>2, <3>1 DEF LedgerInv
        <3>3. Recorded(p)' = Recorded(p)
            BY <2>2 DEF Log, Recorded
        <3>. QED  BY <3>2, <3>3
    <2>3. CASE Skip(p)
        <3>1. Taken(p) = Recorded(p)
            BY <2>3 DEF Skip, LedgerInv
        <3>2. Recorded(p)' = Recorded(p)
            BY <2>3 DEF Skip, Recorded
        <3>. QED  BY <3>1, <3>2
    <2>. QED  BY <2>1, <2>2, <2>3
<1>. QED  BY <1>1, <1>2, <1>3 DEF LedgerInv

\* Every other step leaves the two as they are.
LEMMA LedgerStep ==
    ASSUME TypeOK, LedgerInv, [Next]_vars
    PROVE  LedgerInv'
<1>. USE DEF store, tabs, fan, worker
<1>1. CASE DeleteUser \/ Subscribe \/ Unsubscribe \/ UNCHANGED vars
    BY <1>1, LedgerIdle DEF DeleteUser, Subscribe, Unsubscribe, vars
<1>2. CASE Restart
    <2>1. ASSUME NEW q \in Publish
          PROVE  \/ pc'[q] \in {"raised", "lost"}
                 \/ pc[q] \notin {"answered", "removed", "raised", "lost"}
                    /\ pc'[q] \notin {"answered", "removed"}
        BY <1>2 DEF Restart, Ended, TypeOK
    <2>. QED  BY <1>2, <2>1, LedgerIdle DEF Restart
<1>3. ASSUME NEW s \in Socket, Connect(s) \/ CloseTab(s) \/ Disconnect(s) PROVE LedgerInv'
    BY <1>3, LedgerIdle DEF Connect, CloseTab, Disconnect
<1>4. ASSUME NEW p \in Publish, Begin(p) \/ Send(p) \/ SendRaises(p) PROVE LedgerInv'
    BY <1>4, LedgerIdle DEF Begin, Send, SendRaises, Goto, TypeOK
<1>5. ASSUME NEW p \in Publish, Fanned(p) \/ Decline(p) \/ List(p) \/ Remove(p) PROVE LedgerInv'
    BY <1>5, LedgerIdle DEF Fanned, Decline, List, Remove, Goto, TypeOK
<1>6. ASSUME NEW p \in Publish, Cancel(p) \/ Raise(p) PROVE LedgerInv'
    BY <1>6, LedgerIdle DEF Cancel, Raise, Unload, Goto, TypeOK
<1>. QED
    BY <1>1, <1>2, <1>3, <1>4, <1>5, <1>6, LedgerPush, LedgerRow DEF Next

\* _send_web_push and log_notification_delivery: what is recorded as sent was
\* accepted, and of a call at most one accepted push is not recorded.
THEOREM LedgerTellsTheTruth == Spec => []LedgerAgrees
<1>1. Init => TypeOK /\ LedgerInv
    BY NotificationsAssumption, TypeInit DEF Init, LedgerInv, Recorded, Taken
<1>2. TypeOK /\ LedgerInv /\ [Next]_vars => (TypeOK /\ LedgerInv)'
    BY NotificationsAssumption, TypeStep, LedgerStep
<1>3. LedgerInv => LedgerAgrees
    BY DEF LedgerInv, LedgerAgrees, Recorded, Taken
<1>. QED  BY <1>1, <1>2, <1>3, PTL DEF Spec

-----------------------------------------------------------------------------
(* One row for every attempt *)

Early == {"idle", "sending", "started", "skipping"}
Within == {"pushing", "answered", "removed"}

\* The attempt a call has begun and not yet recorded.
AtHand(p) == IF pc[p] \in {"answered", "removed"} THEN {current[p]} ELSE {}

OneRow(p, e) == \E r : Rows(p, e) = {r}

\* A worker that has not begun has no rows; one that is at work has one row of every
\* subscription it has gone through but the one at hand, and none of the others.
AttemptInv ==
    \A p \in Publish :
        /\ pc[p] \in Early =>
              /\ listed[p] = {} /\ tried[p] = {}
              /\ \A e \in Endpoint \cup {Nowhere} : Rows(p, e) = {}
        /\ pc[p] \in Within =>
              /\ listed[p] # {} /\ tried[p] \subseteq listed[p] /\ AtHand(p) \subseteq tried[p]
              /\ \A e \in tried[p] \ AtHand(p) : OneRow(p, e)
              /\ \A e \in Endpoint : e \notin tried[p] \/ e \in AtHand(p) => Rows(p, e) = {}

\* A step that writes no row, begins no attempt and records none.
LEMMA AttemptIdle ==
    ASSUME AttemptInv, ledger' = ledger,
           \A q \in Publish :
              \/ pc'[q] \in {"done", "raised", "lost"}
              \/ /\ listed'[q] = listed[q] /\ tried'[q] = tried[q] /\ current'[q] = current[q]
                 /\ \/ pc'[q] = pc[q]
                    \/ pc[q] \in Early /\ pc'[q] \in Early
                    \/ pc[q] = "answered" /\ pc'[q] = "removed"
    PROVE  AttemptInv'
<1>1. \A q, e : Rows(q, e)' = Rows(q, e)
    BY DEF Rows
<1>2. ASSUME NEW q \in Publish, pc'[q] \in Early
      PROVE  /\ listed'[q] = {} /\ tried'[q] = {}
             /\ \A e \in Endpoint \cup {Nowhere} : Rows(q, e)' = {}
    BY <1>1, <1>2 DEF AttemptInv, Early
<1>3. ASSUME NEW q \in Publish, pc'[q] \in Within
      PROVE  /\ listed'[q] = listed[q] /\ tried'[q] = tried[q] /\ AtHand(q)' = AtHand(q)
             /\ pc[q] \in Within
    BY <1>3 DEF AtHand, Early, Within
<1>4. \A q, e : OneRow(q, e)' <=> OneRow(q, e)
    BY <1>1 DEF OneRow
<1>. QED  BY <1>1, <1>2, <1>3, <1>4 DEF AttemptInv

\* list_subscription_records: nothing is tried yet.
LEMMA AttemptList ==
    ASSUME TypeOK, AttemptInv, NEW p \in Publish, List(p)
    PROVE  AttemptInv'
<1>1. \A q, e : Rows(q, e)' = Rows(q, e)
    BY DEF List, store, Rows
<1>2. \A q \in Publish \ {p} :
         /\ pc'[q] = pc[q] /\ listed'[q] = listed[q] /\ tried'[q] = tried[q]
         /\ current'[q] = current[q] /\ AtHand(q)' = AtHand(q)
    BY DEF List, Goto, TypeOK, AtHand
<1>3. /\ pc[p] = "started" /\ pc'[p] = "pushing" /\ listed'[p] # {} /\ tried'[p] = tried[p]
    BY DEF List, Goto, TypeOK
<1>4. tried[p] = {} /\ \A e \in Endpoint : Rows(p, e) = {}
    BY <1>3 DEF AttemptInv, Early
<1>5. AtHand(p)' = {}
    BY <1>3 DEF AtHand
<1>6. \A q, e : OneRow(q, e)' <=> OneRow(q, e)
    BY <1>1 DEF OneRow
<1>. QED  BY <1>1, <1>2, <1>3, <1>4, <1>5, <1>6 DEF AttemptInv, Early, Within

\* webpush: the next subscription is at hand, and has no row.
LEMMA AttemptPush ==
    ASSUME TypeOK, AttemptInv, NEW p \in Publish, Push(p)
    PROVE  AttemptInv'
<1>1. PICK e \in listed[p] \ tried[p] :
         current' = [current EXCEPT ![p] = e] /\ tried' = [tried EXCEPT ![p] = @ \cup {e}]
    BY DEF Push
<1>2. \A q, f : Rows(q, f)' = Rows(q, f)
    BY DEF Push, store, Rows
<1>3. \A q \in Publish \ {p} :
         /\ pc'[q] = pc[q] /\ listed'[q] = listed[q] /\ tried'[q] = tried[q]
         /\ current'[q] = current[q] /\ AtHand(q)' = AtHand(q)
    BY <1>1 DEF Push, Goto, TypeOK, AtHand
<1>4. /\ pc[p] = "pushing" /\ pc'[p] = "answered" /\ listed'[p] = listed[p]
      /\ tried'[p] = tried[p] \cup {e} /\ current'[p] = e /\ e \in Endpoint
    BY <1>1 DEF Push, Goto, TypeOK
<1>5. AtHand(p) = {} /\ AtHand(p)' = {e}
    BY <1>4 DEF AtHand
<1>6. \A q, f : OneRow(q, f)' <=> OneRow(q, f)
    BY <1>2 DEF OneRow
<1>7. /\ listed[p] # {} /\ tried[p] \subseteq listed[p]
      /\ \A f \in tried[p] : OneRow(p, f)
      /\ \A f \in Endpoint : f \notin tried[p] => Rows(p, f) = {}
    BY <1>4, <1>5 DEF AttemptInv, Within
<1>8. /\ tried'[p] \subseteq listed'[p] /\ AtHand(p)' \subseteq tried'[p]
      /\ \A f \in tried'[p] \ AtHand(p)' : OneRow(p, f)'
      /\ \A f \in Endpoint : f \notin tried'[p] \/ f \in AtHand(p)' => Rows(p, f)' = {}
    BY <1>1, <1>2, <1>4, <1>5, <1>6, <1>7
<1>9. pc'[p] \notin Early
    BY <1>4 DEF Early
<1>. QED  BY <1>2, <1>3, <1>4, <1>6, <1>7, <1>8, <1>9 DEF AttemptInv

\* log_notification_delivery: the attempt at hand gets its row.
LEMMA AttemptLogged ==
    ASSUME TypeOK, AttemptInv, NEW p \in Publish, Log(p)
    PROVE  /\ \A e \in tried[p] : OneRow(p, e)'
           /\ \A e \in Endpoint \ tried[p] : Rows(p, e)' = {}
           /\ \A q \in Publish \ {p} : \A e : Rows(q, e)' = Rows(q, e)
<1>1. pc[p] \in {"answered", "removed"}
    BY DEF Log, Attempted
<1>2. /\ current[p] \in tried[p] /\ tried[p] \subseteq Endpoint
      /\ \A e \in tried[p] \ {current[p]} : OneRow(p, e)
      /\ Rows(p, current[p]) = {}
      /\ \A e \in Endpoint \ tried[p] : Rows(p, e) = {}
    BY <1>1 DEF AttemptInv, Within, AtHand, TypeOK
<1>. DEFINE new == <<p, current[p], status[p]>>
<1>3. ledger' = ledger \cup {new} /\ new[1] = p /\ new[2] = current[p]
    BY DEF Log
<1>. HIDE DEF new
<1>4. \A e : e # current[p] => {r \in ledger' : r[1] = p /\ r[2] = e} = Rows(p, e)
    BY <1>3 DEF Rows
<1>5. {r \in ledger' : r[1] = p /\ r[2] = current[p]} = {new}
    BY <1>2, <1>3 DEF Rows
<1>6. ASSUME NEW e \in tried[p]
      PROVE  \E r : {x \in ledger' : x[1] = p /\ x[2] = e} = {r}
    <2>1. CASE e = current[p]
        BY <1>5, <2>1
    <2>2. CASE e # current[p]
        <3>1. PICK r : Rows(p, e) = {r}
            BY <1>2, <2>2 DEF OneRow
        <3>. QED  BY <1>4, <2>2, <3>1
    <2>. QED  BY <2>1, <2>2
<1>7. \A e \in Endpoint \ tried[p] : {x \in ledger' : x[1] = p /\ x[2] = e} = {}
    BY <1>2, <1>4
<1>8. \A q \in Publish \ {p} : \A e :
         {r \in ledger' : r[1] = q /\ r[2] = e} = {r \in ledger : r[1] = q /\ r[2] = e}
    BY <1>3
<1>. QED  BY <1>6, <1>7, <1>8 DEF OneRow, Rows

\* The row of an attempt, or of a call that attempts nothing.
LEMMA AttemptRow ==
    ASSUME NotificationsAssumption, TypeOK, AttemptInv, NEW p \in Publish, Log(p) \/ Skip(p)
    PROVE  AttemptInv'
<1>1. ASSUME NEW q \in Publish \ {p}
      PROVE  /\ pc'[q] = pc[q] /\ listed'[q] = listed[q] /\ tried'[q] = tried[q]
             /\ current'[q] = current[q] /\ AtHand(q)' = AtHand(q)
    <2>1. PICK more : Continue(p, more)
        BY DEF Log, Skip
    <2>2. /\ pc'[q] = pc[q] /\ listed'[q] = listed[q] /\ tried'[q] = tried[q]
          /\ current'[q] = current[q]
        <3>1. CASE Goto(p, "done") /\ Unload({p})
            BY <3>1 DEF Unload, Goto, TypeOK
        <3>2. CASE /\ Goto(p, "pushing") /\ UNCHANGED <<listed, tried>>
                   /\ current' = [current EXCEPT ![p] = Nowhere]
            BY <3>2 DEF Goto, TypeOK
        <3>. QED  BY <2>1, <3>1, <3>2 DEF Continue
    <2>. QED  BY <2>2 DEF AtHand
<1>2. CASE pc'[p] = "done"
    <2>1. ledger' = ledger \cup {<<p, current[p], status[p]>>}
          \/ ledger' = ledger \cup {<<p, Nowhere, "skipped">>}
        BY DEF Log, Skip
    <2>2. \A q \in Publish \ {p} : \A e : Rows(q, e)' = Rows(q, e)
        <3>1. \A q \in Publish \ {p} : \A e :
                 {r \in ledger' : r[1] = q /\ r[2] = e} = {r \in ledger : r[1] = q /\ r[2] = e}
            BY <2>1
        <3>. QED  BY <3>1 DEF Rows
    <2>3. \A q \in Publish \ {p} : \A e : OneRow(q, e)' <=> OneRow(q, e)
        BY <2>2 DEF OneRow
    <2>. QED  BY <1>1, <1>2, <2>2, <2>3 DEF AttemptInv, Early, Within
<1>3. CASE pc'[p] # "done"
    <2>1. Log(p) /\ pc'[p] = "pushing" /\ listed'[p] = listed[p] /\ tried'[p] = tried[p]
        BY <1>3 DEF Log, Skip, Continue, Goto, TypeOK
    <2>2. /\ \A e \in tried[p] : OneRow(p, e)'
          /\ \A e \in Endpoint \ tried[p] : Rows(p, e)' = {}
          /\ \A q \in Publish \ {p} : \A e : Rows(q, e)' = Rows(q, e)
        BY <2>1, AttemptLogged
    <2>3. \A q \in Publish \ {p} : \A e : OneRow(q, e)' <=> OneRow(q, e)
        BY <2>2 DEF OneRow
    <2>4. listed[p] # {} /\ tried[p] \subseteq listed[p] /\ AtHand(p)' = {}
        BY <2>1 DEF AttemptInv, Log, Attempted, Within, AtHand
    <2>5. pc'[p] \notin Early
        BY <2>1 DEF Early
    <2>. QED  BY <1>1, <2>1, <2>2, <2>3, <2>4, <2>5 DEF AttemptInv
<1>. QED  BY <1>2, <1>3

\* Every other step leaves the attempts as they are.
LEMMA AttemptStep ==
    ASSUME NotificationsAssumption, TypeOK, AttemptInv, [Next]_vars
    PROVE  AttemptInv'
<1>. USE DEF store, tabs, fan, worker
<1>1. CASE DeleteUser \/ Subscribe \/ Unsubscribe \/ UNCHANGED vars
    BY <1>1, AttemptIdle DEF DeleteUser, Subscribe, Unsubscribe, vars
<1>2. CASE Restart
    <2>1. ASSUME NEW q \in Publish
          PROVE  \/ pc'[q] \in {"done", "raised", "lost"}
                 \/ pc'[q] = "idle" /\ listed'[q] = {} /\ tried'[q] = {} /\ pc[q] = "idle"
        BY <1>2 DEF Restart, Ended, Unload, TypeOK
    <2>2. \A q, e : Rows(q, e)' = Rows(q, e)
        BY <1>2 DEF Restart, Rows
    <2>. QED  BY <2>1, <2>2 DEF AttemptInv, Early, Within
<1>3. ASSUME NEW s \in Socket, Connect(s) \/ CloseTab(s) \/ Disconnect(s) PROVE AttemptInv'
    BY <1>3, AttemptIdle DEF Connect, CloseTab, Disconnect
<1>4. ASSUME NEW p \in Publish, Begin(p) \/ Send(p) \/ SendRaises(p) \/ Fanned(p) \/ Decline(p)
      PROVE  AttemptInv'
    BY <1>4, AttemptIdle DEF Begin, Send, SendRaises, Fanned, Decline, Goto, Early, TypeOK
<1>5. ASSUME NEW p \in Publish, Remove(p) PROVE AttemptInv'
    BY <1>5, AttemptIdle DEF Remove, Goto, TypeOK
<1>6. ASSUME NEW p \in Publish, Cancel(p) \/ Raise(p) PROVE AttemptInv'
    BY <1>6, AttemptIdle DEF Cancel, Raise, Unload, Goto, TypeOK
<1>. QED
    BY <1>1, <1>2, <1>3, <1>4, <1>5, <1>6, AttemptList, AttemptPush, AttemptRow DEF Next

\* _send_web_push: a worker that ends by itself leaves exactly one row of every
\* subscription it listed, or one that says there was none.
THEOREM AttemptsAreRecorded == Spec => EveryAttemptRecorded
<1>1. Init => AttemptInv
    <2>1. Init => \A p, e : Rows(p, e) = {}
        BY DEF Init, Rows
    <2>. QED  BY <2>1 DEF Init, AttemptInv, Within
<1>2. TypeOK /\ AttemptInv /\ [Next]_vars => AttemptInv'
    BY NotificationsAssumption, AttemptStep
<1>3. TypeOK /\ AttemptInv /\ [Next]_vars =>
        (\A p \in Publish : pc[p] # "done" /\ pc'[p] = "done" =>
            \A e \in (IF listed[p] = {} THEN {Nowhere} ELSE listed[p]) :
                Cardinality(Rows(p, e)') = 1)
    <2>. SUFFICES ASSUME TypeOK, AttemptInv, [Next]_vars, NEW p \in Publish,
                         pc[p] # "done", pc'[p] = "done",
                         NEW e \in (IF listed[p] = {} THEN {Nowhere} ELSE listed[p])
                  PROVE  Cardinality(Rows(p, e)') = 1
        OBVIOUS
    <2>1. Log(p) \/ Skip(p)
        <3>1. ~Restart
            BY DEF Restart, Ended
        <3>2. \A label : Goto(p, label) => label = "done"
            BY DEF Goto, TypeOK
        <3>. QED
            BY <3>1, <3>2, OneMoves
            DEF Begin, Fanned, Cancel, Decline, List, Push, Remove, Raise
    <2>2. ASSUME Log(p) PROVE OneRow(p, e)'
        <3>1. tried[p] = listed[p]
            BY <2>2 DEF Log, Continue, Goto, TypeOK
        <3>2. listed[p] # {}
            BY <2>2 DEF Log, Attempted, AttemptInv, Within
        <3>. QED  BY <2>2, <3>1, <3>2, AttemptLogged
    <2>3. ASSUME Skip(p) PROVE OneRow(p, e)'
        <3>1. pc[p] = "skipping" /\ ledger' = ledger \cup {<<p, Nowhere, "skipped">>}
            BY <2>3 DEF Skip
        <3>2. listed[p] = {} /\ Rows(p, Nowhere) = {}
            BY <3>1 DEF AttemptInv, Early
        <3>3. {r \in ledger' : r[1] = p /\ r[2] = Nowhere} = {<<p, Nowhere, "skipped">>}
            BY <3>1, <3>2 DEF Rows
        <3>. QED  BY <3>2, <3>3 DEF OneRow, Rows
    <2>4. PICK r : Rows(p, e)' = {r}
        BY <2>1, <2>2, <2>3 DEF OneRow
    <2>. QED  BY <2>4, FS_Singleton
<1>. QED  BY <1>1, <1>2, <1>3, TypeCorrect, PTL DEF Spec, EveryAttemptRecorded

=============================================================================
