---------------------------- MODULE Notifications ----------------------------
(***************************************************************************)
(* Delivery of one stored message (notifications.py, publish): first to    *)
(* the open tabs over their WebSockets, then, in a worker thread, to the   *)
(* saved push subscriptions, with a row of notification_deliveries for     *)
(* every attempt.                                                          *)
(*                                                                         *)
(* Tabs come and go while publish awaits a send; accounts, subscriptions   *)
(* and the switch in the settings change while the worker awaits the push  *)
(* service; several messages are delivered at once; the process may die.   *)
(* Every access to the database may fail: the file may be locked for       *)
(* longer than SQLite waits, or a row be one the code cannot read. A push  *)
(* whose answer is lost on the way counts as not accepted, and webpush,    *)
(* which is given no timeout, may never answer.                            *)
(***************************************************************************)
EXTENDS Naturals, FiniteSets

CONSTANTS
    User,           \* ids of the table users
    Admin,          \* the administrator, and NULL in the columns user_id
    Endpoint,       \* endpoints of push subscriptions, unique in their table
    Socket,         \* WebSockets, each opened once
    Principal,      \* who opens each of them
    Publish,        \* calls of publish, each with a message of its own
    CanPush,        \* VAPID keys are configured and pywebpush is installed
    Nowhere         \* no endpoint, in a delivery that was skipped

ASSUME NotificationsAssumption ==
    /\ Admin \notin User
    /\ Nowhere \notin Endpoint
    /\ CanPush \in BOOLEAN
    /\ Principal \in [Socket -> User \cup {Admin}]

VARIABLES
    users,          \* rows of users
    subs,           \* push_subscriptions: endpoint -> user_id
    ledger,         \* rows of notification_deliveries: <<call, endpoint, status>>
    tab,            \* each WebSocket, as its browser sees it
    sockets,        \* the keys of NotificationService.sockets
    accepted,       \* <<call, endpoint>>: webpush returned, the service took it
    pc, target,     \* each call: how far it is, and the user_id of its event
    audience, sent, stale,      \* its sockets, and the two outcomes of send_json
    listed, tried,  \* its subscriptions, and those it has gone through
    current, status \* the subscription it is at, and what the service answered

store == <<users, subs, ledger>>
tabs == <<tab, sockets>>
fan == <<audience, sent, stale>>
worker == <<listed, tried, current, status>>
vars == <<store, accepted, tabs, pc, target, fan, worker>>

Owner == User \cup {Admin}

\* What user_id may be in a row: an account that exists, or NULL.
Accounts == users \cup {Admin}

Goto(p, label) == pc' = [pc EXCEPT ![p] = label]

-----------------------------------------------------------------------------
(* Accounts, settings and subscriptions *)

\* Mutant: push_subscriptions.user_id does not cascade.
DeleteUser_KeepsSubscriptions ==
    /\ \E u \in users : users' = users \ {u}
    /\ UNCHANGED <<subs, ledger, accepted, tabs, pc, target, fan, worker>>

\* delete_user: the subscriptions cascade.
DeleteUser ==
    /\ \E u \in users :
          /\ users' = users \ {u}
          /\ subs' = [e \in {e \in DOMAIN subs : subs[e] # u} |-> subs[e]]
    /\ UNCHANGED <<ledger, accepted, tabs, pc, target, fan, worker>>

\* save_subscription: an endpoint already saved changes hands.
Subscribe ==
    /\ \E e \in Endpoint, u \in Accounts :
          subs' = [f \in DOMAIN subs \cup {e} |-> IF f = e THEN u ELSE subs[f]]
    /\ UNCHANGED <<users, ledger, accepted, tabs, pc, target, fan, worker>>

\* The table without an endpoint: delete_subscription, delete_subscription_by_id.
Drop(e) == subs' = [f \in DOMAIN subs \ {e} |-> subs[f]]

\* By the account that owns it, or by the administrator.
Unsubscribe ==
    /\ \E e \in DOMAIN subs : Drop(e)
    /\ UNCHANGED <<users, ledger, accepted, tabs, pc, target, fan, worker>>

-----------------------------------------------------------------------------
(* The WebSocket endpoint *)

\* event_socket authenticates the token, awaits accept and registers the socket;
\* by then the account may have been deleted.
Connect(s) ==
    /\ tab[s] = "new"
    /\ tab' = [tab EXCEPT ![s] = "open"]
    /\ sockets' = sockets \cup {s}
    /\ UNCHANGED <<store, accepted, pc, target, fan, worker>>

\* The browser closes the connection, or loses it ...
CloseTab(s) ==
    /\ tab[s] = "open"
    /\ tab' = [tab EXCEPT ![s] = "closed"]
    /\ UNCHANGED <<store, accepted, sockets, pc, target, fan, worker>>

\* ... and receive_text raises WebSocketDisconnect some time later.
Disconnect(s) ==
    /\ tab[s] = "closed" /\ s \in sockets
    /\ sockets' = sockets \ {s}
    /\ UNCHANGED <<store, accepted, tab, pc, target, fan, worker>>

-----------------------------------------------------------------------------
(* What is gone when a call is over, or its process *)

\* The locals of the worker thread, and the event.
Unload(P) ==
    /\ target' = [p \in Publish |-> IF p \in P THEN Admin ELSE target[p]]
    /\ listed' = [p \in Publish |-> IF p \in P THEN {} ELSE listed[p]]
    /\ tried' = [p \in Publish |-> IF p \in P THEN {} ELSE tried[p]]
    /\ current' = [p \in Publish |-> IF p \in P THEN Nowhere ELSE current[p]]
    /\ status' = [p \in Publish |-> IF p \in P THEN "skipped" ELSE status[p]]

\* The locals of publish.
Forget(P) ==
    /\ audience' = [p \in Publish |-> IF p \in P THEN {} ELSE audience[p]]
    /\ sent' = [p \in Publish |-> IF p \in P THEN {} ELSE sent[p]]
    /\ stale' = [p \in Publish |-> IF p \in P THEN {} ELSE stale[p]]

-----------------------------------------------------------------------------
(* publish, on the event loop *)

\* The message is stored, and the sockets it concerns are copied.
Begin(p) ==
    /\ pc[p] = "idle"
    /\ \E u \in Accounts :
          /\ target' = [target EXCEPT ![p] = u]
          /\ audience' = [audience EXCEPT ![p] = {s \in sockets : Principal[s] \in {u, Admin}}]
    /\ Goto(p, "sending")
    /\ UNCHANGED <<store, accepted, tabs, sent, stale, worker>>

Unsent(p) == audience[p] \ (sent[p] \cup stale[p])

\* send_json returns; to a connection just lost it may still seem to succeed.
Send(p) ==
    /\ pc[p] = "sending"
    /\ \E s \in Unsent(p) : sent' = [sent EXCEPT ![p] = @ \cup {s}]
    /\ UNCHANGED <<store, accepted, tabs, pc, target, audience, stale, worker>>

\* Mutant: an exception of send_json ends the loop.
SendRaises_Breaks(p) ==
    /\ pc[p] = "sending"
    /\ \E s \in Unsent(p) : tab[s] = "closed" /\ stale' = [stale EXCEPT ![p] = Unsent(p)]
    /\ UNCHANGED <<store, accepted, tabs, pc, target, audience, sent, worker>>

\* send_json raises: the connection is gone.
SendRaises(p) ==
    /\ pc[p] = "sending"
    /\ \E s \in Unsent(p) : tab[s] = "closed" /\ stale' = [stale EXCEPT ![p] = @ \cup {s}]
    /\ UNCHANGED <<store, accepted, tabs, pc, target, audience, sent, worker>>

\* Stale sockets are forgotten and the worker thread is started.
Fanned(p) ==
    /\ pc[p] = "sending" /\ Unsent(p) = {}
    /\ sockets' = sockets \ stale[p]
    /\ Goto(p, "started")
    /\ Forget({p})
    /\ UNCHANGED <<store, accepted, tab, target, worker>>

\* The caller is cancelled while it awaits a send (daemon stop); a cancellation
\* later on does not reach the worker thread.
Cancel(p) ==
    /\ pc[p] = "sending" /\ Unsent(p) # {}
    /\ Goto(p, "lost")
    /\ Forget({p}) /\ Unload({p})
    /\ UNCHANGED <<store, accepted, tabs>>

-----------------------------------------------------------------------------
(* _send_web_push, in a worker thread *)

\* The subscriptions of the account.
Matching(p) == {e \in DOMAIN subs : subs[e] = target[p]}

\* Notifications are switched off in the settings (the administrator can do that
\* at any time), no push can be sent, or no subscription matches.
Decline(p) ==
    /\ pc[p] = "started"
    /\ Goto(p, "skipping")
    /\ UNCHANGED <<store, accepted, tabs, target, fan, worker>>

\* list_subscription_records.
List(p) ==
    /\ pc[p] = "started" /\ CanPush /\ Matching(p) # {}
    /\ listed' = [listed EXCEPT ![p] = Matching(p)]
    /\ Goto(p, "pushing")
    /\ UNCHANGED <<store, accepted, tabs, target, fan, tried, current, status>>

\* Mutant: an error other than 404 and 410 is ignored.
Answer_Ignored(p, e) ==
    \/ /\ \E answer \in {"expired", "sent"} : status' = [status EXCEPT ![p] = answer]
       /\ UNCHANGED accepted
    \/ /\ status' = [status EXCEPT ![p] = "sent"]
       /\ accepted' = accepted \cup {<<p, e>>}

\* webpush: what the push service answers, and whether it took the message.
Answer(p, e) ==
    \/ /\ \E answer \in {"expired", "failed"} : status' = [status EXCEPT ![p] = answer]
       /\ UNCHANGED accepted
    \/ /\ status' = [status EXCEPT ![p] = "sent"]
       /\ accepted' = accepted \cup {<<p, e>>}

\* The next subscription of the list.
Push(p) ==
    /\ pc[p] = "pushing"
    /\ \E e \in listed[p] \ tried[p] :
          /\ current' = [current EXCEPT ![p] = e]
          /\ tried' = [tried EXCEPT ![p] = @ \cup {e}]
          /\ Answer(p, e)
    /\ Goto(p, "answered")
    /\ UNCHANGED <<store, tabs, target, fan, listed>>

\* 404 or 410: the subscription is removed, in a transaction of its own.
Remove(p) ==
    /\ pc[p] = "answered" /\ status[p] = "expired"
    /\ Drop(current[p])
    /\ Goto(p, "removed")
    /\ UNCHANGED <<users, ledger, accepted, tabs, target, fan, worker>>

\* What is left of an attempt is its row.
Attempted(p) == pc[p] = IF status[p] = "expired" THEN "removed" ELSE "answered"

\* The foreign key of notification_deliveries.user_id.
Recordable(p) == target[p] \in Accounts

\* The next subscription, or the end.
Continue(p, more) ==
    \/ /\ more
       /\ Goto(p, "pushing")
       /\ current' = [current EXCEPT ![p] = Nowhere]
       /\ status' = [status EXCEPT ![p] = "skipped"]
       /\ UNCHANGED <<target, listed, tried>>
    \/ ~more /\ Goto(p, "done") /\ Unload({p})

\* Mutant: the loop ends at a subscription that could not be reached.
Log_Stops(p) ==
    /\ Attempted(p) /\ Recordable(p)
    /\ ledger' = ledger \cup {<<p, current[p], status[p]>>}
    /\ Continue(p, tried[p] # listed[p] /\ status[p] # "failed")
    /\ UNCHANGED <<users, subs, accepted, tabs, fan>>

\* log_notification_delivery of one attempt.
Log(p) ==
    /\ Attempted(p) /\ Recordable(p)
    /\ ledger' = ledger \cup {<<p, current[p], status[p]>>}
    /\ Continue(p, tried[p] # listed[p])
    /\ UNCHANGED <<users, subs, accepted, tabs, fan>>

\* The row of a call that attempts nothing.
Skip(p) ==
    /\ pc[p] = "skipping" /\ Recordable(p)
    /\ ledger' = ledger \cup {<<p, Nowhere, "skipped">>}
    /\ Continue(p, FALSE)
    /\ UNCHANGED <<users, subs, accepted, tabs, fan>>

\* The database raises, which nothing catches: the call and its caller end, and
\* the subscriptions that are left get nothing. get_settings, list_subscription_records
\* (also at a subscription whose keys are not an object), delete_subscription and
\* log_notification_delivery do so when the file stays locked, and the last of them
\* always when the account of the row is gone.
Raise(p) ==
    /\ pc[p] \in {"started", "skipping", "answered", "removed"}
    /\ Goto(p, "raised")
    /\ Unload({p})
    /\ UNCHANGED <<store, accepted, tabs, fan>>

-----------------------------------------------------------------------------
Ended == {"idle", "done", "raised", "lost"}

\* The process dies and is started again: what is not stored is gone.
Restart ==
    /\ pc' = [p \in Publish |-> IF pc[p] \in Ended THEN pc[p] ELSE "lost"]
    /\ tab' = [s \in Socket |-> IF tab[s] = "new" THEN "new" ELSE "closed"]
    /\ sockets' = {}
    /\ Forget(Publish) /\ Unload(Publish)
    /\ UNCHANGED <<store, accepted>>

Init ==
    /\ users = User /\ subs = << >> /\ ledger = {}
    /\ tab = [s \in Socket |-> "new"]
    /\ sockets = {} /\ accepted = {}
    /\ pc = [p \in Publish |-> "idle"] /\ target = [p \in Publish |-> Admin]
    /\ audience = [p \in Publish |-> {}] /\ sent = [p \in Publish |-> {}]
    /\ stale = [p \in Publish |-> {}] /\ listed = [p \in Publish |-> {}]
    /\ tried = [p \in Publish |-> {}] /\ current = [p \in Publish |-> Nowhere]
    /\ status = [p \in Publish |-> "skipped"]

Next ==
    \/ DeleteUser \/ Subscribe \/ Unsubscribe \/ Restart
    \/ \E s \in Socket : Connect(s) \/ CloseTab(s) \/ Disconnect(s)
    \/ \E p \in Publish :
          \/ Begin(p) \/ Send(p) \/ SendRaises(p) \/ Fanned(p) \/ Cancel(p)
          \/ Decline(p) \/ List(p) \/ Push(p) \/ Remove(p)
          \/ Log(p) \/ Skip(p) \/ Raise(p)

Spec == Init /\ [][Next]_vars

-----------------------------------------------------------------------------
(* Properties *)

Status == {"sent", "failed", "expired", "skipped"}

TypeOK ==
    /\ users \subseteq User
    /\ DOMAIN subs \subseteq Endpoint /\ subs \in [DOMAIN subs -> Accounts]
    /\ ledger \subseteq Publish \X (Endpoint \cup {Nowhere}) \X Status
    /\ tab \in [Socket -> {"new", "open", "closed"}]
    /\ sockets \subseteq Socket
    /\ accepted \subseteq Publish \X Endpoint
    /\ pc \in [Publish -> Ended \cup {"sending", "started", "skipping", "pushing",
                                      "answered", "removed"}]
    /\ target \in [Publish -> Owner]
    /\ audience \in [Publish -> SUBSET Socket]
    /\ sent \in [Publish -> SUBSET Socket] /\ stale \in [Publish -> SUBSET Socket]
    /\ listed \in [Publish -> SUBSET Endpoint] /\ tried \in [Publish -> SUBSET Endpoint]
    /\ current \in [Publish -> Endpoint \cup {Nowhere}]
    /\ status \in [Publish -> Status]

\* When a message has been fanned out, every tab it concerned that is still open
\* has it, and every open tab is still registered: one dead connection costs no
\* other tab the event, nor its place (publish).
EveryTabHears ==
    [][\A p \in Publish : pc[p] = "sending" /\ pc'[p] = "started" =>
          \A s \in Socket : tab[s] = "open" =>
              s \in sockets' /\ (s \in audience[p] => s \in sent[p])]_vars

\* The ledger and the push service agree: what is recorded as sent was accepted,
\* and of one call at most a single attempt was accepted and is not recorded, the
\* one it is at or was cut off at (the row is written after webpush returns).
LedgerAgrees ==
    \A p \in Publish :
        LET recorded == {e \in Endpoint : <<p, e, "sent">> \in ledger}
            taken == {e \in Endpoint : <<p, e>> \in accepted}
        IN  /\ recorded \subseteq taken
            /\ \A e, f \in taken \ recorded : e = f
            /\ pc[p] = "done" => taken = recorded

Rows(p, e) == {r \in ledger : r[1] = p /\ r[2] = e}

\* A worker that gets to its end, instead of raising or dying, leaves one row for
\* every subscription it listed, whatever became of the subscription, and a row that
\* says so if there was none (a set of rows: writing one twice would not be seen).
EveryAttemptRecorded ==
    [][\A p \in Publish : pc[p] # "done" /\ pc'[p] = "done" =>
          \A e \in (IF listed[p] = {} THEN {Nowhere} ELSE listed[p]) :
              Cardinality(Rows(p, e)') = 1]_vars

=============================================================================
