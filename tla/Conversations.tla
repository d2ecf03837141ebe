--------------------------- MODULE Conversations ---------------------------
(***************************************************************************)
(* Accounts, characters, threads and messages of Kindred, with the         *)
(* handlers that write them: send_message, create_thread and               *)
(* test_notification (main.py), and one character's turn of the daemon     *)
(* (daemon.py, run_once).                                                  *)
(*                                                                         *)
(* Every Database method is a transaction of its own (database.py,         *)
(* connection).  A handler is a sequence of such transactions; what it     *)
(* read in one it uses in the next, and handlers of the thread pool (the   *)
(* deletions and the account administration) run between any two of them,  *)
(* as everything else does while a handler awaits the model.  Foreign keys *)
(* are all that stops a late write: it fails with IntegrityError when a    *)
(* row it names is gone.  AUTOINCREMENT never gives an id out twice.       *)
(***************************************************************************)
EXTENDS Naturals, FiniteSets

CONSTANTS
    User,           \* ids of the table users
    Character,      \* ids of the table characters
    Op,             \* handler instances, each of which runs once
    MaxThread,      \* bound on the ids of the table threads
    Admin           \* the administrator, and NULL in the columns user_id

ASSUME ConversationsAssumption ==
    /\ MaxThread \in Nat
    /\ Admin \notin User

VARIABLES
    users, usedUsers,           \* rows of users, and ids ever given out
    disabled,                   \* users.disabled
    characters, usedCharacters, \* rows of characters, and ids ever given out
    access,                     \* user_character_access
    threads,                    \* threads: id -> [character, user]
    nextThread,                 \* next id of threads
    messages,                   \* rows of messages, with the handler that wrote them
    openedBy,                   \* history: who each thread was opened for
    pc, kind, who,              \* each handler: how far it is, what it is, for whom
    seen,                       \* the thread row it read, or what it will open
    todo                        \* recipients the daemon has still to contact

accounts == <<users, usedUsers, disabled, characters, usedCharacters, access>>
store == <<threads, nextThread, messages, openedBy>>
handlers == <<pc, kind, who, seen, todo>>
vars == <<accounts, store, handlers>>

Owner == User \cup {Admin}
ThreadId == 1..MaxThread
Message == [op : Op, thread : ThreadId, character : Character, user : Owner,
            sender : {"user", "character"}, initiated : BOOLEAN]

-----------------------------------------------------------------------------
(* The store *)

\* The foreign keys of a row that names a character and an owner.
Refers(c, u) == c \in characters /\ u \in users \cup {Admin}

\* thread_belongs_to_user
Allowed(principal, t) ==
    t \in DOMAIN threads /\ (principal = Admin \/ threads[t].user = principal)

\* _require_character_access
CharacterAllowed(principal, c) ==
    c \in characters /\ (principal = Admin \/ <<principal, c>> \in access)

\* authenticate_request: the administrator is not in the table.
Authenticated(principal) == principal = Admin \/ principal \in users \ disabled

\* daemon_recipient_user_ids
Recipients(c) ==
    {u \in users \ disabled : <<u, c>> \in access} \cup
    {a \in {Admin} : users = {} \/ \E t \in DOMAIN threads : threads[t] = [character |-> c, user |-> Admin]}

\* The rows SELECTed by get_or_create_thread; it takes the latest updated.
Existing(c, u) == {t \in DOMAIN threads : threads[t] = [character |-> c, user |-> u]}

\* add_message: the insertion, if its foreign keys hold.
CanAdd(t, c, u) == t \in DOMAIN threads /\ Refers(c, u)

MessageOf(o, sender, initiated) ==
    [op |-> o, thread |-> seen[o].thread, character |-> seen[o].character,
     user |-> seen[o].user, sender |-> sender, initiated |-> initiated]

Without(f, gone) == [t \in DOMAIN f \ gone |-> f[t]]

-----------------------------------------------------------------------------
(* Administration: handlers of one transaction, run in the thread pool *)

CreateCharacter ==
    /\ \E c \in Character \ usedCharacters :
          /\ characters' = characters \cup {c}
          /\ usedCharacters' = usedCharacters \cup {c}
    /\ UNCHANGED <<users, usedUsers, disabled, access, store, handlers>>

\* Mutant: the grants of the character have no foreign key to it.
DeleteCharacter_KeepsGrants ==
    /\ \E c \in characters :
          LET gone == {t \in DOMAIN threads : threads[t].character = c} IN
          /\ characters' = characters \ {c}
          /\ threads' = Without(threads, gone)
          /\ messages' = {m \in messages : m.thread \notin gone /\ m.character # c}
    /\ UNCHANGED <<users, usedUsers, disabled, access, usedCharacters, nextThread, openedBy, handlers>>

\* delete_character: threads, messages and grants go with it.
DeleteCharacter ==
    /\ \E c \in characters :
          LET gone == {t \in DOMAIN threads : threads[t].character = c} IN
          /\ characters' = characters \ {c}
          /\ access' = {a \in access : a[2] # c}
          /\ threads' = Without(threads, gone)
          /\ messages' = {m \in messages : m.thread \notin gone /\ m.character # c}
    /\ UNCHANGED <<users, usedUsers, disabled, usedCharacters, nextThread, openedBy, handlers>>

\* create_user, with its grants in the same transaction.
CreateUser ==
    /\ \E u \in User \ usedUsers, granted \in SUBSET characters :
          /\ users' = users \cup {u}
          /\ usedUsers' = usedUsers \cup {u}
          /\ access' = access \cup ({u} \X granted)
    /\ UNCHANGED <<disabled, characters, usedCharacters, store, handlers>>

\* update_user: disable or enable, and replace the grants.
UpdateUser ==
    /\ \E u \in users, granted \in SUBSET characters, off \in BOOLEAN :
          /\ disabled' = IF off THEN disabled \cup {u} ELSE disabled \ {u}
          /\ access' = {a \in access : a[1] # u} \cup ({u} \X granted)
    /\ UNCHANGED <<users, usedUsers, characters, usedCharacters, store, handlers>>

\* Mutant: the messages of the deleted user keep the user's id.
Orphaned_ThreadsOnly(u) == messages

\* ON DELETE SET NULL of messages.user_id.
Orphaned(u) == {[m EXCEPT !.user = IF @ = u THEN Admin ELSE @] : m \in messages}

\* delete_user: grants cascade; threads and messages stay, without an owner.
DeleteUser ==
    /\ \E u \in users :
          /\ users' = users \ {u}
          /\ disabled' = disabled \ {u}
          /\ access' = {a \in access : a[1] # u}
          /\ threads' = [t \in DOMAIN threads |->
                            [threads[t] EXCEPT !.user = IF @ = u THEN Admin ELSE @]]
          /\ messages' = Orphaned(u)
    /\ UNCHANGED <<usedUsers, characters, usedCharacters, nextThread, openedBy, handlers>>

\* delete_thread, by its owner or by the administrator; messages cascade.
DeleteThread ==
    /\ \E t \in DOMAIN threads :
          /\ threads' = Without(threads, {t})
          /\ messages' = {m \in messages : m.thread # t}
    /\ UNCHANGED <<accounts, nextThread, openedBy, handlers>>

-----------------------------------------------------------------------------
(* Steps shared by the handlers *)

Goto(o, label) == pc' = [pc EXCEPT ![o] = label]

\* The handler goes on, and writes nothing.
MoveOn(o, label) == Goto(o, label) /\ UNCHANGED <<accounts, store, kind, who, seen, todo>>

\* It returns, or an exception leaves it: 404, 403, 429, 503, IntegrityError or a
\* missing row.  Nothing of the current transaction is kept, nor any local.
Leave(o) ==
    /\ Goto(o, "over")
    /\ kind' = [kind EXCEPT ![o] = "chat"]
    /\ who' = [who EXCEPT ![o] = Admin]
    /\ seen' = [seen EXCEPT ![o] = [thread |-> 0, character |-> @.character, user |-> Admin]]
    /\ todo' = [todo EXCEPT ![o] = {}]
    /\ UNCHANGED <<accounts, store>>

\* Insert the thread of get_or_create_thread and of POST /api/threads.
InsertThread(o) ==
    /\ Refers(seen[o].character, seen[o].user)
    /\ nextThread <= MaxThread
    /\ threads' = [t \in DOMAIN threads \cup {nextThread} |->
                      IF t = nextThread
                      THEN [character |-> seen[o].character, user |-> seen[o].user]
                      ELSE threads[t]]
    /\ nextThread' = nextThread + 1
    /\ openedBy' = [openedBy EXCEPT ![nextThread] = seen[o].user]
    /\ seen' = [seen EXCEPT ![o].thread = nextThread]
    /\ UNCHANGED <<accounts, messages, kind, who, todo>>

\* Mutant: the row is inserted without enforcing its foreign key to users
\* (PRAGMA foreign_keys left off).
AddMessage_UnenforcedUser(o, sender, initiated) ==
    /\ seen[o].thread \in DOMAIN threads /\ seen[o].character \in characters
    /\ messages' = messages \cup {MessageOf(o, sender, initiated)}
    /\ UNCHANGED <<accounts, threads, nextThread, openedBy, kind, who, seen, todo>>

AddMessage(o, sender, initiated) ==
    /\ CanAdd(seen[o].thread, seen[o].character, seen[o].user)
    /\ messages' = messages \cup {MessageOf(o, sender, initiated)}
    /\ UNCHANGED <<accounts, threads, nextThread, openedBy, kind, who, seen, todo>>

\* The insertion fails on a foreign key.
CannotAdd(o) == ~CanAdd(seen[o].thread, seen[o].character, seen[o].user)

-----------------------------------------------------------------------------
(* POST /api/threads/{id}/messages *)

\* _require_thread_access: get_thread ...
ChatOpen(o) ==
    /\ pc[o] = "idle"
    /\ \E p \in Owner, t \in DOMAIN threads :
          /\ Authenticated(p)
          /\ who' = [who EXCEPT ![o] = p]
          /\ seen' = [seen EXCEPT ![o] = [thread |-> t, character |-> threads[t].character,
                                          user |-> threads[t].user]]
    /\ kind' = [kind EXCEPT ![o] = "chat"]
    /\ Goto(o, "opened")
    /\ UNCHANGED <<accounts, store, todo>>

\* ... then thread_belongs_to_user, which reads the thread again.
ChatAllow(o) ==
    /\ pc[o] = "opened"
    /\ IF Allowed(who[o], seen[o].thread) THEN MoveOn(o, "allowed") ELSE Leave(o)

ChatCharacter(o) ==
    /\ pc[o] = "allowed"
    /\ IF seen[o].character \in characters THEN MoveOn(o, "ready") ELSE Leave(o)

ChatQuestion(o) ==
    /\ pc[o] = "ready"
    /\ \/ AddMessage(o, "user", FALSE) /\ Goto(o, "asked")
       \/ CannotAdd(o) /\ Leave(o)

\* Mutant: a failed generation takes the question back.
ChatUnavailable_Retract(o) ==
    /\ pc[o] = "asked"
    /\ messages' = {m \in messages : m.op # o}
    /\ Goto(o, "over")
    /\ UNCHANGED <<accounts, threads, nextThread, openedBy, kind, who, seen, todo>>

\* respond raises: 503, 429, or an exception from the embedding cache.
ChatUnavailable(o) == pc[o] = "asked" /\ Leave(o)

\* Mutant: the answer is stored even when the question failed.
ChatAnswer_Eager(o) ==
    /\ pc[o] \in {"ready", "asked"}
    /\ \/ AddMessage(o, "character", FALSE) /\ Goto(o, "next")
       \/ CannotAdd(o) /\ Leave(o)

\* respond returns, arbitrarily later.
ChatAnswer(o) ==
    /\ pc[o] = "asked"
    /\ \/ AddMessage(o, "character", FALSE) /\ Goto(o, "next")
       \/ CannotAdd(o) /\ Leave(o)

-----------------------------------------------------------------------------
(* Opening a thread, and writing first *)

Begin(o, k, p, c) ==
    /\ pc[o] = "idle"
    /\ kind' = [kind EXCEPT ![o] = k]
    /\ who' = [who EXCEPT ![o] = p]
    /\ seen' = [seen EXCEPT ![o] = [thread |-> 0, character |-> c, user |-> p]]

\* POST /api/threads, up to the insertion.
ThreadStart(o) ==
    /\ \E p \in Owner, c \in characters :
          Authenticated(p) /\ CharacterAllowed(p, c) /\ Begin(o, "thread", p, c)
    /\ Goto(o, "found")
    /\ UNCHANGED <<accounts, store, todo>>

\* POST /api/notifications/test, up to get_or_create_thread.
TestStart(o) ==
    /\ \E p \in Owner, c \in characters :
          /\ Authenticated(p) /\ CharacterAllowed(p, c) /\ Begin(o, "test", p, c)
          /\ todo' = [todo EXCEPT ![o] = {p}]
    /\ Goto(o, "next")
    /\ UNCHANGED <<accounts, store>>

\* run_once reaches a character of the list it read at its start and decides to
\* initiate; the character may have been deleted meanwhile.
DaemonStart(o) ==
    /\ \E c \in usedCharacters :
          /\ Begin(o, "daemon", Admin, c)
          /\ todo' = [todo EXCEPT ![o] = Recipients(c)]
    /\ Goto(o, "next")
    /\ UNCHANGED <<accounts, store>>

\* get_or_create_thread for one recipient: the SELECT.
FindThread(o) ==
    /\ pc[o] = "next" /\ todo[o] # {}
    /\ \E u \in todo[o] :
          LET found == Existing(seen[o].character, u) IN
          \E t \in IF found = {} THEN {0} ELSE found :
              /\ todo' = [todo EXCEPT ![o] = @ \ {u}]
              /\ seen' = [seen EXCEPT ![o] = [thread |-> t, character |-> @.character, user |-> u]]
    /\ Goto(o, "found")
    /\ UNCHANGED <<accounts, store, kind, who>>

\* get_or_create_thread: get_thread of the row found, or create_thread.
OpenThread(o) ==
    /\ pc[o] = "found"
    /\ \/ /\ seen[o].thread # 0
          /\ IF seen[o].thread \in DOMAIN threads THEN MoveOn(o, "generating") ELSE Leave(o)
       \/ /\ seen[o].thread = 0
          /\ InsertThread(o)
          /\ Goto(o, IF kind[o] = "thread" THEN "next" ELSE "generating")
       \/ /\ seen[o].thread = 0
          /\ ~Refers(seen[o].character, seen[o].user)
          /\ Leave(o)

\* BackendUnavailable ends the turn: later recipients are not contacted.
DaemonUnavailable(o) ==
    /\ pc[o] = "generating" /\ kind[o] = "daemon"
    /\ Leave(o)

\* The message the character initiates; the test endpoint asks no model.
Initiate(o) ==
    /\ pc[o] = "generating"
    /\ \/ AddMessage(o, "character", TRUE) /\ Goto(o, "next")
       \/ CannotAdd(o) /\ Leave(o)

\* Nobody is left to contact, or the answer is stored, or the thread is open.
Finish(o) == pc[o] = "next" /\ todo[o] = {} /\ Leave(o)

-----------------------------------------------------------------------------
Init ==
    /\ users = {} /\ usedUsers = {} /\ disabled = {} /\ access = {}
    /\ characters = {} /\ usedCharacters = {}
    /\ threads = << >> /\ nextThread = 1 /\ messages = {}
    /\ openedBy = [t \in ThreadId |-> Admin]
    /\ pc = [o \in Op |-> "idle"] /\ kind = [o \in Op |-> "chat"]
    /\ who = [o \in Op |-> Admin] /\ todo = [o \in Op |-> {}]
    /\ \E c \in Character :
          seen = [o \in Op |-> [thread |-> 0, character |-> c, user |-> Admin]]

Administration ==
    \/ CreateCharacter \/ DeleteCharacter \/ CreateUser \/ UpdateUser
    \/ DeleteUser \/ DeleteThread

Handler(o) ==
    \/ ChatOpen(o) \/ ChatAllow(o) \/ ChatCharacter(o) \/ ChatQuestion(o)
    \/ ChatUnavailable(o) \/ ChatAnswer(o)
    \/ ThreadStart(o) \/ TestStart(o) \/ DaemonStart(o)
    \/ FindThread(o) \/ OpenThread(o) \/ DaemonUnavailable(o) \/ Initiate(o) \/ Finish(o)

Next == Administration \/ \E o \in Op : Handler(o)

Spec == Init /\ [][Next]_vars

-----------------------------------------------------------------------------
(* Properties *)

TypeOK ==
    /\ users \subseteq usedUsers /\ usedUsers \subseteq User /\ disabled \subseteq users
    /\ characters \subseteq usedCharacters /\ usedCharacters \subseteq Character
    /\ access \subseteq users \X characters
    /\ nextThread \in 1..(MaxThread + 1)
    /\ DOMAIN threads \subseteq 1..(nextThread - 1)
    /\ threads \in [DOMAIN threads -> [character : Character, user : Owner]]
    /\ messages \subseteq Message
    /\ openedBy \in [ThreadId -> Owner]
    /\ pc \in [Op -> {"idle", "opened", "allowed", "ready", "asked", "next", "found",
                      "generating", "over"}]
    /\ kind \in [Op -> {"chat", "thread", "test", "daemon"}]
    /\ who \in [Op -> Owner]
    /\ seen \in [Op -> [thread : ThreadId \cup {0}, character : Character, user : Owner]]
    /\ todo \in [Op -> SUBSET Owner]

\* A message carries the character and the owner of its own thread, whatever was
\* deleted while its handler held the thread row it had read: the copies of
\* character_id and user_id in messages never disagree with threads
\* (send_message, run_once, delete_user's SET NULL).
MessageMatchesThread ==
    \A m \in messages :
        /\ m.thread \in DOMAIN threads
        /\ m.character = threads[m.thread].character
        /\ m.user = threads[m.thread].user

\* Every reply that is not initiated stands in the same thread as the question
\* its handler stored before it, and no handler ever answers twice.
EveryReplyHasItsQuestion ==
    \A m \in messages :
        m.sender = "character" /\ ~m.initiated =>
            /\ \E q \in messages : q.op = m.op /\ q.thread = m.thread /\ q.sender = "user"
            /\ \A n \in messages : n.op = m.op /\ n.sender = "character" => n = m

\* History is lost only with its thread: as long as a thread exists no step
\* removes a message from it, a failed generation included (503 in
\* send_message), and a message is never moved to another thread.
HistoryKept ==
    [][\A m \in messages : m.thread \in DOMAIN threads' =>
          \E n \in messages' : /\ [n EXCEPT !.user = m.user] = m
                               /\ n.user \in {m.user, Admin}]_vars

\* docs/AUTHENTICATION.md: thread listing is scoped to the signed-in account, so
\* that the administrator does not continue a regular user's conversation.  The
\* administrator's own list is the threads without an owner (list_threads).
AdminListIsOwn ==
    \A t \in DOMAIN threads : threads[t].user = Admin => openedBy[t] = Admin

=============================================================================
