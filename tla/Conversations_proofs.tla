------------------------ MODULE Conversations_proofs ------------------------
(***************************************************************************)
(* What is proved of Conversations for every set of users, characters and  *)
(* handlers and every number of threads.                                   *)
(***************************************************************************)
EXTENDS Conversations, TLAPS

Seen == [thread : ThreadId \cup {0}, character : Character, user : Owner]
Thread == [character : Character, user : Owner]

-----------------------------------------------------------------------------
(* Type correctness *)

LEMMA RecipientsType ==
    ASSUME TypeOK, NEW c
    PROVE  Recipients(c) \subseteq users \cup {Admin}
BY DEF Recipients, TypeOK

\* A row in the table threads, and its id.
LEMMA ThreadType ==
    ASSUME ConversationsAssumption, TypeOK, NEW t \in DOMAIN threads
    PROVE  /\ t \in ThreadId /\ t < nextThread
           /\ threads[t] \in Thread
           /\ threads[t].character \in Character /\ threads[t].user \in Owner
<1>1. threads[t] \in Thread
    BY DEF TypeOK, Thread
<1>2. t \in 1..(nextThread - 1) /\ nextThread \in 1..(MaxThread + 1) /\ MaxThread \in Nat
    BY DEF TypeOK, ConversationsAssumption
<1>. QED  BY <1>1, <1>2 DEF Thread, ThreadId

\* What a handler has seen.
LEMMA SeenType ==
    ASSUME TypeOK, NEW o \in Op
    PROVE  /\ seen[o] \in Seen
           /\ seen[o].thread \in ThreadId \cup {0}
           /\ seen[o].character \in Character
           /\ seen[o].user \in Owner
<1>1. seen[o] \in Seen
    BY DEF TypeOK, Seen
<1>. QED  BY <1>1 DEF Seen

LEMMA AddMessageType ==
    ASSUME ConversationsAssumption, TypeOK, NEW o \in Op,
           NEW sender \in {"user", "character"}, NEW initiated \in BOOLEAN,
           AddMessage(o, sender, initiated)
    PROVE  messages' \subseteq Message
<1>1. seen[o].thread \in ThreadId
    BY ThreadType DEF AddMessage, CanAdd
<1>2. MessageOf(o, sender, initiated) \in Message
    BY <1>1, SeenType DEF MessageOf, Message
<1>. QED  BY <1>2 DEF AddMessage, TypeOK

LEMMA InsertThreadType ==
    ASSUME ConversationsAssumption, TypeOK, NEW o \in Op, InsertThread(o)
    PROVE  /\ nextThread' \in 1..(MaxThread + 1)
           /\ DOMAIN threads' = DOMAIN threads \cup {nextThread}
           /\ DOMAIN threads' \subseteq 1..(nextThread' - 1)
           /\ threads' \in [DOMAIN threads' -> Thread]
           /\ openedBy' \in [ThreadId -> Owner]
           /\ seen' \in [Op -> Seen]
<1>1. nextThread \in ThreadId /\ nextThread' = nextThread + 1 /\ nextThread' \in 1..(MaxThread + 1)
    BY DEF InsertThread, TypeOK, ConversationsAssumption, ThreadId
<1>2. DOMAIN threads' = DOMAIN threads \cup {nextThread}
    BY DEF InsertThread
<1>3. DOMAIN threads' \subseteq 1..(nextThread' - 1)
    BY <1>1, <1>2 DEF TypeOK, ConversationsAssumption
<1>4. [character |-> seen[o].character, user |-> seen[o].user] \in Thread
    BY SeenType DEF Thread
<1>5. threads' \in [DOMAIN threads' -> Thread]
    BY <1>4, ThreadType DEF InsertThread
<1>6. openedBy' \in [ThreadId -> Owner]
    BY <1>1, SeenType DEF InsertThread, TypeOK
<1>7. seen' \in [Op -> Seen]
    <2>1. [seen[o] EXCEPT !.thread = nextThread] \in Seen
        BY <1>1, SeenType DEF Seen
    <2>. QED  BY <2>1 DEF InsertThread, TypeOK, Seen
<1>. QED  BY <1>1, <1>2, <1>3, <1>5, <1>6, <1>7

\* Where a handler can be.
Label == {"idle", "opened", "allowed", "ready", "asked", "next", "found", "generating", "over"}

\* A handler that moves on, or leaves.
LEMMA MoveOnType ==
    ASSUME TypeOK, NEW o \in Op, NEW label \in Label, MoveOn(o, label)
    PROVE  TypeOK'
<1>. QED  BY DEF MoveOn, Goto, TypeOK, accounts, store, Label

\* A handler that is over keeps no local.
LEMMA LeaveType ==
    ASSUME TypeOK, NEW o \in Op, Leave(o)
    PROVE  TypeOK'
<1>1. [thread |-> 0, character |-> seen[o].character, user |-> Admin] \in Seen
    BY SeenType DEF Seen, Owner
<1>2. seen' \in [Op -> Seen] /\ who' \in [Op -> Owner] /\ todo' \in [Op -> SUBSET Owner]
    BY <1>1 DEF Leave, TypeOK, Seen, Owner
<1>. QED  BY <1>2 DEF Leave, Goto, TypeOK, accounts, store, Seen

\* The tables and the handlers keep their types, grants stay between rows that
\* exist, and ids stay below the counter, under every interleaving.
LEMMA TypeStep ==
    ASSUME ConversationsAssumption, TypeOK, [Next]_vars
    PROVE  TypeOK'
<1>. USE DEF accounts, store, handlers, Thread, Seen
<1>1. CASE CreateCharacter
    BY <1>1 DEF CreateCharacter, TypeOK
<1>2. CASE DeleteCharacter
    <2>1. PICK c \in characters :
             LET gone == {t \in DOMAIN threads : threads[t].character = c} IN
             /\ characters' = characters \ {c}
             /\ access' = {a \in access : a[2] # c}
             /\ threads' = Without(threads, gone)
             /\ messages' = {m \in messages : m.thread \notin gone /\ m.character # c}
        BY <1>2 DEF DeleteCharacter
    <2>2. access' \subseteq users' \X characters'
        BY <1>2, <2>1 DEF DeleteCharacter, TypeOK
    <2>3. /\ DOMAIN threads' \subseteq 1..(nextThread' - 1)
          /\ threads' \in [DOMAIN threads' -> Thread]
        BY <1>2, <2>1 DEF DeleteCharacter, TypeOK, Without
    <2>. QED  BY <1>2, <2>1, <2>2, <2>3 DEF DeleteCharacter, TypeOK
<1>3. CASE CreateUser
    BY <1>3 DEF CreateUser, TypeOK
<1>4. CASE UpdateUser
    BY <1>4 DEF UpdateUser, TypeOK
<1>5. CASE DeleteUser
    <2>1. PICK u \in users :
             /\ users' = users \ {u}
             /\ disabled' = disabled \ {u}
             /\ access' = {a \in access : a[1] # u}
             /\ threads' = [t \in DOMAIN threads |->
                               [threads[t] EXCEPT !.user = IF @ = u THEN Admin ELSE @]]
             /\ messages' = Orphaned(u)
        BY <1>5 DEF DeleteUser
    <2>2. access' \subseteq users' \X characters'
        BY <1>5, <2>1 DEF DeleteUser, TypeOK
    <2>3. /\ DOMAIN threads' \subseteq 1..(nextThread' - 1)
          /\ threads' \in [DOMAIN threads' -> Thread]
        BY <1>5, <2>1, ThreadType DEF DeleteUser, TypeOK, Owner
    <2>4. messages' \subseteq Message
        <3>1. ASSUME NEW m \in messages
              PROVE  [m EXCEPT !.user = IF @ = u THEN Admin ELSE @] \in Message
            BY DEF TypeOK, Message, Owner
        <3>. QED  BY <2>1, <3>1 DEF Orphaned
    <2>5. /\ UNCHANGED <<usedUsers, characters, usedCharacters, nextThread, openedBy>>
          /\ UNCHANGED <<pc, kind, who, seen, todo>>
        BY <1>5 DEF DeleteUser
    <2>6. users' \subseteq usedUsers' /\ disabled' \subseteq users'
        BY <2>1, <2>5 DEF TypeOK
    <2>. QED  BY <2>2, <2>3, <2>4, <2>5, <2>6 DEF TypeOK
<1>6. CASE DeleteThread
    <2>1. PICK t \in DOMAIN threads : /\ threads' = Without(threads, {t})
                                      /\ messages' = {m \in messages : m.thread # t}
        BY <1>6 DEF DeleteThread
    <2>2. /\ DOMAIN threads' \subseteq 1..(nextThread' - 1)
          /\ threads' \in [DOMAIN threads' -> Thread]
        BY <1>6, <2>1 DEF DeleteThread, TypeOK, Without
    <2>. QED  BY <1>6, <2>1, <2>2 DEF DeleteThread, TypeOK
<1>7. ASSUME NEW o \in Op, Handler(o) PROVE TypeOK'
    <2>1. CASE ChatOpen(o)
        <3>1. PICK p \in Owner, t \in DOMAIN threads :
                 /\ who' = [who EXCEPT ![o] = p]
                 /\ seen' = [seen EXCEPT ![o] = [thread |-> t, character |-> threads[t].character,
                                                 user |-> threads[t].user]]
            BY <2>1 DEF ChatOpen
        <3>2. [thread |-> t, character |-> threads[t].character, user |-> threads[t].user] \in Seen
            BY ThreadType
        <3>. QED  BY <2>1, <3>1, <3>2 DEF ChatOpen, Goto, TypeOK
    <2>2. CASE ChatAllow(o)
        BY <2>2, MoveOnType, LeaveType DEF ChatAllow, Label
    <2>3. CASE ChatCharacter(o)
        BY <2>3, MoveOnType, LeaveType DEF ChatCharacter, Label
    <2>4. CASE ChatQuestion(o)
        <3>1. CASE AddMessage(o, "user", FALSE) /\ Goto(o, "asked")
            <4>1. messages' \subseteq Message
                BY <3>1, AddMessageType
            <4>. QED  BY <3>1, <4>1 DEF AddMessage, Goto, TypeOK
        <3>2. CASE Leave(o)
            BY <3>2, LeaveType
        <3>. QED  BY <2>4, <3>1, <3>2 DEF ChatQuestion
    <2>5. CASE ChatUnavailable(o)
        BY <2>5, LeaveType DEF ChatUnavailable
    <2>6. CASE ChatAnswer(o)
        <3>1. CASE AddMessage(o, "character", FALSE) /\ Goto(o, "next")
            <4>1. messages' \subseteq Message
                BY <3>1, AddMessageType
            <4>. QED  BY <3>1, <4>1 DEF AddMessage, Goto, TypeOK
        <3>2. CASE Leave(o)
            BY <3>2, LeaveType
        <3>. QED  BY <2>6, <3>1, <3>2 DEF ChatAnswer
    <2>7. CASE ThreadStart(o)
        <3>1. PICK p \in Owner, c \in characters : Begin(o, "thread", p, c)
            BY <2>7 DEF ThreadStart
        <3>2. [thread |-> 0, character |-> c, user |-> p] \in Seen
            BY DEF TypeOK
        <3>. QED  BY <2>7, <3>1, <3>2 DEF ThreadStart, Begin, Goto, TypeOK
    <2>8. CASE TestStart(o)
        <3>1. PICK p \in Owner, c \in characters :
                 Begin(o, "test", p, c) /\ todo' = [todo EXCEPT ![o] = {p}]
            BY <2>8 DEF TestStart
        <3>2. [thread |-> 0, character |-> c, user |-> p] \in Seen
            BY DEF TypeOK
        <3>. QED  BY <2>8, <3>1, <3>2 DEF TestStart, Begin, Goto, TypeOK
    <2>9. CASE DaemonStart(o)
        <3>1. PICK c \in usedCharacters :
                 Begin(o, "daemon", Admin, c) /\ todo' = [todo EXCEPT ![o] = Recipients(c)]
            BY <2>9 DEF DaemonStart
        <3>2. [thread |-> 0, character |-> c, user |-> Admin] \in Seen
            BY DEF TypeOK, Owner
        <3>3. Recipients(c) \subseteq Owner /\ Admin \in Owner
            BY RecipientsType DEF TypeOK, Owner
        <3>. QED  BY <2>9, <3>1, <3>2, <3>3 DEF DaemonStart, Begin, Goto, TypeOK
    <2>10. CASE FindThread(o)
        <3>1. PICK u \in todo[o], t \in DOMAIN threads \cup {0} :
                 /\ todo' = [todo EXCEPT ![o] = @ \ {u}]
                 /\ seen' = [seen EXCEPT ![o] = [thread |-> t, character |-> @.character, user |-> u]]
            BY <2>10 DEF FindThread, Existing
        <3>2. u \in Owner /\ t \in ThreadId \cup {0}
            BY ThreadType DEF TypeOK
        <3>3. [thread |-> t, character |-> seen[o].character, user |-> u] \in Seen
            BY <3>2, SeenType
        <3>4. seen' \in [Op -> Seen]
            BY <3>1, <3>3 DEF TypeOK
        <3>. QED  BY <2>10, <3>1, <3>4 DEF FindThread, Goto, TypeOK
    <2>11. CASE OpenThread(o)
        <3>1. CASE InsertThread(o) /\ Goto(o, IF kind[o] = "thread" THEN "next" ELSE "generating")
            <4>1. pc' \in [Op -> {"idle", "opened", "allowed", "ready", "asked", "next", "found",
                                  "generating", "over"}]
                BY <3>1 DEF Goto, TypeOK
            <4>. QED  BY <3>1, <4>1, InsertThreadType DEF InsertThread, TypeOK
        <3>2. CASE MoveOn(o, "generating")
            BY <3>2, MoveOnType DEF Label
        <3>3. CASE Leave(o)
            BY <3>3, LeaveType
        <3>. QED  BY <2>11, <3>1, <3>2, <3>3 DEF OpenThread
    <2>12. CASE DaemonUnavailable(o)
        BY <2>12, LeaveType DEF DaemonUnavailable
    <2>13. CASE Initiate(o)
        <3>1. CASE AddMessage(o, "character", TRUE) /\ Goto(o, "next")
            <4>1. messages' \subseteq Message
                BY <3>1, AddMessageType
            <4>. QED  BY <3>1, <4>1 DEF AddMessage, Goto, TypeOK
        <3>2. CASE Leave(o)
            BY <3>2, LeaveType
        <3>. QED  BY <2>13, <3>1, <3>2 DEF Initiate
    <2>14. CASE Finish(o)
        BY <2>14, LeaveType DEF Finish
    <2>. QED
        BY <1>7, <2>1, <2>2, <2>3, <2>4, <2>5, <2>6, <2>7, <2>8, <2>9, <2>10, <2>11,
           <2>12, <2>13, <2>14 DEF Handler
<1>8. CASE UNCHANGED vars
    BY <1>8 DEF vars, TypeOK
<1>. QED
    BY <1>1, <1>2, <1>3, <1>4, <1>5, <1>6, <1>7, <1>8 DEF Next, Administration

\* See TypeStep; initially the database is empty and nobody has begun.
THEOREM TypeCorrect == Spec => []TypeOK
<1>1. Init => TypeOK
    BY ConversationsAssumption DEF Init, TypeOK, Owner, ThreadId
<1>2. TypeOK /\ [Next]_vars => TypeOK'
    BY ConversationsAssumption, TypeStep
<1>. QED  BY <1>1, <1>2, PTL DEF Spec

-----------------------------------------------------------------------------
(* Messages and threads agree *)

\* The foreign keys of threads.
StoreRefers == \A t \in DOMAIN threads : Refers(threads[t].character, threads[t].user)

\* The row a handler holds is still the row of the table, unless the thread is
\* gone or its owner is: ids are not reused, a thread never changes character,
\* and its owner only ever becomes NULL, when the owner is deleted.
HoldsRow(o) == pc[o] \in {"opened", "allowed", "ready", "asked", "found", "generating"}

SeenFaithful ==
    \A o \in Op :
        /\ seen[o].user \in usedUsers \cup {Admin}
        /\ todo[o] \subseteq usedUsers \cup {Admin}
        /\ seen[o].thread < nextThread
        /\ HoldsRow(o) /\ seen[o].thread \in DOMAIN threads =>
              /\ seen[o].character = threads[seen[o].thread].character
              /\ seen[o].user \in users \cup {Admin} =>
                    seen[o].user = threads[seen[o].thread].user

AgreeInv == TypeOK /\ StoreRefers /\ SeenFaithful /\ MessageMatchesThread

AgreeNext == StoreRefers' /\ SeenFaithful' /\ MessageMatchesThread'

\* Nothing is stored at first, and nobody holds anything.
LEMMA AgreeInit == Init => AgreeInv
<1>1. Init => TypeOK
    BY ConversationsAssumption DEF Init, TypeOK, Owner, ThreadId
<1>2. Init => StoreRefers /\ SeenFaithful /\ MessageMatchesThread
    BY DEF Init, StoreRefers, SeenFaithful, HoldsRow, MessageMatchesThread
<1>. QED  BY <1>1, <1>2 DEF AgreeInv

\* A message is inserted with the character and the owner of its thread.
LEMMA AddMessageAgrees ==
    ASSUME ConversationsAssumption, AgreeInv, NEW o \in Op, HoldsRow(o),
           NEW sender, NEW initiated, AddMessage(o, sender, initiated),
           NEW label, label \notin {"found"}, Goto(o, label)
    PROVE  AgreeNext
<1>1. /\ seen[o].thread \in DOMAIN threads
      /\ seen[o].character = threads[seen[o].thread].character
      /\ seen[o].user = threads[seen[o].thread].user
    BY DEF AddMessage, CanAdd, Refers, AgreeInv, SeenFaithful
<1>2. MessageMatchesThread'
    BY <1>1 DEF AddMessage, MessageOf, AgreeInv, MessageMatchesThread
<1>3. StoreRefers'
    BY DEF AddMessage, accounts, AgreeInv, StoreRefers, Refers
<1>4. \A q \in Op : HoldsRow(q)' => HoldsRow(q)
    BY DEF Goto, HoldsRow, AgreeInv, TypeOK
<1>5. SeenFaithful'
    BY <1>4 DEF AddMessage, accounts, AgreeInv, SeenFaithful
<1>. QED  BY <1>2, <1>3, <1>5 DEF AgreeNext

\* A handler that only moves on, and holds no row it did not hold before.
LEMMA MoveAgrees ==
    ASSUME AgreeInv, NEW o \in Op, NEW label, MoveOn(o, label), HoldsRow(o)
    PROVE  AgreeNext
<1>1. \A q \in Op : HoldsRow(q)' => HoldsRow(q)
    BY DEF MoveOn, Goto, HoldsRow, AgreeInv, TypeOK
<1>. QED
    BY <1>1 DEF MoveOn, accounts, store, AgreeInv, AgreeNext, StoreRefers, Refers,
                SeenFaithful, MessageMatchesThread

\* A handler that is over holds nothing.
LEMMA LeaveAgrees ==
    ASSUME ConversationsAssumption, AgreeInv, NEW o \in Op, Leave(o)
    PROVE  AgreeNext
<1>1. \A q \in Op : HoldsRow(q)' => HoldsRow(q) /\ q # o
    BY DEF Leave, Goto, HoldsRow, AgreeInv, TypeOK
<1>2. /\ seen'[o].thread = 0 /\ seen'[o].user = Admin /\ todo'[o] = {}
      /\ \A q \in Op \ {o} : seen'[q] = seen[q] /\ todo'[q] = todo[q]
    BY DEF Leave, AgreeInv, TypeOK
<1>3. 0 < nextThread
    BY DEF AgreeInv, TypeOK, ConversationsAssumption
<1>4. SeenFaithful'
    BY <1>1, <1>2, <1>3 DEF Leave, accounts, store, AgreeInv, SeenFaithful
<1>. QED
    BY <1>4 DEF Leave, accounts, store, AgreeInv, AgreeNext, StoreRefers, Refers,
                MessageMatchesThread

\* A handler that begins, or reads another row.
LEMMA ReadAgrees ==
    ASSUME ConversationsAssumption, AgreeInv, NEW o \in Op, NEW row \in Seen, UNCHANGED <<accounts, store>>,
           seen' = [seen EXCEPT ![o] = row],
           \A q \in Op \ {o} : pc'[q] = pc[q] /\ todo'[q] = todo[q],
           row.user \in usedUsers \cup {Admin},
           todo'[o] \subseteq usedUsers \cup {Admin},
           row.thread < nextThread,
           row.thread \in DOMAIN threads =>
              row.character = threads[row.thread].character /\ row.user = threads[row.thread].user
    PROVE  AgreeNext
<1>1. \A q \in Op : seen'[q] = IF q = o THEN row ELSE seen[q]
    BY DEF AgreeInv, TypeOK
<1>2. \A q \in Op \ {o} : HoldsRow(q)' => HoldsRow(q)
    BY DEF HoldsRow
<1>3. SeenFaithful'
    BY <1>1, <1>2 DEF accounts, store, AgreeInv, SeenFaithful
<1>. QED
    BY <1>3 DEF accounts, store, AgreeInv, AgreeNext, StoreRefers, Refers, MessageMatchesThread

\* A thread is inserted under an id that no message and no handler knows.
LEMMA InsertThreadAgrees ==
    ASSUME ConversationsAssumption, AgreeInv, NEW o \in Op, InsertThread(o),
           \A q \in Op \ {o} : pc'[q] = pc[q]
    PROVE  AgreeNext
<1>1. /\ DOMAIN threads' = DOMAIN threads \cup {nextThread}
      /\ threads'[nextThread] = [character |-> seen[o].character, user |-> seen[o].user]
      /\ \A t \in DOMAIN threads : t # nextThread /\ threads'[t] = threads[t]
      /\ nextThread \in Nat /\ nextThread' = nextThread + 1
      /\ Refers(seen[o].character, seen[o].user)
    BY ThreadType DEF InsertThread, AgreeInv, TypeOK, ConversationsAssumption
<1>2. \A q \in Op : /\ seen'[q].user = seen[q].user /\ seen'[q].character = seen[q].character
                    /\ seen'[q].thread = IF q = o THEN nextThread ELSE seen[q].thread
    BY DEF InsertThread, AgreeInv, TypeOK
<1>3. \A q \in Op \ {o} : /\ HoldsRow(q)' => HoldsRow(q)
                          /\ seen[q].thread # nextThread
    BY <1>1, SeenType DEF HoldsRow, AgreeInv, SeenFaithful, ThreadId
<1>4. \A q \in Op : seen'[q].thread < nextThread'
    BY <1>1, <1>2, SeenType DEF AgreeInv, SeenFaithful, ThreadId
<1>5. SeenFaithful'
    BY <1>1, <1>2, <1>3, <1>4 DEF InsertThread, accounts, AgreeInv, SeenFaithful
<1>6. StoreRefers'
    BY <1>1 DEF InsertThread, accounts, AgreeInv, StoreRefers, Refers
<1>7. MessageMatchesThread'
    BY <1>1 DEF InsertThread, AgreeInv, MessageMatchesThread
<1>. QED  BY <1>5, <1>6, <1>7 DEF AgreeNext

\* Every step keeps messages, threads and the rows handlers hold in agreement.
LEMMA AgreeStep ==
    ASSUME ConversationsAssumption, AgreeInv, [Next]_vars
    PROVE  AgreeNext
<1>. USE DEF accounts, store, handlers
<1>0. TypeOK
    BY DEF AgreeInv
<1>1. CASE CreateCharacter
    BY <1>1 DEF CreateCharacter, AgreeInv, AgreeNext, StoreRefers, Refers, SeenFaithful,
                HoldsRow, MessageMatchesThread
<1>2. CASE DeleteCharacter
    <2>1. PICK c \in characters :
             LET gone == {t \in DOMAIN threads : threads[t].character = c} IN
             /\ characters' = characters \ {c}
             /\ threads' = Without(threads, gone)
             /\ messages' = {m \in messages : m.thread \notin gone /\ m.character # c}
        BY <1>2 DEF DeleteCharacter
    <2>. DEFINE gone == {t \in DOMAIN threads : threads[t].character = c}
    <2>2. /\ DOMAIN threads' = DOMAIN threads \ gone
          /\ \A t \in DOMAIN threads' : threads'[t] = threads[t] /\ threads[t].character # c
        BY <2>1 DEF Without
    <2>3. StoreRefers'
        BY <1>2, <2>1, <2>2 DEF DeleteCharacter, AgreeInv, StoreRefers, Refers
    <2>4. SeenFaithful'
        BY <1>2, <2>2 DEF DeleteCharacter, AgreeInv, SeenFaithful, HoldsRow
    <2>5. MessageMatchesThread'
        BY <2>1, <2>2 DEF AgreeInv, MessageMatchesThread
    <2>. QED  BY <2>3, <2>4, <2>5 DEF AgreeNext
<1>3. CASE CreateUser
    <2>1. PICK u \in User \ usedUsers : users' = users \cup {u} /\ usedUsers' = usedUsers \cup {u}
        BY <1>3 DEF CreateUser
    <2>2. SeenFaithful'
        <3>1. \A o \in Op : seen[o].user # u \/ seen[o].user = Admin
            BY DEF AgreeInv, SeenFaithful
        <3>. QED  BY <1>3, <2>1, <3>1 DEF CreateUser, AgreeInv, SeenFaithful, HoldsRow
    <2>3. StoreRefers' /\ MessageMatchesThread'
        BY <1>3, <2>1 DEF CreateUser, AgreeInv, StoreRefers, Refers, MessageMatchesThread
    <2>. QED  BY <2>2, <2>3 DEF AgreeNext
<1>4. CASE UpdateUser
    BY <1>4 DEF UpdateUser, AgreeInv, AgreeNext, StoreRefers, Refers, SeenFaithful,
                HoldsRow, MessageMatchesThread
<1>5. CASE DeleteUser
    <2>1. PICK u \in users :
             /\ users' = users \ {u}
             /\ threads' = [t \in DOMAIN threads |->
                               [threads[t] EXCEPT !.user = IF @ = u THEN Admin ELSE @]]
             /\ messages' = Orphaned(u)
        BY <1>5 DEF DeleteUser
    <2>2. ASSUME NEW t \in DOMAIN threads
          PROVE  /\ threads'[t].character = threads[t].character
                 /\ threads'[t].user = IF threads[t].user = u THEN Admin ELSE threads[t].user
        BY <1>0, <2>1, ThreadType DEF Thread
    <2>3. DOMAIN threads' = DOMAIN threads /\ u # Admin
        BY <1>0, <2>1 DEF TypeOK, ConversationsAssumption
    <2>4. StoreRefers'
        BY <1>5, <2>1, <2>2, <2>3 DEF DeleteUser, AgreeInv, StoreRefers, Refers
    <2>5. SeenFaithful'
        BY <1>5, <2>1, <2>2, <2>3 DEF DeleteUser, AgreeInv, SeenFaithful, HoldsRow
    <2>6. MessageMatchesThread'
        <3>1. ASSUME NEW n \in messages'
              PROVE  n.thread \in DOMAIN threads' /\ n.character = threads'[n.thread].character
                     /\ n.user = threads'[n.thread].user
            <4>1. PICK m \in messages : n = [m EXCEPT !.user = IF @ = u THEN Admin ELSE @]
                BY <2>1 DEF Orphaned
            <4>2. m \in Message
                BY <1>0 DEF TypeOK
            <4>3. /\ n.thread = m.thread /\ n.character = m.character
                  /\ n.user = IF m.user = u THEN Admin ELSE m.user
                BY <4>1, <4>2 DEF Message
            <4>. QED  BY <2>2, <2>3, <4>3 DEF AgreeInv, MessageMatchesThread
        <3>. QED  BY <3>1 DEF MessageMatchesThread
    <2>. QED  BY <2>4, <2>5, <2>6 DEF AgreeNext
<1>6. CASE DeleteThread
    <2>1. PICK t \in DOMAIN threads : /\ threads' = Without(threads, {t})
                                      /\ messages' = {m \in messages : m.thread # t}
        BY <1>6 DEF DeleteThread
    <2>2. /\ DOMAIN threads' = DOMAIN threads \ {t}
          /\ \A q \in DOMAIN threads' : threads'[q] = threads[q]
        BY <2>1 DEF Without
    <2>3. UNCHANGED <<users, usedUsers, characters, usedCharacters, nextThread,
                      pc, kind, who, seen, todo>>
        BY <1>6 DEF DeleteThread
    <2>4. StoreRefers'
        BY <2>2, <2>3 DEF AgreeInv, StoreRefers, Refers
    <2>5. \A o \in Op : HoldsRow(o)' <=> HoldsRow(o)
        BY <2>3 DEF HoldsRow
    <2>6. SeenFaithful'
        BY <2>2, <2>3, <2>5 DEF AgreeInv, SeenFaithful
    <2>7. MessageMatchesThread'
        BY <2>1, <2>2 DEF AgreeInv, MessageMatchesThread
    <2>. QED  BY <2>4, <2>6, <2>7 DEF AgreeNext
<1>7. ASSUME NEW o \in Op, Handler(o) PROVE AgreeNext
    <2>1. CASE ChatOpen(o)
        <3>1. PICK t \in DOMAIN threads :
                 seen' = [seen EXCEPT ![o] = [thread |-> t, character |-> threads[t].character,
                                              user |-> threads[t].user]]
            BY <2>1 DEF ChatOpen
        <3>. DEFINE row == [thread |-> t, character |-> threads[t].character,
                            user |-> threads[t].user]
        <3>2. row \in Seen /\ row.thread < nextThread
            BY <1>0, ThreadType DEF Seen
        <3>3. row.user \in usedUsers \cup {Admin}
            BY <1>0 DEF AgreeInv, StoreRefers, Refers, TypeOK
        <3>4. /\ UNCHANGED <<accounts, store, todo>>
              /\ \A q \in Op \ {o} : pc'[q] = pc[q]
              /\ todo[o] \subseteq usedUsers \cup {Admin}
            BY <1>0, <2>1 DEF ChatOpen, Goto, TypeOK, AgreeInv, SeenFaithful
        <3>. QED  BY <3>1, <3>2, <3>3, <3>4, ReadAgrees
    <2>2. CASE ChatAllow(o)
        BY <2>2, MoveAgrees, LeaveAgrees DEF ChatAllow, HoldsRow
    <2>3. CASE ChatCharacter(o)
        BY <2>3, MoveAgrees, LeaveAgrees DEF ChatCharacter, HoldsRow
    <2>4. CASE ChatQuestion(o)
        BY <2>4, LeaveAgrees, AddMessageAgrees DEF ChatQuestion, HoldsRow
    <2>5. CASE ChatUnavailable(o)
        BY <2>5, LeaveAgrees DEF ChatUnavailable, HoldsRow
    <2>6. CASE ChatAnswer(o)
        BY <2>6, LeaveAgrees, AddMessageAgrees DEF ChatAnswer, HoldsRow
    <2>7. ASSUME NEW k, NEW p \in Owner, NEW c \in usedCharacters, Begin(o, k, p, c),
                 NEW label, Goto(o, label), UNCHANGED <<accounts, store>>,
                 \A q \in Op \ {o} : todo'[q] = todo[q],
                 p \in usedUsers \cup {Admin}, todo'[o] \subseteq usedUsers \cup {Admin}
          PROVE  AgreeNext
        <3>. DEFINE row == [thread |-> 0, character |-> c, user |-> p]
        <3>1. row \in Seen /\ row.thread \notin DOMAIN threads /\ row.thread < nextThread
            BY <1>0 DEF Seen, TypeOK
        <3>2. seen' = [seen EXCEPT ![o] = row] /\ \A q \in Op \ {o} : pc'[q] = pc[q]
            BY <1>0, <2>7 DEF Begin, Goto, TypeOK
        <3>. QED  BY <2>7, <3>1, <3>2, ReadAgrees
    <2>8. \A p : Authenticated(p) => p \in usedUsers \cup {Admin}
        BY <1>0 DEF Authenticated, TypeOK
    <2>9. CASE ThreadStart(o)
        <3>1. PICK p \in Owner, c \in characters : Authenticated(p) /\ Begin(o, "thread", p, c)
            BY <2>9 DEF ThreadStart
        <3>2. Goto(o, "found") /\ UNCHANGED <<accounts, store, todo>> /\ c \in usedCharacters
            BY <1>0, <2>9 DEF ThreadStart, TypeOK
        <3>3. todo[o] \subseteq usedUsers \cup {Admin}
            BY DEF AgreeInv, SeenFaithful
        <3>. QED  BY <2>7, <2>8, <3>1, <3>2, <3>3
    <2>10. CASE TestStart(o)
        <3>1. PICK p \in Owner, c \in characters :
                 /\ Authenticated(p) /\ Begin(o, "test", p, c)
                 /\ todo' = [todo EXCEPT ![o] = {p}]
            BY <2>10 DEF TestStart
        <3>2. Goto(o, "next") /\ UNCHANGED <<accounts, store>> /\ c \in usedCharacters
            BY <1>0, <2>10 DEF TestStart, TypeOK
        <3>3. todo'[o] = {p} /\ \A q \in Op \ {o} : todo'[q] = todo[q]
            BY <1>0, <3>1 DEF TypeOK
        <3>. QED  BY <2>7, <2>8, <3>1, <3>2, <3>3
    <2>11. CASE DaemonStart(o)
        <3>1. PICK c \in usedCharacters :
                 Begin(o, "daemon", Admin, c) /\ todo' = [todo EXCEPT ![o] = Recipients(c)]
            BY <2>11 DEF DaemonStart
        <3>2. Goto(o, "next") /\ UNCHANGED <<accounts, store>> /\ Admin \in Owner
            BY <2>11 DEF DaemonStart, Owner
        <3>3. todo'[o] \subseteq usedUsers \cup {Admin} /\ \A q \in Op \ {o} : todo'[q] = todo[q]
            BY <1>0, <3>1, RecipientsType DEF TypeOK
        <3>. QED  BY <2>7, <3>1, <3>2, <3>3
    <2>12. CASE FindThread(o)
        <3>1. PICK u \in todo[o], t \in DOMAIN threads \cup {0} :
                 /\ t \in IF Existing(seen[o].character, u) = {} THEN {0}
                          ELSE Existing(seen[o].character, u)
                 /\ todo' = [todo EXCEPT ![o] = @ \ {u}]
                 /\ seen' = [seen EXCEPT ![o] = [thread |-> t, character |-> @.character, user |-> u]]
            BY <2>12 DEF FindThread, Existing
        <3>. DEFINE row == [thread |-> t, character |-> seen[o].character, user |-> u]
        <3>2. u \in Owner /\ u \in usedUsers \cup {Admin}
            BY <1>0 DEF TypeOK, AgreeInv, SeenFaithful
        <3>3. t = 0 \/ (t \in DOMAIN threads
                        /\ threads[t] = [character |-> seen[o].character, user |-> u])
            BY <3>1 DEF Existing
        <3>4. row \in Seen /\ row.thread < nextThread
            BY <1>0, <3>2, <3>3, SeenType, ThreadType DEF Seen, TypeOK
        <3>5. seen' = [seen EXCEPT ![o] = row]
            BY <3>1
        <3>6. row.thread \in DOMAIN threads =>
                 row.character = threads[row.thread].character /\ row.user = threads[row.thread].user
            <4>1. 0 \notin DOMAIN threads
                BY <1>0 DEF TypeOK
            <4>. QED  BY <3>3, <4>1
        <3>7. /\ UNCHANGED <<accounts, store>>
              /\ \A q \in Op \ {o} : pc'[q] = pc[q] /\ todo'[q] = todo[q]
              /\ todo'[o] \subseteq usedUsers \cup {Admin}
            BY <1>0, <2>12, <3>1 DEF FindThread, Goto, TypeOK, AgreeInv, SeenFaithful
        <3>. QED  BY <3>2, <3>4, <3>5, <3>6, <3>7, ReadAgrees
    <2>13. CASE OpenThread(o)
        <3>1. CASE InsertThread(o) /\ Goto(o, IF kind[o] = "thread" THEN "next" ELSE "generating")
            <4>1. \A q \in Op \ {o} : pc'[q] = pc[q]
                BY <1>0, <3>1 DEF Goto, TypeOK
            <4>. QED  BY <3>1, <4>1, InsertThreadAgrees
        <3>2. pc[o] = "found"
            BY <2>13 DEF OpenThread
        <3>3. CASE MoveOn(o, "generating")
            BY <3>2, <3>3, MoveAgrees DEF HoldsRow
        <3>4. CASE Leave(o)
            BY <3>4, LeaveAgrees
        <3>. QED  BY <2>13, <3>1, <3>3, <3>4 DEF OpenThread
    <2>14. CASE DaemonUnavailable(o)
        BY <2>14, LeaveAgrees DEF DaemonUnavailable
    <2>15. CASE Initiate(o)
        BY <2>15, LeaveAgrees, AddMessageAgrees DEF Initiate, HoldsRow
    <2>16. CASE Finish(o)
        BY <2>16, LeaveAgrees DEF Finish
    <2>. QED
        BY <1>7, <2>1, <2>2, <2>3, <2>4, <2>5, <2>6, <2>9, <2>10, <2>11, <2>12, <2>13,
           <2>14, <2>15, <2>16 DEF Handler
<1>8. CASE UNCHANGED vars
    BY <1>8 DEF vars, AgreeInv, AgreeNext, StoreRefers, Refers, SeenFaithful,
                HoldsRow, MessageMatchesThread
<1>. QED
    BY <1>1, <1>2, <1>3, <1>4, <1>5, <1>6, <1>7, <1>8 DEF Next, Administration

\* The character_id and user_id kept in a message always agree with its thread,
\* for any number of handlers holding stale rows while users, characters and
\* threads are deleted under them.
THEOREM MessagesAgree == Spec => []MessageMatchesThread
<1>1. Init => AgreeInv
    BY AgreeInit
<1>2. AgreeInv /\ [Next]_vars => AgreeInv'
    BY ConversationsAssumption, TypeStep, AgreeStep DEF AgreeInv, AgreeNext
<1>3. AgreeInv => MessageMatchesThread
    BY DEF AgreeInv
<1>. QED  BY <1>1, <1>2, <1>3, PTL DEF Spec

-----------------------------------------------------------------------------
(* Questions and replies *)

\* A chat before its question is stored.
Early == {"idle", "opened", "allowed", "ready"}

IsReply(m) == m.sender = "character" /\ ~ m.initiated

\* How far the handler of a message is.
WrittenWhere ==
    \A m \in messages :
        /\ pc[m.op] \notin Early
        /\ pc[m.op] = "asked" => m.sender = "user"
        /\ IsReply(m) => pc[m.op] \in {"next", "over"} /\ todo[m.op] = {}

\* A chat contacts nobody else, so it does not write again after its reply.
NobodyLeft == \A o \in Op : pc[o] \in Early \cup {"asked"} => todo[o] = {}

\* A chat that awaits the model has its question, as long as there is the thread.
AskedHere ==
    \A o \in Op : pc[o] = "asked" /\ seen[o].thread \in DOMAIN threads =>
        \E q \in messages : q.op = o /\ q.thread = seen[o].thread /\ q.sender = "user"

ReplyInv == AgreeInv /\ WrittenWhere /\ NobodyLeft /\ AskedHere /\ EveryReplyHasItsQuestion

ReplyNext == WrittenWhere' /\ NobodyLeft' /\ AskedHere' /\ EveryReplyHasItsQuestion'

\* A handler's step that writes no message; no thread comes that a handler has seen.
LEMMA UnwrittenReplies ==
    ASSUME ReplyInv, NEW o \in Op, messages' = messages,
           DOMAIN threads' \subseteq DOMAIN threads \cup {nextThread},
           \A q \in Op \ {o} : pc'[q] = pc[q] /\ seen'[q] = seen[q] /\ todo'[q] = todo[q],
           pc'[o] \in Early => pc[o] \in Early /\ todo'[o] = {},
           pc'[o] # "asked",
           pc[o] \in {"next", "over"} /\ todo[o] = {} => pc'[o] \in {"next", "over"} /\ todo'[o] = {}
    PROVE  ReplyNext
<1>1. \A m \in messages : m.op \in Op
    BY DEF ReplyInv, AgreeInv, TypeOK, Message
<1>2. WrittenWhere'
    BY <1>1 DEF ReplyInv, WrittenWhere, IsReply
<1>3. NobodyLeft'
    BY DEF ReplyInv, NobodyLeft
<1>4. ASSUME NEW q \in Op, pc'[q] = "asked", seen'[q].thread \in DOMAIN threads'
      PROVE  \E n \in messages' : n.op = q /\ n.thread = seen'[q].thread /\ n.sender = "user"
    <2>1. q # o /\ pc[q] = "asked" /\ seen'[q] = seen[q]
        BY <1>4
    <2>2. seen[q].thread < nextThread /\ nextThread \in Nat
        BY DEF ReplyInv, AgreeInv, SeenFaithful, TypeOK
    <2>3. seen[q].thread \in DOMAIN threads
        BY <1>4, <2>1, <2>2
    <2>. QED  BY <2>1, <2>3 DEF ReplyInv, AskedHere
<1>5. AskedHere'
    BY <1>4 DEF AskedHere
<1>6. EveryReplyHasItsQuestion'
    BY DEF ReplyInv, EveryReplyHasItsQuestion
<1>. QED  BY <1>2, <1>3, <1>5, <1>6 DEF ReplyNext

\* Messages are removed with their thread, question and reply together.
LEMMA RemovedReplies ==
    ASSUME ReplyInv, MessageMatchesThread', UNCHANGED handlers,
           DOMAIN threads' \subseteq DOMAIN threads, messages' \subseteq messages,
           \A m \in messages : m.thread \in DOMAIN threads' => m \in messages'
    PROVE  ReplyNext
<1>1. WrittenWhere'
    BY DEF handlers, ReplyInv, WrittenWhere, IsReply
<1>2. NobodyLeft'
    BY DEF handlers, ReplyInv, NobodyLeft
<1>3. AskedHere'
    BY DEF handlers, ReplyInv, AskedHere
<1>4. EveryReplyHasItsQuestion'
    BY DEF ReplyInv, EveryReplyHasItsQuestion, MessageMatchesThread
<1>. QED  BY <1>1, <1>2, <1>3, <1>4 DEF ReplyNext

\* The message m once user u is deleted, as Orphaned(u) writes it.
NoOwner(m, u) == [m EXCEPT !.user = IF @ = u THEN Admin ELSE @]

\* A message of a deleted user loses its owner and nothing else.
LEMMA Orphan ==
    ASSUME TypeOK, NEW m \in messages, NEW u
    PROVE  /\ NoOwner(m, u) \in Orphaned(u)
           /\ NoOwner(m, u).op = m.op /\ NoOwner(m, u).thread = m.thread
           /\ NoOwner(m, u).sender = m.sender /\ NoOwner(m, u).initiated = m.initiated
           /\ [NoOwner(m, u) EXCEPT !.user = m.user] = m
           /\ NoOwner(m, u).user \in {m.user, Admin}
<1>1. m \in Message
    BY DEF TypeOK
<1>2. NoOwner(m, u) \in Orphaned(u)
    BY DEF Orphaned, NoOwner
<1>. QED  BY <1>1, <1>2 DEF Message, NoOwner

\* The owner of a message plays no part.
LEMMA OrphanedReplies ==
    ASSUME ReplyInv, NEW u, messages' = Orphaned(u), DOMAIN threads' = DOMAIN threads,
           UNCHANGED handlers
    PROVE  ReplyNext
<1>0. TypeOK
    BY DEF ReplyInv, AgreeInv
<1>1. ASSUME NEW m \in messages
      PROVE  /\ NoOwner(m, u) \in messages'
             /\ NoOwner(m, u).op = m.op /\ NoOwner(m, u).thread = m.thread
             /\ NoOwner(m, u).sender = m.sender /\ NoOwner(m, u).initiated = m.initiated
    BY <1>0, Orphan
<1>2. \A n \in messages' : \E m \in messages : n = NoOwner(m, u)
    BY DEF Orphaned, NoOwner
<1>3. WrittenWhere'
    BY <1>1, <1>2 DEF handlers, ReplyInv, WrittenWhere, IsReply
<1>4. NobodyLeft'
    BY DEF handlers, ReplyInv, NobodyLeft
<1>5. AskedHere'
    BY <1>1 DEF handlers, ReplyInv, AskedHere
<1>6. ASSUME NEW n \in messages', IsReply(n)
      PROVE  /\ \E q \in messages' : q.op = n.op /\ q.thread = n.thread /\ q.sender = "user"
             /\ \A k \in messages' : k.op = n.op /\ k.sender = "character" => k = n
    <2>1. PICK m \in messages : n = NoOwner(m, u)
        BY <1>2
    <2>2. m.sender = "character" /\ ~ m.initiated
        BY <1>1, <1>6, <2>1 DEF IsReply
    <2>3. PICK q \in messages : q.op = m.op /\ q.thread = m.thread /\ q.sender = "user"
        BY <2>2 DEF ReplyInv, EveryReplyHasItsQuestion
    <2>4. \A l \in messages : l.op = m.op /\ l.sender = "character" => l = m
        BY <2>2 DEF ReplyInv, EveryReplyHasItsQuestion
    <2>5. /\ NoOwner(q, u) \in messages' /\ NoOwner(q, u).op = n.op
          /\ NoOwner(q, u).thread = n.thread /\ NoOwner(q, u).sender = "user"
        BY <1>1, <2>1, <2>3
    <2>6. \A k \in messages' : k.op = n.op /\ k.sender = "character" => k = n
        BY <1>1, <1>2, <2>1, <2>4
    <2>. QED  BY <2>5, <2>6
<1>7. EveryReplyHasItsQuestion'
    BY <1>6 DEF EveryReplyHasItsQuestion, IsReply
<1>. QED  BY <1>3, <1>4, <1>5, <1>7 DEF ReplyNext

\* A message that is stored: the question, the reply to it, or an initiated one.
LEMMA WrittenReplies ==
    ASSUME ReplyInv, NEW o \in Op, NEW sender, NEW initiated, NEW label,
           AddMessage(o, sender, initiated), Goto(o, label),
           \/ pc[o] = "ready" /\ sender = "user" /\ label = "asked"
           \/ pc[o] = "asked" /\ sender = "character" /\ label = "next"
           \/ pc[o] = "generating" /\ initiated = TRUE /\ label = "next"
    PROVE  ReplyNext
<1>. DEFINE new == MessageOf(o, sender, initiated)
<1>1. /\ new.op = o /\ new.thread = seen[o].thread
      /\ new.sender = sender /\ new.initiated = initiated
    BY DEF MessageOf
<1>2. /\ messages' = messages \cup {new} /\ seen[o].thread \in DOMAIN threads
      /\ UNCHANGED <<threads, seen, todo>>
    BY DEF AddMessage, CanAdd
<1>. HIDE DEF new
<1>3. \A q \in Op : pc'[q] = IF q = o THEN label ELSE pc[q]
    BY DEF Goto, ReplyInv, AgreeInv, TypeOK
<1>4. \A m \in messages : m.op \in Op
    BY DEF ReplyInv, AgreeInv, TypeOK, Message
<1>5. \A m \in messages : m.op = o /\ pc[o] \in {"ready", "asked"} =>
          pc[o] = "asked" /\ m.sender = "user"
    BY DEF ReplyInv, WrittenWhere, Early
<1>6. \A m \in messages : m.op = o => ~ IsReply(m)
    BY DEF ReplyInv, WrittenWhere, IsReply
<1>7. pc[o] \in {"ready", "asked"} => todo[o] = {}
    BY DEF ReplyInv, NobodyLeft, Early
<1>8. WrittenWhere'
    <2>1. ASSUME NEW m \in messages
          PROVE  /\ pc'[m.op] \notin Early
                 /\ pc'[m.op] = "asked" => m.sender = "user"
                 /\ IsReply(m) => pc'[m.op] \in {"next", "over"} /\ todo'[m.op] = {}
        <3>1. CASE m.op = o
            BY <1>2, <1>3, <1>5, <1>6, <3>1 DEF Early
        <3>2. CASE m.op # o
            BY <1>2, <1>3, <1>4, <3>2 DEF ReplyInv, WrittenWhere
        <3>. QED  BY <3>1, <3>2
    <2>2. /\ pc'[new.op] \notin Early
          /\ pc'[new.op] = "asked" => new.sender = "user"
          /\ IsReply(new) => pc'[new.op] \in {"next", "over"} /\ todo'[new.op] = {}
        BY <1>1, <1>2, <1>3, <1>7 DEF Early, IsReply
    <2>. QED  BY <1>2, <2>1, <2>2 DEF WrittenWhere, IsReply
<1>9. NobodyLeft'
    BY <1>2, <1>3, <1>7 DEF ReplyInv, NobodyLeft, Early
<1>10. AskedHere'
    BY <1>1, <1>2, <1>3 DEF ReplyInv, AskedHere
<1>11. ASSUME NEW n \in messages', IsReply(n)
       PROVE  /\ \E q \in messages' : q.op = n.op /\ q.thread = n.thread /\ q.sender = "user"
              /\ \A k \in messages' : k.op = n.op /\ k.sender = "character" => k = n
    <2>1. CASE n = new
        <3>1. pc[o] = "asked"
            BY <1>1, <1>11, <2>1 DEF IsReply
        <3>2. \E q \in messages : q.op = o /\ q.thread = seen[o].thread /\ q.sender = "user"
            BY <1>2, <3>1 DEF ReplyInv, AskedHere
        <3>3. \A k \in messages : k.op = o => k.sender # "character"
            BY <1>5, <3>1
        <3>. QED  BY <1>1, <1>2, <2>1, <3>2, <3>3
    <2>2. CASE n # new
        <3>1. n \in messages /\ n.op # o
            BY <1>2, <1>6, <1>11, <2>2
        <3>. QED  BY <1>1, <1>2, <1>11, <3>1 DEF ReplyInv, EveryReplyHasItsQuestion, IsReply
    <2>. QED  BY <2>1, <2>2
<1>12. EveryReplyHasItsQuestion'
    BY <1>11 DEF EveryReplyHasItsQuestion, IsReply
<1>. QED  BY <1>8, <1>9, <1>10, <1>12 DEF ReplyNext

\* Every step keeps questions before their replies.
LEMMA ReplyStep ==
    ASSUME ConversationsAssumption, ReplyInv, MessageMatchesThread', [Next]_vars
    PROVE  ReplyNext
<1>0. TypeOK /\ MessageMatchesThread
    BY DEF ReplyInv, AgreeInv
<1>1. CASE CreateCharacter \/ CreateUser \/ UpdateUser
    <2>1. UNCHANGED <<threads, messages, handlers>>
        BY <1>1 DEF CreateCharacter, CreateUser, UpdateUser, store
    <2>. QED  BY <1>0, <2>1, RemovedReplies
<1>2. CASE DeleteCharacter
    <2>1. PICK c \in characters :
             LET gone == {t \in DOMAIN threads : threads[t].character = c} IN
             /\ threads' = Without(threads, gone)
             /\ messages' = {m \in messages : m.thread \notin gone /\ m.character # c}
        BY <1>2 DEF DeleteCharacter
    <2>2. \A m \in messages : m.thread \in DOMAIN threads' => m \in messages'
        BY <1>0, <2>1 DEF Without, MessageMatchesThread
    <2>3. DOMAIN threads' \subseteq DOMAIN threads /\ messages' \subseteq messages
        BY <2>1 DEF Without
    <2>. QED  BY <1>2, <2>2, <2>3, RemovedReplies DEF DeleteCharacter
<1>3. CASE DeleteUser
    BY <1>3, OrphanedReplies DEF DeleteUser
<1>4. CASE DeleteThread
    <2>1. PICK t \in DOMAIN threads : /\ threads' = Without(threads, {t})
                                      /\ messages' = {m \in messages : m.thread # t}
        BY <1>4 DEF DeleteThread
    <2>2. \A m \in messages : m.thread \in DOMAIN threads' => m \in messages'
        BY <2>1 DEF Without
    <2>3. DOMAIN threads' \subseteq DOMAIN threads /\ messages' \subseteq messages
        BY <2>1 DEF Without
    <2>. QED  BY <1>4, <2>2, <2>3, RemovedReplies DEF DeleteThread
<1>5. ASSUME NEW o \in Op, Handler(o) PROVE ReplyNext
    <2>. USE DEF accounts, store, Goto, Early
    <2>0. /\ DOMAIN pc = Op /\ DOMAIN seen = Op /\ DOMAIN todo = Op
          /\ pc[o] \in Early \cup {"asked"} => todo[o] = {}
        BY <1>0 DEF TypeOK, ReplyInv, NobodyLeft
    <2>1. ASSUME Leave(o) PROVE ReplyNext
        BY <2>0, <2>1, UnwrittenReplies DEF Leave
    <2>2. ASSUME NEW label, MoveOn(o, label),
                 \/ pc[o] \in Early /\ label \in Early
                 \/ pc[o] = "found" /\ label = "generating"
          PROVE  ReplyNext
        BY <2>0, <2>2, UnwrittenReplies DEF MoveOn
    <2>3. CASE ChatOpen(o)
        BY <2>0, <2>3, UnwrittenReplies DEF ChatOpen
    <2>4. CASE ChatAllow(o) \/ ChatCharacter(o)
        BY <2>1, <2>2, <2>4 DEF ChatAllow, ChatCharacter
    <2>5. CASE ChatQuestion(o)
        BY <2>1, <2>5, WrittenReplies DEF ChatQuestion
    <2>6. CASE ChatUnavailable(o) \/ DaemonUnavailable(o) \/ Finish(o)
        BY <2>1, <2>6 DEF ChatUnavailable, DaemonUnavailable, Finish
    <2>7. CASE ChatAnswer(o)
        BY <2>1, <2>7, WrittenReplies DEF ChatAnswer
    <2>8. CASE ThreadStart(o)
        BY <2>0, <2>8, UnwrittenReplies DEF ThreadStart, Begin
    <2>9. CASE TestStart(o) \/ DaemonStart(o)
        BY <2>0, <2>9, UnwrittenReplies DEF TestStart, DaemonStart, Begin
    <2>10. CASE FindThread(o)
        BY <2>0, <2>10, UnwrittenReplies DEF FindThread
    <2>11. CASE OpenThread(o)
        <3>1. CASE InsertThread(o) /\ Goto(o, IF kind[o] = "thread" THEN "next" ELSE "generating")
            <4>1. DOMAIN threads' = DOMAIN threads \cup {nextThread}
                BY <3>1 DEF InsertThread
            <4>2. pc[o] = "found"
                BY <2>11 DEF OpenThread
            <4>. QED  BY <2>0, <3>1, <4>1, <4>2, UnwrittenReplies DEF InsertThread
        <3>2. CASE MoveOn(o, "generating")
            BY <2>2, <2>11, <3>2 DEF OpenThread
        <3>3. CASE Leave(o)
            BY <2>1, <3>3
        <3>. QED  BY <2>11, <3>1, <3>2, <3>3 DEF OpenThread
    <2>12. CASE Initiate(o)
        BY <2>1, <2>12, WrittenReplies DEF Initiate
    <2>. QED
        BY <1>5, <2>3, <2>4, <2>5, <2>6, <2>7, <2>8, <2>9, <2>10, <2>11, <2>12 DEF Handler
<1>6. CASE UNCHANGED vars
    BY <1>0, <1>6, RemovedReplies DEF vars, store
<1>. QED  BY <1>1, <1>2, <1>3, <1>4, <1>5, <1>6 DEF Next, Administration

\* A reply that was asked for stands with its question, and is the only message of the
\* character its handler stored, however handlers and deletions interleave (send_message).
THEOREM RepliesFollowQuestions == Spec => []EveryReplyHasItsQuestion
<1>. USE ConversationsAssumption
<1>1. Init => AgreeInv
    BY AgreeInit
<1>2. Init => WrittenWhere /\ NobodyLeft /\ AskedHere /\ EveryReplyHasItsQuestion
    BY DEF Init, WrittenWhere, NobodyLeft, AskedHere, EveryReplyHasItsQuestion
<1>3. Init => ReplyInv
    BY <1>1, <1>2 DEF ReplyInv
<1>4. ReplyInv /\ [Next]_vars => ReplyInv'
    <2>. SUFFICES ASSUME ReplyInv, [Next]_vars PROVE ReplyInv'
        OBVIOUS
    <2>1. AgreeInv'
        BY TypeStep, AgreeStep DEF ReplyInv, AgreeInv, AgreeNext
    <2>2. ReplyNext
        BY <2>1, ReplyStep DEF AgreeInv
    <2>. QED  BY <2>1, <2>2 DEF ReplyInv, ReplyNext
<1>5. ReplyInv => EveryReplyHasItsQuestion
    BY DEF ReplyInv
<1>. QED  BY <1>3, <1>4, <1>5, PTL DEF Spec

-----------------------------------------------------------------------------
(* History *)

\* As long as its thread exists a message stays, and at most loses its owner.
Kept(m) == \E n \in messages' : [n EXCEPT !.user = m.user] = m /\ n.user \in {m.user, Admin}

\* A message that stays as it is.
LEMMA SameKept ==
    ASSUME TypeOK, NEW m \in messages, m \in messages'
    PROVE  Kept(m)
<1>1. m \in Message
    BY DEF TypeOK
<1>2. [m EXCEPT !.user = m.user] = m
    BY <1>1 DEF Message
<1>. QED  BY <1>2 DEF Kept

\* delete_character and delete_thread remove messages with their thread, delete_user
\* takes their owner, and no other step touches a message that there is.
LEMMA HistoryStep ==
    ASSUME ConversationsAssumption, AgreeInv, [Next]_vars,
           NEW m \in messages, m.thread \in DOMAIN threads'
    PROVE  Kept(m)
<1>. USE DEF accounts, store, handlers
<1>0. TypeOK /\ MessageMatchesThread
    BY DEF AgreeInv
<1>1. CASE CreateCharacter \/ CreateUser \/ UpdateUser \/ UNCHANGED vars
    BY <1>0, <1>1, SameKept DEF CreateCharacter, CreateUser, UpdateUser, vars
<1>2. CASE DeleteCharacter
    <2>1. PICK c \in characters :
             LET gone == {t \in DOMAIN threads : threads[t].character = c} IN
             /\ threads' = Without(threads, gone)
             /\ messages' = {n \in messages : n.thread \notin gone /\ n.character # c}
        BY <1>2 DEF DeleteCharacter
    <2>2. m \in messages'
        BY <1>0, <2>1 DEF Without, MessageMatchesThread
    <2>. QED  BY <1>0, <2>2, SameKept
<1>3. CASE DeleteUser
    <2>1. PICK u \in users : messages' = Orphaned(u)
        BY <1>3 DEF DeleteUser
    <2>2. NoOwner(m, u) \in messages'
        BY <1>0, <2>1, Orphan
    <2>. QED  BY <1>0, <2>2, Orphan DEF Kept
<1>4. CASE DeleteThread
    <2>1. PICK t \in DOMAIN threads : /\ threads' = Without(threads, {t})
                                      /\ messages' = {n \in messages : n.thread # t}
        BY <1>4 DEF DeleteThread
    <2>2. m \in messages'
        BY <2>1 DEF Without
    <2>. QED  BY <1>0, <2>2, SameKept
<1>5. ASSUME NEW o \in Op, Handler(o) PROVE messages \subseteq messages'
    BY <1>5 DEF Handler, ChatOpen, ChatAllow, ChatCharacter, ChatQuestion, ChatUnavailable,
        ChatAnswer, ThreadStart, TestStart, DaemonStart, FindThread, OpenThread,
        DaemonUnavailable, Initiate, Finish, Leave, MoveOn, AddMessage, InsertThread
<1>. QED
    BY <1>0, <1>1, <1>2, <1>3, <1>4, <1>5, SameKept DEF Next, Administration

\* History is lost only with its thread: no failed generation, deletion of something else
\* or late write removes or moves a message of a thread that there is.
THEOREM HistoryIsKept == Spec => HistoryKept
<1>. USE ConversationsAssumption
<1>1. Init => AgreeInv
    BY AgreeInit
<1>2. AgreeInv /\ [Next]_vars => AgreeInv'
    BY TypeStep, AgreeStep DEF AgreeInv, AgreeNext
<1>3. AgreeInv /\ [Next]_vars =>
          [\A m \in messages : m.thread \in DOMAIN threads' =>
              \E n \in messages' : /\ [n EXCEPT !.user = m.user] = m
                                   /\ n.user \in {m.user, Admin}]_vars
    BY HistoryStep DEF Kept
<1>. QED  BY <1>1, <1>2, <1>3, PTL DEF Spec, HistoryKept

=============================================================================
