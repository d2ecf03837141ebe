---------------------------- MODULE LoreRetrieval ----------------------------
(***************************************************************************)
(* What retrieval promises a character (docs/LORE_FACTS.md), without the   *)
(* embedding cache: a request draws only on facts of packs that it found   *)
(* assigned to its character, and ranks each of them by the embedding that *)
(* the configured model gives for the fact's own text; whatever becomes of *)
(* the embedding service, it gets an answer, unless a fact it was about to *)
(* use has been removed, or the service answers nonsense.                  *)
(***************************************************************************)
EXTENDS Naturals, FiniteSets

CONSTANTS
    Request,        \* calls of _retrieve_lore; a name serves again
    Character,
    For,            \* the character each of them is for
    Text,           \* what lore_embedding_text makes of a fact
    Setting,        \* settings of the embedding model: [model, dimensions]
    Off,            \* embeddings disabled, or their provider unsupported
    Limit,          \* facts in an answer
    Unranked        \* in place of a vector, in an answer found by words

VARIABLES
    facts,          \* the facts there are: [id, pack, text]
    assigned,       \* <<character, pack>>
    config,         \* the settings of the process
    phase,          \* each request: "idle", "busy", "answered", "failed"
    granted,        \* the packs it found assigned
    known,          \* the facts it has found in such packs
    answer,         \* what it was answered: <<fact, vector>>
    excused         \* a fact it had found was removed, or the service babbled

vars == <<facts, assigned, config, phase, granted, known, answer, excused>>

Fact == [id : Nat, pack : Nat, text : Text]

\* What the embedding service computes of a text.
Embedding(setting, text) == [by |-> setting, of |-> text]

\* What may be said of a fact: nothing, or what the configured model makes of it.
Views(f) == {<<f, Unranked>>} \cup
            IF config = Off THEN {} ELSE {<<f, Embedding(config, f.text)>>}

Init ==
    /\ facts = {} /\ assigned = {}
    /\ config \in Setting \cup {Off}
    /\ phase = [h \in Request |-> "idle"]
    /\ granted = [h \in Request |-> {}]
    /\ known = [h \in Request |-> {}]
    /\ answer = [h \in Request |-> {}]
    /\ excused = [h \in Request |-> FALSE]

\* The administrator imports, deletes or assigns packs, or replaces the database;
\* requests that knew a fact now gone are excused.
Manage ==
    /\ facts' \subseteq Fact
    /\ assigned' \subseteq Character \X Nat
    /\ excused' = [h \in Request |-> excused[h] \/ known[h] \ facts' # {}]
    /\ UNCHANGED <<config, phase, granted, known, answer>>

\* What is assigned to the character of a request.
Look(h) == granted' = [granted EXCEPT ![h] = {a[2] : a \in {b \in assigned : b[1] = For[h]}}]

\* A request begins.
Ask(h) ==
    /\ phase[h] # "busy"
    /\ phase' = [phase EXCEPT ![h] = "busy"]
    /\ answer' = [answer EXCEPT ![h] = {}]
    /\ Look(h)
    /\ UNCHANGED <<facts, assigned, config, known, excused>>

\* It looks again.
AskAgain(h) ==
    /\ phase[h] = "busy"
    /\ Look(h)
    /\ UNCHANGED <<facts, assigned, config, phase, known, answer, excused>>

\* It finds facts of the packs that were assigned.
Find(h) ==
    /\ phase[h] = "busy"
    /\ \E F \in SUBSET {f \in facts : f.pack \in granted[h]} :
          known' = [known EXCEPT ![h] = @ \cup F]
    /\ granted' = [granted EXCEPT ![h] = {}]
    /\ UNCHANGED <<facts, assigned, config, phase, answer, excused>>

\* The request is over, in one way or another.
Leave(h, how) ==
    /\ phase[h] = "busy"
    /\ phase' = [phase EXCEPT ![h] = how]
    /\ granted' = [granted EXCEPT ![h] = {}]
    /\ known' = [known EXCEPT ![h] = {}]
    /\ excused' = [excused EXCEPT ![h] = FALSE]
    /\ UNCHANGED <<facts, assigned, config>>

\* It is answered, all by words or all by meaning.
Answer(h) ==
    /\ Leave(h, "answered")
    /\ \E A \in SUBSET UNION {Views(f) : f \in known[h]} :
          /\ Cardinality(A) <= Limit
          /\ \A x, y \in A : x[2] = Unranked => y[2] = Unranked
          /\ answer' = [answer EXCEPT ![h] = A]

\* The embedding service answers with something that is no embedding.
Babble(h) ==
    /\ phase[h] = "busy"
    /\ excused' = [excused EXCEPT ![h] = TRUE]
    /\ UNCHANGED <<facts, assigned, config, phase, granted, known, answer>>

\* It fails, for a reason that excuses it.
Fail(h) == excused[h] /\ Leave(h, "failed") /\ UNCHANGED answer

\* The daemon that asked is cancelled.
Cancel(h) == Leave(h, "idle") /\ UNCHANGED answer

\* The process ends, with its requests, and starts again with other settings.
Restart ==
    /\ config' \in Setting \cup {Off}
    /\ phase' = [h \in Request |-> "idle"]
    /\ granted' = [h \in Request |-> {}]
    /\ known' = [h \in Request |-> {}]
    /\ answer' = [h \in Request |-> {}]
    /\ excused' = [h \in Request |-> FALSE]
    /\ UNCHANGED <<facts, assigned>>

Next ==
    \/ Manage
    \/ Restart
    \/ \E h \in Request :
          \/ Ask(h) \/ AskAgain(h) \/ Find(h)
          \/ Answer(h) \/ Babble(h) \/ Fail(h) \/ Cancel(h)

Spec == Init /\ [][Next]_vars

=============================================================================
