------------------------------ MODULE LoreCache ------------------------------
(***************************************************************************)
(* Retrieval of lore with the embedding cache (llm.py, _retrieve_lore and  *)
(* _semantic_lore; the lore tables of database.py).                        *)
(*                                                                         *)
(* Requests are coroutines: between two awaits no other request runs. The  *)
(* administrator's handlers run in threads and come between any two        *)
(* transactions; a reset or a restore replaces the tables while requests   *)
(* await the embedding service, and ids start again; the settings of the   *)
(* model change with a restart, while the cache stays. Ranking is left     *)
(* open: of more facts than fit, any choice may be the best.               *)
(***************************************************************************)
EXTENDS Naturals, FiniteSets

CONSTANTS
    Request, Character, For, Text, Setting, Off, Limit, Unranked,
                    \* as in LoreRetrieval
    Chunk,          \* texts sent to the service at a time
    Matching,       \* the texts that share a word with the query
    File,           \* fact packs to import: sequences of texts
    Archive,        \* databases that a reset or a restore puts in place
    MaxPack         \* bound: packs ever imported into one database

VARIABLES
    facts,          \* lore_facts: [id, pack, text]
    packs,          \* lore_packs
    assigned,       \* character_lore_packs
    cache,          \* lore_fact_embeddings: [fact, model, hash, vector]
    last,           \* sqlite_sequence: the ids given last, [pack, fact]
    config,         \* the settings of the process
    pc, granted,    \* each request, and the pack ids it has listed
    lexical, seen,  \* the facts found by words, and all facts of the packs
    missing, batch, \* facts without a vector, and those of them being embedded
    vectors,        \* vectors by fact: <<fact, vector>>
    answer,         \* what the request returned: <<fact, vector>>
    excused         \* history: a fact it found is gone, or the service babbled

tables == <<facts, packs, assigned, cache, last>>
locals == <<lexical, seen, missing, batch, vectors>>
outcome == <<answer, excused>>
vars == <<tables, config, pc, granted, locals, outcome>>

Model == {s.model : s \in Setting}
Fact == [id : Nat, pack : Nat, text : Text]

\* What the embedding service computes of a text under the process's settings.
Embedding(setting, text) == [by |-> setting, of |-> text]

\* content_hash: of provider, model, dimensions and the text.
Hash(setting, text) == <<setting, text>>

Vector == [by : Setting, of : Text]
Row == [fact : Nat, model : Model, hash : Setting \X Text, vector : Vector]

\* Facts belong to packs, assignments and vectors to what there is.
Refers(image) ==
    /\ \A f \in image.facts : f.pack \in image.packs
    /\ \A f, g \in image.facts : f.id = g.id => f = g
    /\ \A a \in image.assigned : a[2] \in image.packs
    /\ \A r \in image.cache : \E f \in image.facts : f.id = r.fact
    /\ \A f \in image.facts : f.id <= image.last.fact
    /\ \A p \in image.packs : p <= image.last.pack

\* Every vector of the cache is that of what its hash stands for.
Sound(rows) == \A r \in rows, s \in Setting, t \in Text :
    r.hash = Hash(s, t) => r.vector = Embedding(s, t)

Image == [facts : SUBSET Fact, packs : SUBSET Nat, assigned : SUBSET (Character \X Nat),
          cache : SUBSET Row, last : [pack : Nat, fact : Nat]]

Empty == [facts |-> {}, packs |-> {}, assigned |-> {}, cache |-> {},
          last |-> [pack |-> 0, fact |-> 0]]

ASSUME LoreCacheAssumption ==
    /\ For \in [Request -> Character]
    /\ Off \notin Setting
    /\ \A s \in Setting : s.model \in Model
    /\ Limit \in Nat \ {0} /\ Chunk \in Nat \ {0} /\ MaxPack \in Nat
    /\ Matching \subseteq Text
    /\ \A s \in Setting, t \in Text : Embedding(s, t) # Unranked
    /\ \A file \in File : /\ IsFiniteSet(DOMAIN file)
                          /\ file \in [1..Cardinality(DOMAIN file) -> Text]
    /\ \A image \in Archive : /\ image \in Image /\ IsFiniteSet(image.facts)
                              /\ Refers(image) /\ Sound(image.cache)

Running == {"facts", "lexical", "again", "lookup", "storing", "garbled"}
Waiting == {"embedding", "query"}
Busy == Running \cup Waiting

Goto(h, label) == pc' = [pc EXCEPT ![h] = label]

\* No other request is between two awaits.
LoopFreeFor(h) == \A g \in Request \ {h} : pc[g] \notin Running

Found(h) == lexical[h] \cup seen[h]

\* After facts have been removed, whoever had found them is excused.
Excuse == excused' = [h \in Request |-> excused[h] \/ Found(h) \ facts' # {}]

Init ==
    /\ facts = {} /\ packs = {} /\ assigned = {} /\ cache = {}
    /\ last = Empty.last
    /\ config \in Setting \cup {Off}
    /\ pc = [h \in Request |-> "idle"]
    /\ granted = [h \in Request |-> {}]
    /\ lexical = [h \in Request |-> {}] /\ seen = [h \in Request |-> {}]
    /\ missing = [h \in Request |-> {}] /\ batch = [h \in Request |-> {}]
    /\ vectors = [h \in Request |-> {}]
    /\ answer = [h \in Request |-> {}]
    /\ excused = [h \in Request |-> FALSE]

-----------------------------------------------------------------------------
(* The administrator's handlers, in threads *)

\* import_lore_pack: a pack with its facts, in one transaction.
Import(file) ==
    /\ last.pack < MaxPack
    /\ last' = [pack |-> last.pack + 1, fact |-> last.fact + Cardinality(DOMAIN file)]
    /\ packs' = packs \cup {last'.pack}
    /\ facts' = facts \cup
          {[id |-> last.fact + i, pack |-> last'.pack, text |-> file[i]] : i \in DOMAIN file}
    /\ UNCHANGED <<assigned, cache, config, pc, granted, locals, outcome>>

\* Mutant: the vectors of a deleted fact stay.
DeletePack_KeepsVectors(p) ==
    /\ packs' = packs \ {p}
    /\ facts' = {f \in facts : f.pack # p}
    /\ assigned' = {a \in assigned : a[2] # p}
    /\ Excuse
    /\ UNCHANGED <<cache, last, config, pc, granted, locals, answer>>

\* delete_lore_pack: facts, vectors and assignments cascade.
DeletePack(p) ==
    /\ packs' = packs \ {p}
    /\ facts' = {f \in facts : f.pack # p}
    /\ assigned' = {a \in assigned : a[2] # p}
    /\ cache' = {r \in cache : \E f \in facts' : f.id = r.fact}
    /\ Excuse
    /\ UNCHANGED <<last, config, pc, granted, locals, answer>>

\* replace_character_lore_packs, with packs that exist; otherwise nothing changes.
Assign(c, P) ==
    /\ assigned' = {a \in assigned : a[1] # c} \cup {c} \X P
    /\ UNCHANGED <<facts, packs, cache, last, config, pc, granted, locals, outcome>>

\* reset_system or restore_system: on the event loop, so between awaits of requests.
Replace(image) ==
    /\ \A h \in Request : pc[h] \notin Running
    /\ facts' = image.facts /\ packs' = image.packs /\ assigned' = image.assigned
    /\ cache' = image.cache /\ last' = image.last
    /\ Excuse
    /\ UNCHANGED <<config, pc, granted, locals, answer>>

-----------------------------------------------------------------------------
(* The end of a request *)

\* Its locals are gone.
Drop(H) ==
    /\ granted' = [h \in Request |-> IF h \in H THEN {} ELSE granted[h]]
    /\ lexical' = [h \in Request |-> IF h \in H THEN {} ELSE lexical[h]]
    /\ seen' = [h \in Request |-> IF h \in H THEN {} ELSE seen[h]]
    /\ missing' = [h \in Request |-> IF h \in H THEN {} ELSE missing[h]]
    /\ batch' = [h \in Request |-> IF h \in H THEN {} ELSE batch[h]]
    /\ vectors' = [h \in Request |-> IF h \in H THEN {} ELSE vectors[h]]
    /\ excused' = [h \in Request |-> IF h \in H THEN FALSE ELSE excused[h]]

\* The best of S: as many as fit, any of them.
Best(S) == {A \in SUBSET S :
    Cardinality(A) = IF Cardinality(S) <= Limit THEN Cardinality(S) ELSE Limit}

\* Returns facts with the vectors they were ranked by.
Return(h, A) ==
    /\ answer' = [answer EXCEPT ![h] = A]
    /\ Goto(h, "answered")
    /\ Drop({h})
    /\ UNCHANGED <<tables, config>>

\* Returns what search_lore has found.
ReturnLexical(h) == Return(h, lexical[h] \X {Unranked})

-----------------------------------------------------------------------------
(* _retrieve_lore *)

\* list_character_lore_pack_ids.
ListPacks(h) == granted' =
    [granted EXCEPT ![h] = {a[2] : a \in {b \in assigned : b[1] = For[h]}}]

\* The rest of list_lore_facts_for_character, a transaction of its own.
FactsOf(h) == {f \in facts : f.pack \in granted[h]}

\* search_lore begins.
Start(h) ==
    /\ pc[h] \notin Busy /\ LoopFreeFor(h)
    /\ ListPacks(h)
    /\ answer' = [answer EXCEPT ![h] = {}]
    /\ Goto(h, "facts")
    /\ UNCHANGED <<tables, config, locals, excused>>

\* search_lore ranks the facts that share words with the query.
Search(h) ==
    /\ pc[h] = "facts"
    /\ \E found \in Best({f \in FactsOf(h) : f.text \in Matching}) :
          lexical' = [lexical EXCEPT ![h] = found]
    /\ granted' = [granted EXCEPT ![h] = {}]
    /\ Goto(h, "lexical")
    /\ UNCHANGED <<tables, config, seen, missing, batch, vectors, outcome>>

\* Embeddings are not enabled, or their provider is not supported.
Lexical(h) == pc[h] = "lexical" /\ config = Off /\ ReturnLexical(h)

-----------------------------------------------------------------------------
(* _semantic_lore *)

ListAgain(h) ==
    /\ pc[h] = "lexical" /\ config # Off
    /\ ListPacks(h)
    /\ Goto(h, "again")
    /\ UNCHANGED <<tables, config, locals, outcome>>

List(h) ==
    /\ pc[h] = "again"
    /\ seen' = [seen EXCEPT ![h] = FactsOf(h)]
    /\ granted' = [granted EXCEPT ![h] = {}]
    /\ Goto(h, "lookup")
    /\ UNCHANGED <<tables, config, lexical, missing, batch, vectors, outcome>>

\* The character has no facts, so there is no semantic match either.
NoFacts(h) == pc[h] = "lookup" /\ seen[h] = {} /\ ReturnLexical(h)

Unlooked(h) == seen[h] \ (missing[h] \cup batch[h] \cup {v[1] : v \in vectors[h]})

\* Mutant: any row of the fact and the model will do.
Cached_AnyHash(f) ==
    {r \in cache : r.fact = f.id /\ r.model = config.model}

\* The row get_lore_embedding finds for a fact, if any.
Cached(f) ==
    {r \in cache : /\ r.fact = f.id /\ r.model = config.model
                   /\ r.hash = Hash(config, f.text)}

\* get_lore_embedding, for the next fact.
Lookup(h) ==
    /\ pc[h] = "lookup"
    /\ \E f \in Unlooked(h) :
          \/ /\ Cached(f) = {}
             /\ missing' = [missing EXCEPT ![h] = @ \cup {f}]
             /\ UNCHANGED vectors
          \/ /\ \E r \in Cached(f) :
                   vectors' = [vectors EXCEPT ![h] = @ \cup {<<f, r.vector>>}]
             /\ UNCHANGED missing
    /\ UNCHANGED <<tables, config, pc, granted, lexical, seen, batch, outcome>>

\* The next chunk of the missing ones is sent to the service ...
Send(h) ==
    /\ pc[h] = "lookup" /\ Unlooked(h) = {} /\ missing[h] # {}
    /\ \E B \in SUBSET missing[h] :
          /\ Cardinality(B) = IF Cardinality(missing[h]) < Chunk
                              THEN Cardinality(missing[h]) ELSE Chunk
          /\ batch' = [batch EXCEPT ![h] = B]
          /\ missing' = [missing EXCEPT ![h] = @ \ B]
    /\ Goto(h, "embedding")
    /\ UNCHANGED <<tables, config, granted, lexical, seen, vectors, outcome>>

\* ... or, when none is missing, the query.
SendQuery(h) ==
    /\ pc[h] = "lookup" /\ Unlooked(h) = {} /\ missing[h] = {} /\ seen[h] # {}
    /\ Goto(h, "query")
    /\ UNCHANGED <<tables, config, granted, locals, outcome>>

\* The vectors of the chunk arrive.
Embedded(h) ==
    /\ pc[h] = "embedding" /\ LoopFreeFor(h)
    /\ Goto(h, "storing")
    /\ UNCHANGED <<tables, config, granted, locals, outcome>>

\* upsert_lore_embedding: the row of a fact and a model is written or replaced.
Upsert(f) ==
    cache' = {r \in cache : ~ (r.fact = f.id /\ r.model = config.model)} \cup
             {[fact |-> f.id, model |-> config.model, hash |-> Hash(config, f.text),
               vector |-> Embedding(config, f.text)]}

\* The foreign key of the row: is there a fact of that id?
Storable(f) == \E g \in facts : g.id = f.id

\* The next vector of the chunk is stored.
Store(h) ==
    /\ pc[h] = "storing"
    /\ \E f \in batch[h] :
          /\ Storable(f)
          /\ Upsert(f)
          /\ vectors' = [vectors EXCEPT ![h] = @ \cup {<<f, Embedding(config, f.text)>>}]
          /\ batch' = [batch EXCEPT ![h] = @ \ {f}]
          /\ Goto(h, IF batch[h] = {f} THEN "lookup" ELSE "storing")
    /\ UNCHANGED <<facts, packs, assigned, last, config, granted, lexical, seen,
                   missing, outcome>>

\* The vector of the query arrives: facts are ranked and the best returned.
Rank(h) ==
    /\ pc[h] = "query" /\ LoopFreeFor(h)
    /\ \E A \in Best(vectors[h]) : Return(h, A)

\* Mutant: a chunk that failed is sent again.
Unavailable_Retries(h) ==
    /\ pc[h] \in Waiting /\ LoopFreeFor(h)
    /\ missing' = [missing EXCEPT ![h] = @ \cup batch[h]]
    /\ batch' = [batch EXCEPT ![h] = {}]
    /\ Goto(h, "lookup")
    /\ UNCHANGED <<tables, config, granted, lexical, seen, vectors, outcome>>

\* The service fails, or is too slow, or returns another number of vectors:
\* BackendUnavailable, and the answer is what was found by words.
Unavailable(h) == pc[h] \in Waiting /\ LoopFreeFor(h) /\ ReturnLexical(h)

\* It returns JSON of another shape, on which the decoding raises.
Garbled(h) ==
    /\ pc[h] \in Waiting /\ LoopFreeFor(h)
    /\ excused' = [excused EXCEPT ![h] = TRUE]
    /\ Goto(h, "garbled")
    /\ UNCHANGED <<tables, config, granted, locals, answer>>

\* An exception other than BackendUnavailable: the decoding, or the foreign key
\* of a vector whose fact is gone.
Raise(h) ==
    /\ \/ pc[h] = "garbled"
       \/ pc[h] = "storing" /\ \E f \in batch[h] : ~ Storable(f)
    /\ Goto(h, "failed")
    /\ Drop({h})
    /\ UNCHANGED <<tables, config, answer>>

\* The daemon that asked is stopped while it awaits the service.
Cancel(h) ==
    /\ pc[h] \in Waiting /\ LoopFreeFor(h)
    /\ Goto(h, "idle")
    /\ Drop({h})
    /\ UNCHANGED <<tables, config, answer>>

\* The process ends and is started again, perhaps with other settings.
Restart ==
    /\ config' \in Setting \cup {Off}
    /\ pc' = [h \in Request |-> "idle"]
    /\ answer' = [h \in Request |-> {}]
    /\ Drop(Request)
    /\ UNCHANGED tables

-----------------------------------------------------------------------------

Administer ==
    \/ \E file \in File : Import(file)
    \/ \E p \in packs : DeletePack(p)
    \/ \E c \in Character, P \in SUBSET packs : Assign(c, P)
    \/ \E image \in Archive : Replace(image)

\* What a request does once it has begun, its failures included.
Step(h) ==
    \/ Search(h) \/ Lexical(h) \/ ListAgain(h) \/ List(h) \/ NoFacts(h)
    \/ Lookup(h) \/ Send(h) \/ SendQuery(h) \/ Embedded(h) \/ Store(h)
    \/ Rank(h) \/ Unavailable(h) \/ Garbled(h) \/ Raise(h)

Next ==
    \/ Administer
    \/ Restart
    \/ \E h \in Request : Start(h) \/ Step(h) \/ Cancel(h)

\* The loop serves a request whose await is over after those that were ready
\* before it, and every await on the service has a timeout.
Fairness == \A h \in Request : SF_vars(Step(h))

Spec == Init /\ [][Next]_vars /\ Fairness

-----------------------------------------------------------------------------

\* Types; ids are unique, and rows refer to what there is.
TypeOK ==
    /\ [facts |-> facts, packs |-> packs, assigned |-> assigned, cache |-> cache,
        last |-> last] \in Image
    /\ Refers([facts |-> facts, packs |-> packs, assigned |-> assigned,
               cache |-> cache, last |-> last])
    /\ config \in Setting \cup {Off}
    /\ pc \in [Request -> Busy \cup {"idle", "answered", "failed"}]
    /\ granted \in [Request -> SUBSET Nat]
    /\ lexical \in [Request -> SUBSET Fact] /\ seen \in [Request -> SUBSET Fact]
    /\ missing \in [Request -> SUBSET Fact] /\ batch \in [Request -> SUBSET Fact]
    /\ vectors \in [Request -> SUBSET (Fact \X Vector)]
    /\ answer \in [Request -> SUBSET (Fact \X (Vector \cup {Unranked}))]
    /\ excused \in [Request -> BOOLEAN]

\* The cache cannot be noticed: retrieval with it does what LoreRetrieval says
\* without it, whatever is deleted, replaced or reconfigured under a request, and
\* whichever requests store vectors for the same id.
Retrieval == INSTANCE LoreRetrieval WITH
    phase <- [h \in Request |-> IF pc[h] \in Busy THEN "busy" ELSE pc[h]],
    known <- [h \in Request |-> Found(h)]

CacheTransparent == Retrieval!Spec

\* Every request is over at last, answered or failed, whatever the service does.
RetrievalEnds == \A h \in Request : pc[h] \in Busy ~> pc[h] \notin Busy

=============================================================================
