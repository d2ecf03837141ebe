-------------------------- MODULE LoreCache_proofs --------------------------
(***************************************************************************)
(* What is proved of LoreCache for every set of requests, facts, settings  *)
(* and databases: type correctness, that it implements LoreRetrieval, and  *)
(* that no retrieval goes on for ever by steps of its own.                 *)
(***************************************************************************)
EXTENDS LoreCache, FiniteSetTheorems, TLAPS

-----------------------------------------------------------------------------
(* Type correctness *)

\* The tables and what is the same record in TypeOK.
Tables == [facts |-> facts, packs |-> packs, assigned |-> assigned, cache |-> cache,
           last |-> last]

\* A new pack gets new ids (create_lore_pack, AUTOINCREMENT).
LEMMA ImportType ==
    ASSUME LoreCacheAssumption, TypeOK, NEW file \in File, Import(file)
    PROVE  Tables' \in Image /\ Refers(Tables')
<1>. DEFINE n == Cardinality(DOMAIN file)
            New == {[id |-> last.fact + i, pack |-> last'.pack, text |-> file[i]]
                        : i \in DOMAIN file}
<1>1. n \in Nat /\ file \in [1..n -> Text] /\ DOMAIN file = 1..n
    BY FS_CardinalityType DEF LoreCacheAssumption
<1>2. /\ last \in [pack : Nat, fact : Nat]
      /\ last' = [pack |-> last.pack + 1, fact |-> last.fact + n]
      /\ packs' = packs \cup {last'.pack} /\ facts' = facts \cup New
      /\ assigned' = assigned /\ cache' = cache
    BY DEF Import, TypeOK, Image
<1>. HIDE DEF n
<1>3. /\ last'.pack = last.pack + 1 /\ last'.fact = last.fact + n
      /\ last'.pack \in Nat /\ last'.fact \in Nat
      /\ last' \in [pack : Nat, fact : Nat]
    BY <1>1, <1>2
<1>4. \A f \in New : /\ f \in Fact /\ f.pack = last'.pack
                     /\ f.id > last.fact /\ f.id <= last'.fact
    BY <1>1, <1>2, <1>3 DEF Fact
<1>5. \A f, g \in New : f.id = g.id => f = g
    <2>. SUFFICES ASSUME NEW i \in 1..n, NEW j \in 1..n, last.fact + i = last.fact + j
                  PROVE  i = j
        BY <1>1
    <2>. QED  BY <1>1, <1>2
<1>6. /\ facts \subseteq Fact /\ packs \subseteq Nat
      /\ assigned \subseteq Character \X Nat /\ cache \subseteq Row
    BY DEF TypeOK, Image
<1>7. /\ \A f \in facts : f.pack \in packs /\ f.id <= last.fact /\ f.id \in Nat
      /\ \A f, g \in facts : f.id = g.id => f = g
      /\ \A a \in assigned : a[2] \in packs
      /\ \A r \in cache : \E f \in facts : f.id = r.fact
      /\ \A p \in packs : p <= last.pack /\ p \in Nat
    BY <1>6 DEF TypeOK, Refers, Fact
<1>. HIDE DEF New
<1>8. Tables' \in Image
    BY <1>2, <1>3, <1>4, <1>6 DEF Tables, Image
<1>9. \A f \in facts' : f.pack \in packs' /\ f.id <= last'.fact
    BY <1>1, <1>2, <1>3, <1>4, <1>7
<1>10. \A f, g \in facts' : f.id = g.id => f = g
    <2>1. \A f \in facts, g \in New : f.id # g.id
        BY <1>2, <1>4, <1>7 DEF Fact
    <2>. QED  BY <1>2, <1>5, <1>7, <2>1
<1>11. \A p \in packs' : p <= last'.pack
    BY <1>2, <1>3, <1>7
<1>12. \A r \in cache' : \E f \in facts' : f.id = r.fact
    BY <1>2, <1>7
<1>13. \A a \in assigned' : a[2] \in packs'
    BY <1>2, <1>7
<1>. QED  BY <1>8, <1>9, <1>10, <1>11, <1>12, <1>13 DEF Tables, Refers

\* Only a process with embeddings gets past the search by words.
Configured == \A h \in Request : pc[h] \in Busy \ {"facts", "lexical"} => config \in Setting

LEMMA ConfiguredStep ==
    ASSUME TypeOK, Configured, [Next]_vars
    PROVE  Configured'
<1>. USE DEF Goto, Busy, Running, Waiting
<1>1. config \in Setting \cup {Off} /\ DOMAIN pc = Request
    BY DEF TypeOK
<1>2. CASE Administer \/ UNCHANGED vars
    BY <1>2 DEF Administer, Import, DeletePack, Assign, Replace, vars, Configured
<1>3. CASE Restart
    BY <1>3 DEF Restart, Configured
<1>4. ASSUME NEW h \in Request, Start(h) \/ Search(h) \/ ListAgain(h) PROVE Configured'
    BY <1>1, <1>4 DEF Start, Search, ListAgain, Configured
<1>5. ASSUME NEW h \in Request,
             List(h) \/ Lookup(h) \/ Send(h) \/ SendQuery(h) \/ Embedded(h) \/ Garbled(h)
      PROVE  Configured'
    BY <1>1, <1>5 DEF List, Lookup, Send, SendQuery, Embedded, Garbled, Configured
<1>6. ASSUME NEW h \in Request, Store(h) PROVE Configured'
    BY <1>1, <1>6 DEF Store, Configured
<1>7. ASSUME NEW h \in Request,
             Lexical(h) \/ NoFacts(h) \/ Rank(h) \/ Unavailable(h) \/ Raise(h) \/ Cancel(h)
      PROVE  Configured'
    BY <1>1, <1>7 DEF Lexical, NoFacts, Rank, Unavailable, Raise, Cancel, ReturnLexical,
        Return, Configured
<1>. QED  BY <1>2, <1>3, <1>4, <1>5, <1>6, <1>7 DEF Next, Step

\* What is not in the tables.
LocalsType ==
    /\ config \in Setting \cup {Off}
    /\ pc \in [Request -> Busy \cup {"idle", "answered", "failed"}]
    /\ granted \in [Request -> SUBSET Nat]
    /\ lexical \in [Request -> SUBSET Fact] /\ seen \in [Request -> SUBSET Fact]
    /\ missing \in [Request -> SUBSET Fact] /\ batch \in [Request -> SUBSET Fact]
    /\ vectors \in [Request -> SUBSET (Fact \X Vector)]
    /\ answer \in [Request -> SUBSET (Fact \X (Vector \cup {Unranked}))]
    /\ excused \in [Request -> BOOLEAN]

LEMMA TypeSplit == TypeOK <=> Tables \in Image /\ Refers(Tables) /\ LocalsType
BY DEF TypeOK, Tables, LocalsType

\* The tables keep their types, and rows what they refer to (the ON DELETE CASCADEs
\* of SCHEMA and the foreign key of upsert_lore_embedding).
LEMMA TablesStep ==
    ASSUME LoreCacheAssumption, TypeOK, Configured, [Next]_vars
    PROVE  Tables' \in Image /\ Refers(Tables')
<1>1. /\ facts \subseteq Fact /\ packs \subseteq Nat /\ last \in [pack : Nat, fact : Nat]
      /\ assigned \subseteq Character \X Nat /\ cache \subseteq Row
      /\ \A f \in facts : f.pack \in packs /\ f.id <= last.fact
      /\ \A f, g \in facts : f.id = g.id => f = g
      /\ \A a \in assigned : a[2] \in packs
      /\ \A r \in cache : \E f \in facts : f.id = r.fact
      /\ \A p \in packs : p <= last.pack
    BY DEF TypeOK, Image, Refers
<1>2. ASSUME NEW p \in packs, DeletePack(p) PROVE Tables' \in Image /\ Refers(Tables')
    <2>1. /\ packs' = packs \ {p} /\ last' = last
          /\ facts' = {f \in facts : f.pack # p}
          /\ assigned' = {a \in assigned : a[2] # p}
          /\ cache' = {r \in cache : \E f \in facts' : f.id = r.fact}
        BY <1>2 DEF DeletePack
    <2>2. Tables' \in Image
        BY <1>1, <2>1 DEF Tables, Image
    <2>3. \A f \in facts' : f.pack \in packs' /\ f.id <= last'.fact
        BY <1>1, <2>1
    <2>4. \A r \in cache' : \E f \in facts' : f.id = r.fact
        BY <2>1
    <2>. QED  BY <1>1, <2>1, <2>2, <2>3, <2>4 DEF Tables, Refers
<1>3. ASSUME NEW c \in Character, NEW P \in SUBSET packs, Assign(c, P)
      PROVE  Tables' \in Image /\ Refers(Tables')
    <2>1. /\ assigned' = {a \in assigned : a[1] # c} \cup {c} \X P
          /\ UNCHANGED <<facts, packs, cache, last>>
        BY <1>3 DEF Assign
    <2>2. assigned' \subseteq Character \X Nat /\ \A a \in assigned' : a[2] \in packs
        BY <1>1, <2>1
    <2>. QED  BY <1>1, <2>1, <2>2 DEF Tables, Image, Refers
<1>4. ASSUME NEW image \in Archive, Replace(image)
      PROVE  Tables' \in Image /\ Refers(Tables')
    <2>1. image \in Image /\ Refers(image)
        BY DEF LoreCacheAssumption
    <2>2. /\ facts' = image.facts /\ packs' = image.packs /\ assigned' = image.assigned
          /\ cache' = image.cache /\ last' = image.last
        BY <1>4 DEF Replace
    <2>. QED  BY <2>1, <2>2 DEF Tables, Image, Refers
<1>5. ASSUME NEW h \in Request, Store(h) PROVE Tables' \in Image /\ Refers(Tables')
    <2>1. /\ config \in Setting /\ UNCHANGED <<facts, packs, assigned, last, config>>
        BY <1>5 DEF Store, Configured, Busy, Running, Waiting
    <2>2. PICK f \in batch[h] : Storable(f) /\ Upsert(f)
        BY <1>5 DEF Store
    <2>3. f \in Fact
        BY <2>2 DEF TypeOK
    <2>4. [fact |-> f.id, model |-> config.model, hash |-> Hash(config, f.text),
           vector |-> Embedding(config, f.text)] \in Row
        BY <2>1, <2>3 DEF LoreCacheAssumption, Row, Fact, Hash, Embedding, Vector, Model
    <2>5. cache' \subseteq Row /\ \A r \in cache' : \E g \in facts : g.id = r.fact
        BY <1>1, <2>2, <2>4 DEF Upsert, Storable
    <2>. QED  BY <1>1, <2>1, <2>5 DEF Tables, Image, Refers
<1>6. ASSUME NEW h \in Request, Start(h) \/ Step(h) \/ Cancel(h), ~ Store(h)
      PROVE  UNCHANGED tables
    BY <1>6 DEF Start, Step, Cancel, Search, Lexical, ListAgain, List, NoFacts, Lookup,
        Send, SendQuery, Embedded, Rank, Unavailable, Garbled, Raise, ReturnLexical, Return
<1>7. UNCHANGED tables => Tables' \in Image /\ Refers(Tables')
    BY TypeSplit DEF tables, Tables
<1>8. Restart \/ UNCHANGED vars => UNCHANGED tables
    BY DEF Restart, vars
<1>. QED
    BY <1>2, <1>3, <1>4, <1>5, <1>6, <1>7, <1>8, ImportType DEF Next, Administer

\* What Drop leaves.
LEMMA DropType ==
    ASSUME LocalsType, NEW H, Drop(H)
    PROVE  /\ granted' \in [Request -> SUBSET Nat]
           /\ lexical' \in [Request -> SUBSET Fact] /\ seen' \in [Request -> SUBSET Fact]
           /\ missing' \in [Request -> SUBSET Fact] /\ batch' \in [Request -> SUBSET Fact]
           /\ vectors' \in [Request -> SUBSET (Fact \X Vector)]
           /\ excused' \in [Request -> BOOLEAN]
<1>1. granted' \in [Request -> SUBSET Nat] /\ excused' \in [Request -> BOOLEAN]
    BY DEF Drop, LocalsType
<1>2. lexical' \in [Request -> SUBSET Fact] /\ seen' \in [Request -> SUBSET Fact]
    BY DEF Drop, LocalsType
<1>3. missing' \in [Request -> SUBSET Fact] /\ batch' \in [Request -> SUBSET Fact]
    BY DEF Drop, LocalsType
<1>4. vectors' \in [Request -> SUBSET (Fact \X Vector)]
    BY DEF Drop, LocalsType
<1>. QED  BY <1>1, <1>2, <1>3, <1>4

\* The locals keep their types.
LEMMA LocalsStep ==
    ASSUME LoreCacheAssumption, TypeOK, Configured, [Next]_vars
    PROVE  LocalsType'
<1>. USE DEF locals, outcome
<1>1. LocalsType /\ facts \subseteq Fact /\ packs \subseteq Nat
      /\ assigned \subseteq Character \X Nat /\ cache \subseteq Row
    BY TypeSplit DEF Tables, Image
<1>2. CASE Administer
    <2>1. UNCHANGED <<config, pc, granted, locals, answer>>
        BY <1>2 DEF Administer, Import, DeletePack, Assign, Replace
    <2>2. UNCHANGED excused \/ Excuse
        BY <1>2 DEF Administer, Import, DeletePack, Assign, Replace
    <2>3. excused' \in [Request -> BOOLEAN]
        BY <1>1, <2>2 DEF Excuse, LocalsType
    <2>. QED  BY <1>1, <2>1, <2>3 DEF LocalsType
<1>3. CASE Restart
    BY <1>1, <1>3, DropType DEF Restart, LocalsType
<1>4. ASSUME NEW h \in Request PROVE ListPacks(h) => granted' \in [Request -> SUBSET Nat]
    <2>1. {a[2] : a \in {b \in assigned : b[1] = For[h]}} \subseteq Nat
        BY <1>1
    <2>. QED  BY <1>1, <2>1 DEF ListPacks, LocalsType
<1>5. ASSUME NEW h \in Request, Start(h) \/ ListAgain(h) PROVE LocalsType'
    BY <1>1, <1>4, <1>5 DEF Start, ListAgain, Goto, LocalsType, Busy, Running
<1>6. ASSUME NEW h \in Request, Search(h) PROVE LocalsType'
    <2>1. PICK found \in Best({f \in FactsOf(h) : f.text \in Matching}) :
              lexical' = [lexical EXCEPT ![h] = found]
        BY <1>6 DEF Search
    <2>2. found \subseteq Fact
        BY <1>1, <2>1 DEF Best, FactsOf
    <2>. QED  BY <1>1, <1>6, <2>1, <2>2 DEF Search, Goto, LocalsType, Busy, Running
<1>7. ASSUME NEW h \in Request, List(h) PROVE LocalsType'
    <2>1. FactsOf(h) \subseteq Fact
        BY <1>1 DEF FactsOf
    <2>. QED  BY <1>1, <1>7, <2>1 DEF List, Goto, LocalsType, Busy, Running
<1>8. ASSUME NEW h \in Request, Lookup(h) PROVE LocalsType'
    <2>1. PICK f \in seen[h] :
              \/ missing' = [missing EXCEPT ![h] = @ \cup {f}] /\ UNCHANGED vectors
              \/ /\ \E r \in cache : vectors' = [vectors EXCEPT ![h] = @ \cup {<<f, r.vector>>}]
                 /\ UNCHANGED missing
        BY <1>8 DEF Lookup, Unlooked, Cached
    <2>2. f \in Fact /\ \A r \in cache : <<f, r.vector>> \in Fact \X Vector
        BY <1>1, <2>1 DEF LocalsType, Row
    <2>3. missing' \in [Request -> SUBSET Fact] /\ vectors' \in [Request -> SUBSET (Fact \X Vector)]
        BY <1>1, <2>1, <2>2 DEF LocalsType
    <2>. QED  BY <1>1, <1>8, <2>3 DEF Lookup, LocalsType
<1>9. ASSUME NEW h \in Request, Send(h) PROVE LocalsType'
    BY <1>1, <1>9 DEF Send, Goto, LocalsType, Busy, Waiting
<1>10. ASSUME NEW h \in Request, SendQuery(h) \/ Embedded(h) \/ Garbled(h) PROVE LocalsType'
    BY <1>1, <1>10 DEF SendQuery, Embedded, Garbled, Goto, LocalsType, Busy, Running, Waiting
<1>11. ASSUME NEW h \in Request, Store(h) PROVE LocalsType'
    <2>1. PICK f \in batch[h] :
              /\ vectors' = [vectors EXCEPT ![h] = @ \cup {<<f, Embedding(config, f.text)>>}]
              /\ batch' = [batch EXCEPT ![h] = @ \ {f}]
              /\ Goto(h, IF batch[h] = {f} THEN "lookup" ELSE "storing")
        BY <1>11 DEF Store
    <2>2. config \in Setting
        BY <1>11 DEF Store, Configured, Busy, Running
    <2>3. f \in Fact /\ <<f, Embedding(config, f.text)>> \in Fact \X Vector
        BY <1>1, <2>1, <2>2 DEF LocalsType, Embedding, Vector, Fact
    <2>4. vectors' \in [Request -> SUBSET (Fact \X Vector)] /\ batch' \in [Request -> SUBSET Fact]
        BY <1>1, <2>1, <2>3 DEF LocalsType
    <2>. QED  BY <1>1, <1>11, <2>1, <2>4 DEF Store, Goto, LocalsType, Busy, Running
<1>12. ASSUME NEW h \in Request, NEW A \in SUBSET (Fact \X (Vector \cup {Unranked})), Return(h, A)
       PROVE  LocalsType'
    BY <1>1, <1>12, DropType DEF Return, Goto, LocalsType
<1>13. ASSUME NEW h \in Request, Lexical(h) \/ NoFacts(h) \/ Unavailable(h) PROVE LocalsType'
    <2>1. lexical[h] \X {Unranked} \in SUBSET (Fact \X (Vector \cup {Unranked}))
        BY <1>1 DEF LocalsType
    <2>. QED  BY <1>12, <1>13, <2>1 DEF Lexical, NoFacts, Unavailable, ReturnLexical
<1>14. ASSUME NEW h \in Request, Rank(h) PROVE LocalsType'
    <2>1. PICK A \in Best(vectors[h]) : Return(h, A)
        BY <1>14 DEF Rank
    <2>2. A \in SUBSET (Fact \X (Vector \cup {Unranked}))
        BY <1>1, <2>1 DEF Best, LocalsType
    <2>. QED  BY <1>12, <2>1, <2>2
<1>15. ASSUME NEW h \in Request, Raise(h) \/ Cancel(h) PROVE LocalsType'
    BY <1>1, <1>15, DropType DEF Raise, Cancel, Goto, LocalsType
<1>16. CASE UNCHANGED vars
    BY <1>1, <1>16 DEF vars, LocalsType
<1>. QED
    BY <1>2, <1>3, <1>5, <1>6, <1>7, <1>8, <1>9, <1>10, <1>11, <1>13, <1>14, <1>15, <1>16
    DEF Next, Step

\* Initially there is nothing.
LEMMA TypeInit ==
    ASSUME LoreCacheAssumption, Init
    PROVE  TypeOK /\ Configured
BY DEF Init, TypeOK, Configured, Empty, Image, Refers, Busy, Running, Waiting

\* Ids stay unique, and facts, assignments and vectors refer to what there is, however
\* imports, deletions, replacements and the upserts of late vectors interleave.
THEOREM TypeCorrect == Spec => []TypeOK
<1>. USE LoreCacheAssumption
<1>1. Init => TypeOK /\ Configured
    BY TypeInit
<1>2. TypeOK /\ Configured /\ [Next]_vars => TypeOK' /\ Configured'
    <2>. SUFFICES ASSUME TypeOK, Configured, [Next]_vars PROVE TypeOK' /\ Configured'
        OBVIOUS
    <2>1. TypeOK'
        BY TablesStep, LocalsStep DEF TypeOK, Tables, LocalsType
    <2>2. Configured'
        BY ConfiguredStep
    <2>. QED  BY <2>1, <2>2
<1>. QED  BY <1>1, <1>2, PTL DEF Spec

-----------------------------------------------------------------------------
(* The cache cannot be noticed *)

\* Where a request is, and what it holds there.
LocatedAt(h) ==
    /\ pc[h] \notin Busy => /\ granted[h] = {} /\ lexical[h] = {} /\ seen[h] = {}
                            /\ missing[h] = {} /\ batch[h] = {} /\ vectors[h] = {}
                            /\ excused[h] = FALSE
    /\ pc[h] = "facts" => lexical[h] = {}
    /\ pc[h] \in {"facts", "lexical", "again"} => seen[h] = {}
    /\ pc[h] \in Busy \ {"facts", "again"} => granted[h] = {}
    /\ pc[h] = "garbled" => excused[h]
    /\ missing[h] \cup batch[h] \subseteq seen[h]

Located == \A h \in Request : LocatedAt(h)

\* Vectors are those of the fact's own text, in the cache and in a request.
Truth ==
    /\ Sound(cache)
    /\ \A h \in Request : \A v \in vectors[h] :
           v[1] \in seen[h] /\ v[2] = Embedding(config, v[1].text)

\* What is found by words fits into an answer.
Small ==
    /\ IsFiniteSet(facts)
    /\ \A h \in Request : IsFiniteSet(lexical[h]) /\ Cardinality(lexical[h]) <= Limit

\* Who holds a fact that is gone is excused.
Excusable == \A h \in Request : excused[h] \/ Found(h) \subseteq facts

\* Drop empties the locals of h, and of nobody else.
LEMMA Dropped ==
    ASSUME NEW h \in Request, Drop({h}), NEW g \in Request
    PROVE  IF g = h
           THEN /\ granted'[g] = {} /\ lexical'[g] = {} /\ seen'[g] = {}
                /\ missing'[g] = {} /\ batch'[g] = {} /\ vectors'[g] = {}
                /\ excused'[g] = FALSE
           ELSE /\ granted'[g] = granted[g] /\ lexical'[g] = lexical[g]
                /\ seen'[g] = seen[g] /\ missing'[g] = missing[g]
                /\ batch'[g] = batch[g] /\ vectors'[g] = vectors[g]
                /\ excused'[g] = excused[g]
BY DEF Drop

\* The actions that end a request.
Ends(h) == Lexical(h) \/ NoFacts(h) \/ Rank(h) \/ Unavailable(h) \/ Raise(h) \/ Cancel(h)

LEMMA EndsDrop ==
    ASSUME NEW h \in Request, Ends(h)
    PROVE  /\ Drop({h}) /\ UNCHANGED <<tables, config>>
           /\ pc[h] \in Busy
           /\ \E label \in {"idle", "answered", "failed"} : Goto(h, label)
BY DEF Ends, Lexical, NoFacts, Rank, Unavailable, Raise, Cancel, ReturnLexical, Return,
    Busy, Running, Waiting

\* The positions of requests, step by step.
LEMMA LocatedStep ==
    ASSUME TypeOK, Located, [Next]_vars
    PROVE  Located'
<1>. USE DEF locals, outcome, Busy, Running, Waiting
<1>1. /\ pc \in [Request -> Busy \cup {"idle", "answered", "failed"}]
      /\ DOMAIN granted = Request /\ DOMAIN lexical = Request
      /\ DOMAIN seen = Request /\ DOMAIN missing = Request /\ DOMAIN batch = Request
      /\ DOMAIN vectors = Request /\ excused \in [Request -> BOOLEAN]
    BY DEF TypeOK
<1>. SUFFICES ASSUME NEW g \in Request PROVE LocatedAt(g)'
    BY DEF Located
<1>0. LocatedAt(g)
    BY DEF Located
<1>2. CASE Administer
    <2>1. UNCHANGED <<pc, granted, locals>>
        BY <1>2 DEF Administer, Import, DeletePack, Assign, Replace
    <2>2. UNCHANGED excused \/ excused'[g] = (excused[g] \/ Found(g) \ facts' # {})
        BY <1>2 DEF Administer, Import, DeletePack, Assign, Replace, Excuse
    <2>3. pc[g] \notin Busy => Found(g) = {}
        BY <1>0 DEF LocatedAt, Found
    <2>. QED  BY <1>0, <1>1, <2>1, <2>2, <2>3 DEF LocatedAt
<1>3. CASE Restart
    BY <1>3 DEF Restart, Drop, LocatedAt
<1>4. ASSUME NEW h \in Request, Start(h) \/ ListAgain(h) PROVE LocatedAt(g)'
    BY <1>0, <1>1, <1>4 DEF Start, ListAgain, ListPacks, Goto, LocatedAt
<1>5. ASSUME NEW h \in Request, Search(h) \/ List(h) PROVE LocatedAt(g)'
    BY <1>0, <1>1, <1>5 DEF Search, List, Goto, LocatedAt
<1>6. ASSUME NEW h \in Request, Lookup(h) PROVE LocatedAt(g)'
    <2>1. /\ pc[h] = "lookup" /\ UNCHANGED <<pc, granted, lexical, seen, batch, excused>>
        BY <1>6 DEF Lookup
    <2>2. PICK f \in seen[h] :
              \/ missing' = [missing EXCEPT ![h] = @ \cup {f}] /\ UNCHANGED vectors
              \/ /\ \E r \in cache : vectors' = [vectors EXCEPT ![h] = @ \cup {<<f, r.vector>>}]
                 /\ UNCHANGED missing
        BY <1>6 DEF Lookup, Unlooked, Cached
    <2>3. CASE g = h
        <3>1. CASE missing' = [missing EXCEPT ![h] = @ \cup {f}]
            <4>1. missing'[g] = missing[g] \cup {f}
                BY <1>1, <2>3, <3>1
            <4>. QED  BY <1>0, <2>1, <2>3, <4>1 DEF LocatedAt
        <3>2. CASE UNCHANGED missing
            BY <1>0, <2>1, <2>3, <3>2 DEF LocatedAt
        <3>. QED  BY <2>2, <3>1, <3>2
    <2>4. CASE g # h
        <3>1. missing'[g] = missing[g] /\ vectors'[g] = vectors[g]
            BY <1>1, <2>2, <2>4
        <3>. QED  BY <1>0, <2>1, <3>1 DEF LocatedAt
    <2>. QED  BY <2>3, <2>4
<1>7. ASSUME NEW h \in Request, Send(h) PROVE LocatedAt(g)'
    <2>1. PICK B \in SUBSET missing[h] :
              /\ batch' = [batch EXCEPT ![h] = B]
              /\ missing' = [missing EXCEPT ![h] = @ \ B]
        BY <1>7 DEF Send
    <2>2. /\ pc[h] = "lookup" /\ pc' = [pc EXCEPT ![h] = "embedding"]
          /\ UNCHANGED <<granted, lexical, seen, vectors, excused>>
        BY <1>7 DEF Send, Goto
    <2>3. missing'[g] \cup batch'[g] \subseteq missing[g] \cup batch[g]
        BY <1>1, <2>1
    <2>4. g # h => missing'[g] = missing[g] /\ batch'[g] = batch[g]
        BY <1>1, <2>1
    <2>. QED  BY <1>0, <1>1, <2>2, <2>3, <2>4 DEF LocatedAt
<1>8. ASSUME NEW h \in Request, SendQuery(h) \/ Embedded(h) \/ Garbled(h) PROVE LocatedAt(g)'
    BY <1>0, <1>1, <1>8 DEF SendQuery, Embedded, Garbled, Goto, LocatedAt
<1>9. ASSUME NEW h \in Request, Store(h) PROVE LocatedAt(g)'
    <2>1. PICK label \in {"lookup", "storing"} : pc' = [pc EXCEPT ![h] = label]
        BY <1>9 DEF Store, Goto
    <2>0. PICK f \in batch[h] :
              /\ vectors' = [vectors EXCEPT ![h] = @ \cup {<<f, Embedding(config, f.text)>>}]
              /\ batch' = [batch EXCEPT ![h] = @ \ {f}]
        BY <1>9 DEF Store
    <2>2. /\ batch'[g] \subseteq batch[g] /\ (g # h => vectors'[g] = vectors[g])
          /\ (g # h => batch'[g] = batch[g])
          /\ UNCHANGED <<granted, lexical, seen, missing, excused>> /\ pc[h] = "storing"
        <3>1. UNCHANGED <<granted, lexical, seen, missing, excused>> /\ pc[h] = "storing"
            BY <1>9 DEF Store
        <3>. QED  BY <1>1, <2>0, <3>1
    <2>3. CASE g = h
        <3>1. pc'[g] \in {"lookup", "storing"} /\ pc[g] = "storing"
            BY <1>1, <2>1, <2>2, <2>3
        <3>2. granted[g] = {} /\ missing[g] \cup batch[g] \subseteq seen[g]
            BY <1>0, <3>1 DEF LocatedAt
        <3>. QED  BY <2>2, <3>1, <3>2 DEF LocatedAt
    <2>4. CASE g # h
        <3>1. pc'[g] = pc[g]
            BY <1>1, <2>1, <2>4
        <3>. QED  BY <1>0, <2>2, <2>4, <3>1 DEF LocatedAt
    <2>. QED  BY <2>3, <2>4
<1>10. ASSUME NEW h \in Request, Ends(h) PROVE LocatedAt(g)'
    <2>1. PICK label \in {"idle", "answered", "failed"} : Goto(h, label)
        BY <1>10, EndsDrop
    <2>2. Drop({h})
        BY <1>10, EndsDrop
    <2>3. CASE g = h
        <3>1. /\ granted'[g] = {} /\ lexical'[g] = {} /\ seen'[g] = {} /\ missing'[g] = {}
              /\ batch'[g] = {} /\ vectors'[g] = {} /\ excused'[g] = FALSE
            BY <2>2, <2>3, Dropped
        <3>2. pc'[g] = label
            BY <1>1, <2>1, <2>3 DEF Goto
        <3>. QED  BY <3>1, <3>2 DEF LocatedAt
    <2>4. CASE g # h
        <3>1. /\ granted'[g] = granted[g] /\ lexical'[g] = lexical[g]
              /\ seen'[g] = seen[g] /\ missing'[g] = missing[g]
              /\ batch'[g] = batch[g] /\ vectors'[g] = vectors[g]
              /\ excused'[g] = excused[g]
            BY <2>2, <2>4, Dropped
        <3>2. pc'[g] = pc[g]
            BY <1>1, <2>1, <2>4 DEF Goto
        <3>. QED  BY <1>0, <3>1, <3>2 DEF LocatedAt
    <2>. QED  BY <2>3, <2>4
<1>11. CASE UNCHANGED vars
    BY <1>0, <1>11 DEF vars, LocatedAt
<1>. QED
    BY <1>2, <1>3, <1>4, <1>5, <1>6, <1>7, <1>8, <1>9, <1>10, <1>11 DEF Next, Step, Ends

\* Vectors are stored under the hash of what they were computed from, and a row is used
\* only under the hash of what is wanted (get_lore_embedding, upsert_lore_embedding).
LEMMA TruthStep ==
    ASSUME LoreCacheAssumption, TypeOK, Configured, Located, Truth, [Next]_vars
    PROVE  Truth'
<1>. USE DEF locals, outcome, tables
<1>1. /\ DOMAIN vectors = Request /\ DOMAIN seen = Request
      /\ \A h \in Request : seen[h] \subseteq Fact /\ batch[h] \subseteq Fact
    BY DEF TypeOK
<1>2. \A rows : (\A r \in rows : r \in cache) => (Sound(cache) => Sound(rows))
    BY DEF Sound
<1>3. CASE Administer
    <2>1. UNCHANGED <<config, seen, vectors>>
        BY <1>3 DEF Administer, Import, DeletePack, Assign, Replace
    <2>2. Sound(cache')
        BY <1>2, <1>3 DEF Administer, Import, DeletePack, Assign, Replace, Truth,
            LoreCacheAssumption
    <2>. QED  BY <2>1, <2>2 DEF Truth, Sound, Embedding
<1>4. CASE Restart
    BY <1>4 DEF Restart, Drop, Truth, Sound, Hash, Embedding
<1>5. ASSUME NEW h \in Request, Start(h) \/ Search(h) \/ ListAgain(h) PROVE Truth'
    BY <1>5 DEF Start, Search, ListAgain, Truth, Sound, Embedding
<1>6. ASSUME NEW h \in Request, Send(h) \/ SendQuery(h) \/ Embedded(h) \/ Garbled(h)
      PROVE  Truth'
    BY <1>6 DEF Send, SendQuery, Embedded, Garbled, Truth, Sound, Embedding
<1>7. ASSUME NEW h \in Request, List(h) PROVE Truth'
    BY <1>1, <1>7 DEF List, Truth, Sound, Embedding, Located, LocatedAt
<1>8. ASSUME NEW h \in Request, Lookup(h) PROVE Truth'
    <2>1. PICK f \in seen[h] :
              \/ UNCHANGED vectors
              \/ \E r \in Cached(f) : vectors' = [vectors EXCEPT ![h] = @ \cup {<<f, r.vector>>}]
        BY <1>8 DEF Lookup, Unlooked
    <2>2. config \in Setting /\ f \in Fact /\ f.text \in Text
        BY <1>1, <1>8, <2>1 DEF Lookup, Configured, Busy, Running, Fact
    <2>3. \A r \in Cached(f) : r.vector = Embedding(config, f.text)
        BY <2>2 DEF Cached, Truth, Sound
    <2>4. UNCHANGED <<config, cache, seen>>
        BY <1>8 DEF Lookup
    <2>. QED  BY <1>1, <2>1, <2>3, <2>4 DEF Truth, Sound, Embedding
<1>9. ASSUME NEW h \in Request, Store(h) PROVE Truth'
    <2>1. PICK f \in batch[h] :
              /\ Upsert(f)
              /\ vectors' = [vectors EXCEPT ![h] = @ \cup {<<f, Embedding(config, f.text)>>}]
        BY <1>9 DEF Store
    <2>2. f \in seen[h] /\ UNCHANGED <<config, seen>>
        BY <1>9, <2>1 DEF Located, LocatedAt, Store
    <2>3. Sound(cache')
        BY <2>1 DEF Upsert, Truth, Sound, Hash, Embedding
    <2>. QED  BY <1>1, <2>1, <2>2, <2>3 DEF Truth, Sound, Embedding
<1>10. ASSUME NEW h \in Request, Ends(h) PROVE Truth'
    <2>1. Drop({h}) /\ UNCHANGED <<config, cache>>
        BY <1>10, EndsDrop
    <2>2. \A g \in Request : vectors'[g] = {} \/ (vectors'[g] = vectors[g] /\ seen'[g] = seen[g])
        BY <2>1, Dropped
    <2>. QED  BY <2>1, <2>2 DEF Truth, Sound, Embedding
<1>11. CASE UNCHANGED vars
    BY <1>11 DEF vars, Truth, Sound, Embedding
<1>. QED
    BY <1>3, <1>4, <1>5, <1>6, <1>7, <1>8, <1>9, <1>10, <1>11 DEF Next, Step, Ends

\* What search_lore returns fits into an answer.
LEMMA SmallStep ==
    ASSUME LoreCacheAssumption, TypeOK, Small, [Next]_vars
    PROVE  Small'
<1>. USE DEF locals, outcome, tables
<1>1. DOMAIN lexical = Request /\ Limit \in Nat
    BY DEF TypeOK, LoreCacheAssumption
<1>2. IsFiniteSet({}) /\ Cardinality({}) = 0
    BY FS_EmptySet
<1>3. ASSUME NEW file \in File, Import(file) PROVE IsFiniteSet(facts')
    <2>. DEFINE Nth == [i \in DOMAIN file |->
                            [id |-> last.fact + i, pack |-> last'.pack, text |-> file[i]]]
                New == {Nth[i] : i \in DOMAIN file}
    <2>1. Nth \in Surjection(DOMAIN file, New)
        BY DEF Surjection
    <2>2. facts' = facts \cup New
        BY <1>3 DEF Import
    <2>3. IsFiniteSet(DOMAIN file)
        BY DEF LoreCacheAssumption
    <2>. HIDE DEF Nth, New
    <2>4. IsFiniteSet(New)
        BY <2>1, <2>3, FS_Surjection
    <2>. QED  BY <2>2, <2>4, FS_Union DEF Small
<1>4. CASE Administer
    <2>1. UNCHANGED lexical
        BY <1>4 DEF Administer, Import, DeletePack, Assign, Replace
    <2>2. ASSUME NEW p, DeletePack(p) PROVE IsFiniteSet(facts')
        BY <2>2, FS_Subset DEF DeletePack, Small
    <2>3. ASSUME NEW c, NEW P, Assign(c, P) PROVE IsFiniteSet(facts')
        BY <2>3 DEF Assign, Small
    <2>4. ASSUME NEW image \in Archive, Replace(image) PROVE IsFiniteSet(facts')
        BY <2>4 DEF Replace, LoreCacheAssumption
    <2>. QED  BY <1>3, <1>4, <2>1, <2>2, <2>3, <2>4 DEF Administer, Small
<1>5. CASE Restart
    BY <1>1, <1>2, <1>5 DEF Restart, Drop, Small, LoreCacheAssumption
<1>6. ASSUME NEW h \in Request, Search(h) PROVE Small'
    <2>1. PICK found \in Best({f \in FactsOf(h) : f.text \in Matching}) :
              lexical' = [lexical EXCEPT ![h] = found]
        BY <1>6 DEF Search
    <2>2. IsFiniteSet(found)
        BY <2>1, FS_Subset DEF Best, FactsOf, Small
    <2>3. Cardinality(found) <= Limit
        BY <1>1, <2>1 DEF Best
    <2>. QED  BY <1>1, <1>6, <2>1, <2>2, <2>3 DEF Search, Small
<1>7. ASSUME NEW h \in Request,
             Start(h) \/ ListAgain(h) \/ List(h) \/ Lookup(h) \/ Send(h)
      PROVE  Small'
    BY <1>7 DEF Start, ListAgain, List, Lookup, Send, Small
<1>8. ASSUME NEW h \in Request,
             SendQuery(h) \/ Embedded(h) \/ Garbled(h) \/ Store(h)
      PROVE  Small'
    BY <1>8 DEF SendQuery, Embedded, Garbled, Store, Small
<1>9. ASSUME NEW h \in Request, Ends(h) PROVE Small'
    <2>1. Drop({h}) /\ UNCHANGED facts
        BY <1>9, EndsDrop
    <2>2. ASSUME NEW g \in Request
          PROVE  IsFiniteSet(lexical'[g]) /\ Cardinality(lexical'[g]) <= Limit
        <3>1. IsFiniteSet(lexical[g]) /\ Cardinality(lexical[g]) <= Limit
            BY DEF Small
        <3>2. lexical'[g] = {} \/ lexical'[g] = lexical[g]
            BY <2>1, Dropped
        <3>3. 0 <= Limit
            BY <1>1
        <3>. QED  BY <1>2, <3>1, <3>2, <3>3, Zenon
    <2>. QED  BY <2>1, <2>2 DEF Small
<1>10. CASE UNCHANGED vars
    BY <1>10 DEF vars, Small
<1>. QED
    BY <1>4, <1>5, <1>6, <1>7, <1>8, <1>9, <1>10 DEF Next, Step, Ends

\* A fact is removed under a request only with its being excused.
LEMMA ExcusableStep ==
    ASSUME TypeOK, Located, Excusable, [Next]_vars
    PROVE  Excusable'
<1>. USE DEF locals, outcome, tables
<1>1. /\ DOMAIN lexical = Request /\ DOMAIN seen = Request
      /\ excused \in [Request -> BOOLEAN]
    BY DEF TypeOK
<1>2. CASE Administer
    <2>1. UNCHANGED <<lexical, seen>>
        BY <1>2 DEF Administer, Import, DeletePack, Assign, Replace
    <2>2. Excuse \/ (UNCHANGED excused /\ facts \subseteq facts')
        BY <1>2 DEF Administer, Import, DeletePack, Assign, Replace
    <2>3. CASE Excuse
        BY <2>1, <2>3 DEF Excuse, Excusable, Found
    <2>4. CASE UNCHANGED excused /\ facts \subseteq facts'
        BY <2>1, <2>4 DEF Excusable, Found
    <2>. QED  BY <2>2, <2>3, <2>4
<1>3. CASE Restart
    BY <1>3 DEF Restart, Drop, Excusable, Found
<1>4. ASSUME NEW h \in Request, Search(h) PROVE Excusable'
    <2>1. PICK found \in SUBSET facts : lexical' = [lexical EXCEPT ![h] = found]
        BY <1>4 DEF Search, Best, FactsOf
    <2>2. UNCHANGED <<facts, seen, excused>>
        BY <1>4 DEF Search
    <2>3. seen[h] = {}
        BY <1>4 DEF Search, Located, LocatedAt
    <2>. QED  BY <1>1, <2>1, <2>2, <2>3 DEF Excusable, Found
<1>5. ASSUME NEW h \in Request, List(h) PROVE Excusable'
    <2>1. PICK found \in SUBSET facts : seen' = [seen EXCEPT ![h] = found]
        BY <1>5 DEF List, FactsOf
    <2>2. UNCHANGED <<facts, lexical, excused>>
        BY <1>5 DEF List
    <2>. QED  BY <1>1, <2>1, <2>2 DEF Excusable, Found
<1>6. ASSUME NEW h \in Request,
             Start(h) \/ ListAgain(h) \/ Lookup(h) \/ Send(h) \/ SendQuery(h)
      PROVE  Excusable'
    BY <1>6 DEF Start, ListAgain, Lookup, Send, SendQuery, Excusable, Found
<1>7. ASSUME NEW h \in Request, Embedded(h) \/ Store(h) PROVE Excusable'
    BY <1>7 DEF Embedded, Store, Excusable, Found
<1>8. ASSUME NEW h \in Request, Garbled(h) PROVE Excusable'
    BY <1>1, <1>8 DEF Garbled, Excusable, Found
<1>9. ASSUME NEW h \in Request, Ends(h) PROVE Excusable'
    <2>1. Drop({h}) /\ UNCHANGED facts
        BY <1>9, EndsDrop
    <2>. QED  BY <2>1, Dropped DEF Excusable, Found
<1>10. CASE UNCHANGED vars
    BY <1>10 DEF vars, Excusable, Found
<1>. QED
    BY <1>2, <1>3, <1>4, <1>5, <1>6, <1>7, <1>8, <1>9, <1>10 DEF Next, Step, Ends

\* At first nothing is held, stored or found.
LEMMA PartsInit ==
    ASSUME LoreCacheAssumption, Init
    PROVE  Located /\ Truth /\ Small /\ Excusable
<1>1. Located
    BY DEF Init, Located, LocatedAt, Busy, Running, Waiting
<1>2. Truth
    BY DEF Init, Truth, Sound
<1>3. Small
    <2>1. /\ facts = {} /\ \A h \in Request : lexical[h] = {}
          /\ Limit \in Nat
        BY DEF Init, LoreCacheAssumption
    <2>. QED  BY <2>1, FS_EmptySet DEF Small
<1>4. Excusable
    BY DEF Init, Excusable, Found
<1>. QED  BY <1>1, <1>2, <1>3, <1>4

\* What retrieval without a cache starts from.
LEMMA RefinesInit ==
    ASSUME Init
    PROVE  Retrieval!Init
BY DEF Init, Retrieval!Init, Found, Busy, Running, Waiting

\* The administrator's handlers are managing.
LEMMA RefinesManage ==
    ASSUME LoreCacheAssumption, TypeOK, Configured, Excusable, Administer
    PROVE  Retrieval!Manage
<1>1. facts' \subseteq Fact /\ assigned' \subseteq Character \X Nat
    BY TablesStep DEF Next, Tables, Image
<1>2. UNCHANGED <<config, pc, granted, lexical, seen, answer>>
    BY DEF Administer, Import, DeletePack, Assign, Replace, locals, outcome
<1>3. excused' = [h \in Request |-> excused[h] \/ Found(h) \ facts' # {}]
    <2>1. CASE Excuse
        BY <2>1 DEF Excuse
    <2>2. CASE ~ Excuse
        <3>1. UNCHANGED excused /\ facts \subseteq facts'
            BY <2>2 DEF Administer, Import, DeletePack, Assign, Replace, outcome
        <3>2. excused \in [Request -> BOOLEAN]
            BY DEF TypeOK
        <3>3. \A h \in Request : Found(h) \ facts' # {} => excused[h]
            BY <3>1 DEF Excusable
        <3>. QED  BY <3>1, <3>2, <3>3
    <2>. QED  BY <2>1, <2>2
<1>. QED  BY <1>1, <1>2, <1>3 DEF Retrieval!Manage, Retrieval!Fact, Fact, Found

\* A restart is a restart.
LEMMA RefinesRestart ==
    ASSUME Restart
    PROVE  Retrieval!Restart
BY DEF Restart, Drop, tables, Retrieval!Restart, Found, Busy, Running, Waiting

\* Requests look for packs, twice, and find facts in them.
LEMMA RefinesLooking ==
    ASSUME TypeOK, Located, NEW h \in Request
    PROVE  /\ Start(h) => Retrieval!Ask(h)
           /\ ListAgain(h) => Retrieval!AskAgain(h)
           /\ Search(h) \/ List(h) => Retrieval!Find(h)
<1>. USE DEF locals, outcome, tables, Busy, Running, Waiting
<1>1. /\ DOMAIN pc = Request /\ DOMAIN lexical = Request /\ DOMAIN seen = Request
    BY DEF TypeOK
<1>2. Start(h) => Retrieval!Ask(h)
    <2>. SUFFICES ASSUME Start(h) PROVE Retrieval!Ask(h)
        OBVIOUS
    <2>1. /\ ListPacks(h) /\ answer' = [answer EXCEPT ![h] = {}] /\ pc[h] \notin Busy
          /\ pc' = [pc EXCEPT ![h] = "facts"]
          /\ UNCHANGED <<facts, assigned, config, lexical, seen, excused>>
        BY DEF Start, Goto
    <2>2. [g \in Request |-> IF pc[g] \in Busy THEN "busy" ELSE pc[g]]'
              = [[g \in Request |-> IF pc[g] \in Busy THEN "busy" ELSE pc[g]] EXCEPT ![h] = "busy"]
        BY <1>1, <2>1
    <2>3. UNCHANGED [g \in Request |-> Found(g)]
        BY <2>1 DEF Found
    <2>4. [g \in Request |-> IF pc[g] \in Busy THEN "busy" ELSE pc[g]][h] # "busy"
        BY <2>1 DEF TypeOK
    <2>. QED  BY <2>1, <2>2, <2>3, <2>4 DEF ListPacks, Retrieval!Ask, Retrieval!Look
<1>3. ListAgain(h) => Retrieval!AskAgain(h)
    BY <1>1 DEF ListAgain, ListPacks, Goto, Found, Retrieval!AskAgain, Retrieval!Look
<1>4. ASSUME NEW F \in SUBSET FactsOf(h), pc[h] \in Busy,
             Found(h)' = Found(h) \cup F,
             \A g \in Request \ {h} : Found(g)' = Found(g),
             \E label \in Busy : pc' = [pc EXCEPT ![h] = label],
             granted' = [granted EXCEPT ![h] = {}],
             UNCHANGED <<facts, assigned, config, answer, excused>>
      PROVE  Retrieval!Find(h)
    <2>1. [g \in Request |-> Found(g)]' = [[g \in Request |-> Found(g)] EXCEPT ![h] = @ \cup F]
        BY <1>4
    <2>2. UNCHANGED [g \in Request |-> IF pc[g] \in Busy THEN "busy" ELSE pc[g]]
        BY <1>1, <1>4
    <2>3. F \in SUBSET {f \in facts : f.pack \in granted[h]}
        BY <1>4 DEF FactsOf
    <2>. QED  BY <1>4, <2>1, <2>2, <2>3 DEF Retrieval!Find
<1>5. ASSUME Search(h) PROVE Retrieval!Find(h)
    <2>1. PICK found \in SUBSET FactsOf(h) : lexical' = [lexical EXCEPT ![h] = found]
        BY <1>5 DEF Search, Best
    <2>2. lexical[h] = {} /\ UNCHANGED seen
        BY <1>5 DEF Search, Located, LocatedAt
    <2>3. Found(h)' = Found(h) \cup found /\ \A g \in Request \ {h} : Found(g)' = Found(g)
        BY <1>1, <2>1, <2>2 DEF Found
    <2>. QED  BY <1>4, <1>5, <2>3 DEF Search, Goto
<1>6. ASSUME List(h) PROVE Retrieval!Find(h)
    <2>1. seen' = [seen EXCEPT ![h] = FactsOf(h)] /\ UNCHANGED lexical /\ seen[h] = {}
        BY <1>6 DEF List, Located, LocatedAt
    <2>2. /\ Found(h)' = Found(h) \cup FactsOf(h)
          /\ \A g \in Request \ {h} : Found(g)' = Found(g)
        BY <1>1, <2>1 DEF Found
    <2>. QED  BY <1>4, <1>6, <2>2 DEF List, Goto
<1>. QED  BY <1>2, <1>3, <1>5, <1>6

\* What the cache and the service do meanwhile is not seen.
LEMMA RefinesCaching ==
    ASSUME TypeOK, NEW h \in Request,
           Lookup(h) \/ Send(h) \/ SendQuery(h) \/ Embedded(h) \/ Store(h)
    PROVE  UNCHANGED Retrieval!vars
<1>. USE DEF locals, outcome, tables, Busy, Running, Waiting
<1>1. DOMAIN pc = Request
    BY DEF TypeOK
<1>2. UNCHANGED <<facts, assigned, config, granted, lexical, seen, answer, excused>>
    BY DEF Lookup, Send, SendQuery, Embedded, Store
<1>3. UNCHANGED pc \/ (pc[h] \in Busy /\ \E label \in Busy : pc' = [pc EXCEPT ![h] = label])
    BY DEF Lookup, Send, SendQuery, Embedded, Store, Goto
<1>4. UNCHANGED [g \in Request |-> IF pc[g] \in Busy THEN "busy" ELSE pc[g]]
    BY <1>1, <1>3
<1>5. UNCHANGED [g \in Request |-> Found(g)]
    BY <1>2 DEF Found
<1>. QED  BY <1>2, <1>4, <1>5 DEF Retrieval!vars

\* Requests that end, leave.
LEMMA RefinesLeave ==
    ASSUME TypeOK, NEW h \in Request, Ends(h),
           NEW label \in {"idle", "answered", "failed"}, Goto(h, label)
    PROVE  Retrieval!Leave(h, label)
<1>. USE DEF Busy, Running, Waiting
<1>1. /\ DOMAIN pc = Request /\ DOMAIN granted = Request /\ DOMAIN excused = Request
    BY DEF TypeOK
<1>2. Drop({h}) /\ UNCHANGED <<facts, assigned, config>> /\ pc[h] \in Busy
    BY EndsDrop DEF tables
<1>3. granted' = [granted EXCEPT ![h] = {}] /\ excused' = [excused EXCEPT ![h] = FALSE]
    BY <1>1, <1>2 DEF Drop
<1>4. [g \in Request |-> Found(g)]' = [[g \in Request |-> Found(g)] EXCEPT ![h] = {}]
    BY <1>2, Dropped DEF Found
<1>5. [g \in Request |-> IF pc[g] \in Busy THEN "busy" ELSE pc[g]]'
          = [[g \in Request |-> IF pc[g] \in Busy THEN "busy" ELSE pc[g]] EXCEPT ![h] = label]
    BY <1>1 DEF Goto
<1>. QED  BY <1>2, <1>3, <1>4, <1>5 DEF Retrieval!Leave

\* An answer by words, or by the vectors of the facts' own texts, is one that retrieval
\* may give.
LEMMA RefinesAnswer ==
    ASSUME LoreCacheAssumption, TypeOK, Configured, Truth, Small, NEW h \in Request,
           Lexical(h) \/ NoFacts(h) \/ Rank(h) \/ Unavailable(h)
    PROVE  Retrieval!Answer(h)
<1>. USE DEF Busy, Running, Waiting
<1>. DEFINE Sayable == UNION {Retrieval!Views(f) : f \in Found(h)}
<1>1. Limit \in Nat /\ lexical[h] \subseteq Fact
    BY DEF LoreCacheAssumption, TypeOK
<1>2. PICK A : /\ Return(h, A)
               /\ \/ A = lexical[h] \X {Unranked}
                  \/ A \in Best(vectors[h]) /\ pc[h] = "query"
    BY DEF Lexical, NoFacts, Rank, Unavailable, ReturnLexical
<1>3. Retrieval!Leave(h, "answered")
    BY <1>2, RefinesLeave DEF Return, Ends
<1>4. /\ A \in SUBSET Sayable
      /\ Cardinality(A) <= Limit
      /\ \A x, y \in A : x[2] = Unranked => y[2] = Unranked
    <2>1. CASE A = lexical[h] \X {Unranked}
        <3>1. A \subseteq Sayable
            BY <2>1 DEF Retrieval!Views, Found
        <3>2. IsFiniteSet(lexical[h]) /\ Cardinality(lexical[h]) \in Nat
            BY FS_CardinalityType DEF Small
        <3>3. IsFiniteSet({Unranked}) /\ Cardinality({Unranked}) = 1
            BY FS_Singleton
        <3>4. Cardinality(A) = Cardinality(lexical[h]) * Cardinality({Unranked})
            BY <2>1, <3>2, <3>3, FS_Product
        <3>5. Cardinality(A) = Cardinality(lexical[h])
            BY <3>2, <3>3, <3>4
        <3>6. Cardinality(A) <= Limit
            BY <3>5 DEF Small
        <3>. QED  BY <2>1, <3>1, <3>6
    <2>2. CASE A \in Best(vectors[h]) /\ pc[h] = "query"
        <3>1. A \subseteq vectors[h] /\ Cardinality(A) <= Limit
            BY <1>1, <2>2 DEF Best
        <3>2. config \in Setting /\ config # Off
            BY <2>2 DEF Configured, LoreCacheAssumption
        <3>3. \A v \in vectors[h] : /\ v[1] \in Found(h) /\ v[1] \in Fact
                                    /\ v = <<v[1], Embedding(config, v[1].text)>>
            <4>. SUFFICES ASSUME NEW v \in vectors[h]
                          PROVE  /\ v[1] \in Found(h) /\ v[1] \in Fact
                                 /\ v = <<v[1], Embedding(config, v[1].text)>>
                OBVIOUS
            <4>1. v \in Fact \X Vector
                BY DEF TypeOK
            <4>2. v = <<v[1], v[2]>> /\ v[1] \in Fact
                BY <4>1
            <4>3. v[1] \in Found(h) /\ v[2] = Embedding(config, v[1].text)
                BY DEF Truth, Found
            <4>. QED  BY <4>2, <4>3
        <3>4. A \subseteq Sayable
            BY <3>1, <3>2, <3>3 DEF Retrieval!Views, Retrieval!Embedding, Embedding
        <3>5. \A v \in A : v[2] # Unranked
            BY <3>1, <3>2, <3>3 DEF LoreCacheAssumption, Fact
        <3>. QED  BY <3>1, <3>4, <3>5
    <2>. QED  BY <1>2, <2>1, <2>2
<1>5. answer' = [answer EXCEPT ![h] = A]
    BY <1>2 DEF Return
<1>6. Retrieval!Cardinality(A) = Cardinality(A)
    BY DEF Cardinality, Retrieval!Cardinality
<1>7. [g \in Request |-> Found(g)][h] = Found(h)
    OBVIOUS
<1>. QED  BY <1>3, <1>4, <1>5, <1>6, <1>7 DEF Retrieval!Answer

\* Other ends are a cancellation, or a failure that is excused.
LEMMA RefinesFailure ==
    ASSUME TypeOK, Located, Excusable, NEW h \in Request
    PROVE  /\ Garbled(h) => Retrieval!Babble(h)
           /\ Raise(h) => Retrieval!Fail(h)
           /\ Cancel(h) => Retrieval!Cancel(h)
<1>. USE DEF locals, outcome, tables, Busy, Running, Waiting
<1>1. ASSUME Garbled(h) PROVE Retrieval!Babble(h)
    <2>1. DOMAIN pc = Request
        BY DEF TypeOK
    <2>. QED  BY <1>1, <2>1 DEF Garbled, Goto, Found, Retrieval!Babble
<1>2. ASSUME Raise(h) PROVE Retrieval!Fail(h)
    <2>1. Retrieval!Leave(h, "failed") /\ UNCHANGED answer
        BY <1>2, RefinesLeave DEF Raise, Ends
    <2>2. CASE pc[h] = "garbled"
        BY <2>1, <2>2 DEF Located, LocatedAt, Retrieval!Fail
    <2>3. CASE \E f \in batch[h] : ~ Storable(f)
        <3>1. PICK f \in batch[h] : f \notin facts
            BY <2>3 DEF Storable
        <3>2. f \in Found(h)
            BY <3>1 DEF Located, LocatedAt, Found
        <3>. QED  BY <2>1, <3>1, <3>2 DEF Excusable, Retrieval!Fail
    <2>. QED  BY <1>2, <2>2, <2>3 DEF Raise
<1>3. ASSUME Cancel(h) PROVE Retrieval!Cancel(h)
    BY <1>3, RefinesLeave DEF Cancel, Ends, Retrieval!Cancel
<1>. QED  BY <1>1, <1>2, <1>3

\* The parts of the invariant.
Unnoticed == TypeOK /\ Configured /\ Located /\ Truth /\ Small /\ Excusable

\* They hold at first, and every step keeps them.
LEMMA UnnoticedHolds ==
    ASSUME LoreCacheAssumption
    PROVE  /\ Init => Unnoticed
           /\ Unnoticed /\ [Next]_vars => Unnoticed'
<1>1. Init => Unnoticed
    BY TypeInit, PartsInit DEF Unnoticed
<1>2. Unnoticed /\ [Next]_vars => Unnoticed'
    <2>. SUFFICES ASSUME Unnoticed, [Next]_vars PROVE Unnoticed'
        OBVIOUS
    <2>. USE DEF Unnoticed
    <2>1. TypeOK'
        BY TablesStep, LocalsStep DEF TypeOK, Tables, LocalsType
    <2>2. Configured' /\ Located' /\ Truth'
        BY ConfiguredStep, LocatedStep, TruthStep
    <2>3. Small' /\ Excusable'
        BY SmallStep, ExcusableStep
    <2>. QED  BY <2>1, <2>2, <2>3
<1>. QED  BY <1>1, <1>2

\* Every step of the cache's program is one of retrieval's, or none.
LEMMA RefinesStep ==
    ASSUME LoreCacheAssumption, Unnoticed, [Next]_vars
    PROVE  [Retrieval!Next]_(Retrieval!vars)
<1>. USE DEF Unnoticed
<1>1. CASE Administer \/ Restart
    BY <1>1, RefinesManage, RefinesRestart DEF Retrieval!Next
<1>2. ASSUME NEW h \in Request, Start(h) \/ Search(h) \/ ListAgain(h) \/ List(h)
      PROVE  Retrieval!Next
    BY <1>2, RefinesLooking DEF Retrieval!Next
<1>3. ASSUME NEW h \in Request,
             Lookup(h) \/ Send(h) \/ SendQuery(h) \/ Embedded(h) \/ Store(h)
      PROVE  UNCHANGED Retrieval!vars
    BY <1>3, RefinesCaching
<1>4. ASSUME NEW h \in Request, Lexical(h) \/ NoFacts(h) \/ Rank(h) \/ Unavailable(h)
      PROVE  Retrieval!Next
    BY <1>4, RefinesAnswer DEF Retrieval!Next
<1>5. ASSUME NEW h \in Request, Garbled(h) \/ Raise(h) \/ Cancel(h)
      PROVE  Retrieval!Next
    BY <1>5, RefinesFailure DEF Retrieval!Next
<1>6. CASE UNCHANGED vars
    BY <1>6 DEF vars, tables, locals, outcome, Retrieval!vars, Found
<1>. QED  BY <1>1, <1>2, <1>3, <1>4, <1>5, <1>6 DEF Next, Step

\* Retrieval with the cache is retrieval without one: whatever is deleted, replaced or
\* reconfigured while requests await the service, every answer holds facts of packs found
\* assigned, with vectors of their own texts under the settings of the process, and a
\* request fails only with an excuse.
THEOREM CacheCannotBeNoticed == Spec => CacheTransparent
<1>. USE LoreCacheAssumption
<1>1. Init => Unnoticed /\ Retrieval!Init
    BY UnnoticedHolds, RefinesInit
<1>2. Unnoticed /\ [Next]_vars => Unnoticed'
    BY UnnoticedHolds
<1>3. Unnoticed /\ [Next]_vars => [Retrieval!Next]_(Retrieval!vars)
    BY RefinesStep
<1>. QED  BY <1>1, <1>2, <1>3, PTL DEF Spec, CacheTransparent, Retrieval!Spec


-----------------------------------------------------------------------------
(* No request goes on for ever *)

\* How far a request is from its end when it is at a label, up to the lookups.
Stage(label) ==
    CASE label = "facts" -> 4
      [] label = "lexical" -> 3
      [] label = "again" -> 2
      [] label \in {"lookup", "embedding", "storing", "query", "garbled"} -> 1
      [] OTHER -> 0

\* How far it is from the next lookup, or from giving up.
Awaited(label) ==
    CASE label \in {"lookup", "embedding"} -> 3
      [] label \in {"storing", "query"} -> 2
      [] OTHER -> 1

\* What is left to do for its facts: each is looked up, sent and stored at most once.
Left(h) ==
    4 * Cardinality(Unlooked(h)) + 3 * Cardinality(missing[h]) +
    2 * Cardinality(batch[h]) + Awaited(pc[h])

Nearer(h) ==
    \/ Stage(pc'[h]) < Stage(pc[h])
    \/ Stage(pc'[h]) = Stage(pc[h]) /\ Left(h)' < Left(h)

\* The facts of a request are finitely many, and a chunk is done with before the next
\* one is chosen.
Counted == \A h \in Request :
    IsFiniteSet(seen[h]) /\ (pc[h] = "lookup" => batch[h] = {})

\* Left is a number, so it cannot fall for ever.
Finite == \A h \in Request : Left(h) \in Nat

\* Each step of a busy request brings it nearer to its end, and nothing that others do
\* meanwhile takes it further away.
EachStepCounts == [][\A h \in Request : pc[h] \in Busy =>
    /\ Step(h) => Nearer(h)
    /\ Nearer(h) \/ (Stage(pc'[h]) = Stage(pc[h]) /\ Left(h)' = Left(h))]_vars

LEMMA Stages == \A label :
    /\ label = "facts" => Stage(label) = 4
    /\ label = "lexical" => Stage(label) = 3
    /\ label = "again" => Stage(label) = 2
    /\ label \in {"lookup", "embedding", "storing", "query", "garbled"} => Stage(label) = 1
    /\ label \in {"idle", "answered", "failed"} => Stage(label) = 0
BY DEF Stage

LEMMA Awaits == \A label :
    /\ label \in {"lookup", "embedding"} => Awaited(label) = 3
    /\ label \in {"storing", "query"} => Awaited(label) = 2
    /\ label = "garbled" => Awaited(label) = 1
    /\ Awaited(label) \in 1..3
BY DEF Awaited

LEMMA CountedInit == Init => Counted
BY FS_EmptySet DEF Init, Counted

\* A request's steps leave the others as far as they are.
LEMMA OthersStay ==
    ASSUME TypeOK, NEW h \in Request, Start(h) \/ Step(h) \/ Cancel(h),
           NEW g \in Request \ {h}
    PROVE  /\ pc'[g] = pc[g] /\ seen'[g] = seen[g] /\ missing'[g] = missing[g]
           /\ batch'[g] = batch[g] /\ vectors'[g] = vectors[g]
<1>. USE DEF Goto, locals
<1>1. /\ DOMAIN pc = Request /\ DOMAIN seen = Request /\ DOMAIN missing = Request
      /\ DOMAIN batch = Request /\ DOMAIN vectors = Request
    BY DEF TypeOK
<1>2. CASE Start(h) \/ Search(h) \/ ListAgain(h) \/ List(h)
    BY <1>1, <1>2 DEF Start, Search, ListAgain, List
<1>3. CASE Lookup(h)
    BY <1>1, <1>3 DEF Lookup
<1>4. CASE Send(h) \/ SendQuery(h) \/ Embedded(h) \/ Garbled(h)
    BY <1>1, <1>4 DEF Send, SendQuery, Embedded, Garbled
<1>5. CASE Store(h)
    BY <1>1, <1>5 DEF Store
<1>6. CASE Ends(h)
    <2>1. Drop({h}) /\ \E label \in {"idle", "answered", "failed"} : Goto(h, label)
        BY <1>6, EndsDrop
    <2>2. pc'[g] = pc[g]
        BY <1>1, <2>1
    <2>3. /\ seen'[g] = seen[g] /\ missing'[g] = missing[g]
          /\ batch'[g] = batch[g] /\ vectors'[g] = vectors[g]
        BY <2>1, Dropped
    <2>. QED  BY <2>2, <2>3
<1>. QED  BY <1>2, <1>3, <1>4, <1>5, <1>6 DEF Step, Ends

\* A request is given finitely many facts, and looks for vectors between chunks.
LEMMA CountedStep ==
    ASSUME Unnoticed, Counted, [Next]_vars
    PROVE  Counted'
<1>. USE DEF Busy, Running, Waiting
<1>1. TypeOK /\ Located /\ IsFiniteSet(facts)
    BY DEF Unnoticed, Small
<1>2. DOMAIN pc = Request /\ DOMAIN seen = Request /\ DOMAIN batch = Request
    BY <1>1 DEF TypeOK
<1>. SUFFICES ASSUME NEW g \in Request
              PROVE  IsFiniteSet(seen'[g]) /\ (pc'[g] = "lookup" => batch'[g] = {})
    BY DEF Counted
<1>3. IsFiniteSet(seen[g]) /\ (pc[g] = "lookup" => batch[g] = {})
    BY DEF Counted
<1>4. CASE Administer \/ UNCHANGED vars
    BY <1>3, <1>4 DEF Administer, Import, DeletePack, Assign, Replace, vars, locals
<1>5. CASE Restart
    BY <1>5, FS_EmptySet DEF Restart, Drop
<1>6. ASSUME NEW h \in Request \ {g}, Start(h) \/ Step(h) \/ Cancel(h)
      PROVE  IsFiniteSet(seen'[g]) /\ (pc'[g] = "lookup" => batch'[g] = {})
    BY <1>1, <1>3, <1>6, OthersStay
<1>7. CASE Start(g) \/ Search(g) \/ ListAgain(g)
    BY <1>2, <1>3, <1>7 DEF Start, Search, ListAgain, Goto, locals
<1>8. CASE List(g)
    <2>1. seen'[g] = FactsOf(g) /\ batch'[g] = batch[g] /\ pc[g] = "again"
        BY <1>2, <1>8 DEF List
    <2>2. IsFiniteSet(FactsOf(g))
        <3>1. FactsOf(g) \in SUBSET facts
            BY DEF FactsOf
        <3>. QED  BY <1>1, <3>1, FS_Subset
    <2>3. batch[g] = {}
        BY <1>1, <2>1 DEF Located, LocatedAt
    <2>. QED  BY <2>1, <2>2, <2>3
<1>9. CASE Lookup(g) \/ Send(g) \/ SendQuery(g) \/ Embedded(g) \/ Garbled(g)
    BY <1>2, <1>3, <1>9 DEF Lookup, Send, SendQuery, Embedded, Garbled, Goto, locals
<1>10. CASE Store(g)
    <2>1. PICK f \in batch[g] :
              /\ batch' = [batch EXCEPT ![g] = @ \ {f}]
              /\ pc' = [pc EXCEPT ![g] = IF batch[g] = {f} THEN "lookup" ELSE "storing"]
        BY <1>10 DEF Store, Goto
    <2>2. batch'[g] = batch[g] \ {f} /\ (pc'[g] = "lookup" => batch[g] = {f})
        BY <1>2, <2>1
    <2>3. seen' = seen
        BY <1>10 DEF Store
    <2>. QED  BY <1>3, <2>2, <2>3
<1>11. CASE Ends(g)
    <2>1. Drop({g})
        BY <1>11, EndsDrop
    <2>2. seen'[g] = {} /\ batch'[g] = {}
        BY <2>1, Dropped
    <2>. QED  BY <2>2, FS_EmptySet
<1>. QED
    BY <1>4, <1>5, <1>6, <1>7, <1>8, <1>9, <1>10, <1>11 DEF Next, Step, Ends

\* What is counted is finite, and Left is a number.
LEMMA LeftIsNat ==
    ASSUME Located, Counted, NEW h \in Request
    PROVE  /\ IsFiniteSet(Unlooked(h)) /\ IsFiniteSet(missing[h]) /\ IsFiniteSet(batch[h])
           /\ Cardinality(Unlooked(h)) \in Nat /\ Cardinality(missing[h]) \in Nat
           /\ Cardinality(batch[h]) \in Nat
           /\ Left(h) \in Nat
<1>1. /\ IsFiniteSet(seen[h]) /\ Unlooked(h) \in SUBSET seen[h]
      /\ missing[h] \in SUBSET seen[h] /\ batch[h] \in SUBSET seen[h]
    BY DEF Counted, Located, LocatedAt, Unlooked
<1>2. IsFiniteSet(Unlooked(h)) /\ IsFiniteSet(missing[h]) /\ IsFiniteSet(batch[h])
    BY <1>1, FS_Subset
<1>3. /\ Cardinality(Unlooked(h)) \in Nat /\ Cardinality(missing[h]) \in Nat
      /\ Cardinality(batch[h]) \in Nat
    BY <1>2, FS_CardinalityType
<1>. QED  BY <1>2, <1>3, Awaits DEF Left

\* A step before the lookups is a stage; a step among them looks up, sends or stores
\* something, or ends the wait for it.
LEMMA StepNearer ==
    ASSUME LoreCacheAssumption, Unnoticed, Counted, NEW h \in Request, Step(h) \/ Cancel(h)
    PROVE  Nearer(h)
<1>1. TypeOK /\ Located
    BY DEF Unnoticed
<1>2. /\ DOMAIN pc = Request /\ DOMAIN missing = Request /\ DOMAIN batch = Request
      /\ DOMAIN vectors = Request
    BY <1>1 DEF TypeOK
<1>3. /\ IsFiniteSet(Unlooked(h)) /\ IsFiniteSet(missing[h]) /\ IsFiniteSet(batch[h])
      /\ Cardinality(Unlooked(h)) \in Nat /\ Cardinality(missing[h]) \in Nat
      /\ Cardinality(batch[h]) \in Nat
    BY <1>1, LeftIsNat
<1>4. CASE Search(h) \/ ListAgain(h) \/ List(h)
    <2>1. \/ pc[h] = "facts" /\ pc'[h] = "lexical"
          \/ pc[h] = "lexical" /\ pc'[h] = "again"
          \/ pc[h] = "again" /\ pc'[h] = "lookup"
        BY <1>2, <1>4 DEF Search, ListAgain, List, Goto
    <2>. QED  BY <2>1, Stages DEF Nearer
<1>5. CASE Lookup(h)
    <2>1. /\ pc[h] = "lookup" /\ pc'[h] = "lookup"
          /\ seen'[h] = seen[h] /\ batch'[h] = batch[h]
        BY <1>5 DEF Lookup
    <2>2. PICK f \in Unlooked(h) :
              \/ missing' = [missing EXCEPT ![h] = @ \cup {f}] /\ UNCHANGED vectors
              \/ /\ \E r \in Cached(f) :
                        vectors' = [vectors EXCEPT ![h] = @ \cup {<<f, r.vector>>}]
                 /\ UNCHANGED missing
        BY <1>5 DEF Lookup
    <2>3. Cardinality(Unlooked(h) \ {f}) = Cardinality(Unlooked(h)) - 1
        BY <1>3, FS_RemoveElement
    <2>4. CASE missing' = [missing EXCEPT ![h] = @ \cup {f}] /\ UNCHANGED vectors
        <3>1. missing'[h] = missing[h] \cup {f} /\ vectors'[h] = vectors[h]
            BY <1>2, <2>4
        <3>2. Unlooked(h)' = Unlooked(h) \ {f}
            BY <2>1, <3>1 DEF Unlooked
        <3>3. Cardinality(missing'[h]) = Cardinality(missing[h]) + 1
            BY <1>3, <2>2, <3>1, FS_AddElement DEF Unlooked
        <3>4. Left(h)' = Left(h) - 1
            BY <1>3, <2>1, <2>3, <3>2, <3>3, Awaits DEF Left
        <3>. QED  BY <2>1, <3>4, <1>1, LeftIsNat DEF Nearer
    <2>5. CASE /\ \E r \in Cached(f) :
                      vectors' = [vectors EXCEPT ![h] = @ \cup {<<f, r.vector>>}]
               /\ UNCHANGED missing
        <3>1. PICK vector : vectors'[h] = vectors[h] \cup {<<f, vector>>}
            BY <1>2, <2>5
        <3>2. {v[1] : v \in vectors'[h]} = {v[1] : v \in vectors[h]} \cup {f}
            <4>1. <<f, vector>>[1] = f
                OBVIOUS
            <4>. QED  BY <3>1, <4>1, Zenon
        <3>3. Unlooked(h)' = Unlooked(h) \ {f}
            BY <2>1, <2>5, <3>2 DEF Unlooked
        <3>4. Left(h)' = Left(h) - 4
            BY <1>3, <2>1, <2>3, <2>5, <3>3, Awaits DEF Left
        <3>. QED  BY <2>1, <3>4, <1>1, LeftIsNat DEF Nearer
    <2>. QED  BY <2>2, <2>4, <2>5
<1>6. CASE Send(h)
    <2>1. PICK B \in SUBSET missing[h] :
              /\ Cardinality(B) = IF Cardinality(missing[h]) < Chunk
                                  THEN Cardinality(missing[h]) ELSE Chunk
              /\ batch' = [batch EXCEPT ![h] = B]
              /\ missing' = [missing EXCEPT ![h] = @ \ B]
        BY <1>6 DEF Send
    <2>2. /\ pc[h] = "lookup" /\ pc'[h] = "embedding" /\ missing[h] # {}
          /\ seen'[h] = seen[h] /\ vectors'[h] = vectors[h]
        BY <1>2, <1>6 DEF Send, Goto
    <2>3. batch[h] = {} /\ batch'[h] = B /\ missing'[h] = missing[h] \ B
        BY <1>2, <2>1, <2>2 DEF Counted
    <2>4. Cardinality(batch[h]) = 0 /\ Cardinality(missing[h]) # 0
        BY <1>3, <2>2, <2>3, FS_EmptySet
    <2>5. Cardinality(B) \in Nat /\ Cardinality(B) > 0
        BY <1>3, <2>1, <2>4 DEF LoreCacheAssumption
    <2>6. Cardinality(missing'[h]) = Cardinality(missing[h]) - Cardinality(B)
        <3>1. missing[h] \cap B = B
            OBVIOUS
        <3>. QED  BY <1>3, <2>3, <3>1, FS_Difference
    <2>7. Unlooked(h)' = Unlooked(h)
        BY <2>2, <2>3 DEF Unlooked
    <2>8. /\ Stage(pc'[h]) = Stage(pc[h]) /\ Awaited(pc'[h]) = Awaited(pc[h])
          /\ Awaited(pc[h]) \in Nat
        BY <2>2, Stages, Awaits
    <2>9. /\ Left(h)' = 4 * Cardinality(Unlooked(h))
                        + 3 * (Cardinality(missing[h]) - Cardinality(B))
                        + 2 * Cardinality(B) + Awaited(pc[h])
          /\ Left(h) = 4 * Cardinality(Unlooked(h)) + 3 * Cardinality(missing[h])
                        + Awaited(pc[h])
        BY <1>3, <2>3, <2>4, <2>6, <2>7, <2>8 DEF Left
    <2>10. Left(h)' < Left(h)
        <3>. DEFINE u == Cardinality(Unlooked(h))  m == Cardinality(missing[h])
                    n == Cardinality(B)  wait == Awaited(pc[h])
        <3>1. u \in Nat /\ m \in Nat /\ n \in Nat /\ n > 0 /\ wait \in Nat
            BY <1>3, <2>5, <2>8
        <3>2. /\ Left(h)' = 4 * u + 3 * (m - n) + 2 * n + wait
              /\ Left(h) = 4 * u + 3 * m + wait
            BY <2>9
        <3>. HIDE DEF u, m, n, wait
        <3>. QED  BY <3>1, <3>2
    <2>. QED  BY <2>8, <2>10 DEF Nearer
<1>7. CASE SendQuery(h) \/ Embedded(h) \/ Garbled(h)
    <2>1. \/ pc[h] = "lookup" /\ pc'[h] = "query"
          \/ pc[h] = "embedding" /\ pc'[h] = "storing"
          \/ pc[h] \in {"embedding", "query"} /\ pc'[h] = "garbled"
        BY <1>2, <1>7 DEF SendQuery, Embedded, Garbled, Goto, Waiting
    <2>4. /\ Stage(pc[h]) = 1 /\ Stage(pc'[h]) = 1
          /\ Awaited(pc'[h]) < Awaited(pc[h])
        BY <2>1, Stages, Awaits
    <2>5. Awaited(pc[h]) \in Nat /\ Awaited(pc'[h]) \in Nat
        BY Awaits
    <2>2. UNCHANGED <<seen, missing, batch, vectors>>
        BY <1>7 DEF SendQuery, Embedded, Garbled, locals
    <2>3. Unlooked(h)' = Unlooked(h)
        BY <2>2 DEF Unlooked
    <2>. QED  BY <1>3, <2>2, <2>3, <2>4, <2>5 DEF Nearer, Left
<1>8. CASE Store(h)
    <2>1. PICK f \in batch[h] :
              /\ vectors' = [vectors EXCEPT ![h] = @ \cup {<<f, Embedding(config, f.text)>>}]
              /\ batch' = [batch EXCEPT ![h] = @ \ {f}]
              /\ Goto(h, IF batch[h] = {f} THEN "lookup" ELSE "storing")
        BY <1>8 DEF Store
    <2>2. /\ pc[h] = "storing" /\ pc'[h] \in {"lookup", "storing"}
          /\ seen'[h] = seen[h] /\ missing'[h] = missing[h]
        BY <1>2, <1>8, <2>1 DEF Store, Goto
    <2>3. batch'[h] = batch[h] \ {f}
        BY <1>2, <2>1
    <2>4. Cardinality(batch'[h]) = Cardinality(batch[h]) - 1
        <3>1. Cardinality(batch[h] \ {f}) = Cardinality(batch[h]) - 1
            BY <1>3, FS_RemoveElement
        <3>. QED  BY <2>3, <3>1
    <2>5. {v[1] : v \in vectors'[h]} = {v[1] : v \in vectors[h]} \cup {f}
        <3>1. vectors'[h] = vectors[h] \cup {<<f, Embedding(config, f.text)>>}
            BY <1>2, <2>1
        <3>2. <<f, Embedding(config, f.text)>>[1] = f
            OBVIOUS
        <3>. QED  BY <3>1, <3>2, Zenon
    <2>6. Unlooked(h)' = Unlooked(h)
        BY <2>2, <2>3, <2>5 DEF Unlooked
    <2>7. /\ Stage(pc'[h]) = Stage(pc[h]) /\ Awaited(pc'[h]) <= Awaited(pc[h]) + 1
          /\ Awaited(pc[h]) \in Nat /\ Awaited(pc'[h]) \in Nat
        BY <2>2, Stages, Awaits
    <2>8. Left(h)' = 4 * Cardinality(Unlooked(h)) + 3 * Cardinality(missing[h])
                     + 2 * (Cardinality(batch[h]) - 1) + Awaited(pc'[h])
        BY <2>2, <2>4, <2>6 DEF Left
    <2>9. Left(h) = 4 * Cardinality(Unlooked(h)) + 3 * Cardinality(missing[h])
                    + 2 * Cardinality(batch[h]) + Awaited(pc[h])
        BY DEF Left
    <2>10. Left(h)' < Left(h)
        <3>. DEFINE u == Cardinality(Unlooked(h))  m == Cardinality(missing[h])
                    b == Cardinality(batch[h])
                    old == Awaited(pc[h])  new == Awaited(pc'[h])
        <3>1. u \in Nat /\ m \in Nat /\ b \in Nat /\ old \in Nat /\ new \in Nat
              /\ new <= old + 1
            BY <1>3, <2>7
        <3>2. Left(h)' = 4 * u + 3 * m + 2 * (b - 1) + new
            BY <2>8
        <3>3. Left(h) = 4 * u + 3 * m + 2 * b + old
            BY <2>9
        <3>. HIDE DEF u, m, b, old, new
        <3>. QED  BY <3>1, <3>2, <3>3
    <2>. QED  BY <2>7, <2>10 DEF Nearer
<1>9. CASE Ends(h)
    <2>1. pc[h] \in Busy /\ \E label \in {"idle", "answered", "failed"} : Goto(h, label)
        BY <1>9, EndsDrop
    <2>2. pc'[h] \in {"idle", "answered", "failed"}
        BY <1>2, <2>1 DEF Goto
    <2>. QED  BY <2>1, <2>2, Stages DEF Nearer, Busy, Running, Waiting
<1>. QED  BY <1>4, <1>5, <1>6, <1>7, <1>8, <1>9 DEF Step, Ends

\* What others do takes no request further away: the administrator, whose deletions and
\* imports only its next reads see, a restart, and the other requests.
LEMMA NoneSetBack ==
    ASSUME LoreCacheAssumption, Unnoticed, Counted, [Next]_vars, NEW h \in Request,
           pc[h] \in Busy
    PROVE  Nearer(h) \/ (Stage(pc'[h]) = Stage(pc[h]) /\ Left(h)' = Left(h))
<1>1. TypeOK
    BY DEF Unnoticed
<1>2. ASSUME pc'[h] = pc[h], seen'[h] = seen[h], missing'[h] = missing[h],
             batch'[h] = batch[h], vectors'[h] = vectors[h]
      PROVE  Stage(pc'[h]) = Stage(pc[h]) /\ Left(h)' = Left(h)
    <2>1. Unlooked(h)' = Unlooked(h)
        BY <1>2 DEF Unlooked
    <2>. QED  BY <1>2, <2>1 DEF Left
<1>3. CASE Administer \/ UNCHANGED vars
    BY <1>2, <1>3 DEF Administer, Import, DeletePack, Assign, Replace, vars, locals
<1>4. CASE Restart
    <2>1. pc'[h] = "idle"
        BY <1>4 DEF Restart
    <2>. QED  BY <2>1, Stages DEF Nearer, Busy, Running, Waiting
<1>5. ASSUME NEW g \in Request \ {h}, Start(g) \/ Step(g) \/ Cancel(g)
      PROVE  Stage(pc'[h]) = Stage(pc[h]) /\ Left(h)' = Left(h)
    BY <1>1, <1>2, <1>5, OthersStay
<1>6. CASE Step(h) \/ Cancel(h)
    BY <1>6, StepNearer
<1>7. ~ Start(h)
    BY DEF Start
<1>. QED  BY <1>3, <1>4, <1>5, <1>6, <1>7 DEF Next

\* A retrieval takes finitely many steps of its own, whatever is imported, deleted or
\* replaced meanwhile, whichever vectors others store, and however the service fails:
\* each of them lowers Stage, or Left with the same Stage, both natural numbers, and
\* nothing raises either. There is no loop over chunks that does not make progress
\* (_semantic_lore).
THEOREM RetrievalProgresses ==
    Spec => /\ []Finite
            /\ EachStepCounts
<1>. USE LoreCacheAssumption
<1>1. Init => Unnoticed /\ Counted
    BY UnnoticedHolds, CountedInit
<1>2. Unnoticed /\ Counted /\ [Next]_vars => Unnoticed' /\ Counted'
    BY UnnoticedHolds, CountedStep
<1>3. Unnoticed /\ Counted => Finite
    BY LeftIsNat DEF Unnoticed, Finite
<1>4. Unnoticed /\ Counted /\ [Next]_vars =>
          [\A h \in Request : pc[h] \in Busy =>
              /\ Step(h) => Nearer(h)
              /\ Nearer(h) \/ (Stage(pc'[h]) = Stage(pc[h]) /\ Left(h)' = Left(h))]_vars
    BY StepNearer, NoneSetBack
<1>. QED  BY <1>1, <1>2, <1>3, <1>4, PTL DEF Spec, EachStepCounts

=============================================================================
