-------------------------- MODULE Maintenance_proofs --------------------------
(***************************************************************************)
(* What is proved of Maintenance for every set of requests, every settings *)
(* section and patches of it, and every number of seeds.                   *)
(***************************************************************************)
EXTENDS Maintenance, TLAPS

-----------------------------------------------------------------------------
(* Sections and databases *)

\* The values that the keys of K may have in a section.
Values(K) == UNION {{Default[k]} \cup {Patch[p][k] : p \in {q \in Patcher :
                 k \in DOMAIN Patch[q]}} : k \in K}

\* A section is a function on some of the keys.
LEMMA SectionIs ==
    ASSUME NEW f
    PROVE  f \in Section <=> \E K \in SUBSET Key : f \in [K -> Values(K)]
BY DEF Section, Values

\* The defaults and the absence of a section are sections, and only the latter
\* has no key.
LEMMA SectionsThere ==
    /\ Default \in Section /\ Missing \in Section
    /\ \A f \in Section : DOMAIN f = {} => f = Missing
<1>1. Default \in [Key -> Values(Key)]
    <2>1. \A k \in Key : Default[k] \in Values(Key)
        BY DEF Values
    <2>. QED  BY <2>1, MaintenanceAssumption DEF MaintenanceAssumption, Key
<1>2. Missing \in [{} -> Values({})]
    BY DEF Missing
<1>3. \A f \in Section : DOMAIN f = {} => f = Missing
    <2>. SUFFICES ASSUME NEW f \in Section, DOMAIN f = {} PROVE f = Missing
        OBVIOUS
    <2>1. PICK K \in SUBSET Key : f \in [K -> Values(K)]
        BY SectionIs
    <2>. QED  BY <2>1 DEF Missing
<1>. QED  BY <1>1, <1>2, <1>3, SectionIs

\* The section a patch is merged into stays a section.
LEMMA MergeType ==
    ASSUME NEW old \in Section, NEW p \in Patcher
    PROVE  /\ Merge(old, Patch[p]) \in Section
           /\ old # Missing => Merge(old, Patch[p]) # Missing
<1>1. PICK K \in SUBSET Key : old \in [K -> Values(K)]
    BY SectionIs
<1>. DEFINE L == DOMAIN Patch[p]
            new == Merge(old, Patch[p])
<1>2. L \subseteq Key
    BY MaintenanceAssumption DEF MaintenanceAssumption, Key
<1>3. new = [k \in K \cup L |-> IF k \in L THEN Patch[p][k] ELSE old[k]]
    BY <1>1 DEF Merge
<1>4. Values(K) \subseteq Values(K \cup L)
    BY DEF Values
<1>5. \A k \in L : Patch[p][k] \in Values(K \cup L)
    BY DEF Values
<1>6. new \in [K \cup L -> Values(K \cup L)]
    BY <1>1, <1>3, <1>4, <1>5
<1>7. new \in Section
    BY <1>1, <1>2, <1>6, SectionIs
<1>8. ASSUME old # Missing PROVE new # Missing
    <2>1. K # {}
        BY <1>1, <1>8, SectionsThere
    <2>. QED  BY <1>3, <2>1 DEF Missing
<1>. QED  BY <1>7, <1>8

\* When a table is empty, there are ids left to seed it.
RoomForSeeds(d) == d.people = {} => d.last + Seeds <= MaxId

\* What is true of a database whatever happens to it.
Sound(d) ==
    /\ d \in Data
    /\ d.avatars \subseteq d.people /\ d.people \subseteq 1..d.last
    /\ RoomForSeeds(d)

\* The fields of a database.
LEMMA DataFields ==
    ASSUME NEW d \in Data
    PROVE  /\ d.section \in Section /\ d.people \in SUBSET (1..MaxId)
           /\ d.avatars \in SUBSET (1..MaxId) /\ d.last \in 0..MaxId /\ d.cut \in BOOLEAN
           /\ d.last \in Nat /\ d.seeded \in 0..Seeds /\ d.seeded \in Nat
BY MaintenanceAssumption DEF Data, MaintenanceAssumption

\* The absence of a database.
LEMMA BlankIs ==
    /\ Sound(Blank)
    /\ Blank.section = Missing /\ Blank.people = {} /\ Blank.avatars = {}
    /\ Blank.last = 0 /\ Blank.seeded = 0 /\ Blank.cut = FALSE
BY SectionsThere, MaintenanceAssumption
   DEF Sound, Blank, Data, RoomForSeeds, MaintenanceAssumption

\* Nothing can be written where there is no content.
LEMMA BlankStays ==
    /\ \A i : [Blank EXCEPT !.avatars = @ \cup ({i} \cap Blank.people)] = Blank
    /\ \A b \in BOOLEAN : ~ b => [Blank EXCEPT !.cut = @ \/ b] = Blank
<1>1. ASSUME NEW i PROVE [Blank EXCEPT !.avatars = @ \cup ({i} \cap Blank.people)] = Blank
    <2>1. Blank.avatars \cup ({i} \cap Blank.people) = Blank.avatars
        BY DEF Blank
    <2>. QED  BY <2>1 DEF Blank
<1>2. ASSUME NEW b \in BOOLEAN, ~ b PROVE [Blank EXCEPT !.cut = @ \/ b] = Blank
    <2>1. (Blank.cut \/ b) = Blank.cut
        BY <1>2 DEF Blank
    <2>. QED  BY <2>1 DEF Blank
<1>. QED  BY <1>1, <1>2

\* initialize fills the section and changes nothing else.
LEMMA DefaultsIs ==
    ASSUME NEW d, Sound(d)
    PROVE  LET e == WithDefaults(d) IN
           /\ Sound(e)
           /\ e.section = IF d.section = Missing THEN Default ELSE d.section
           /\ e.people = d.people /\ e.avatars = d.avatars /\ e.last = d.last
           /\ e.seeded = d.seeded /\ e.cut = d.cut
BY SectionsThere DEF Sound, WithDefaults, Data, RoomForSeeds

\* create_character gives the next id.
LEMMA CharacterIs ==
    ASSUME NEW d, Sound(d), d.last < MaxId
    PROVE  LET e == WithCharacter(d) IN
           /\ Sound(e)
           /\ e.section = d.section /\ e.people = d.people \cup {d.last + 1}
           /\ e.avatars = d.avatars /\ e.last = d.last + 1
           /\ e.seeded = d.seeded /\ e.cut = d.cut
<1>. DEFINE e == WithCharacter(d)
<1>1. d.last \in Nat /\ d.last + 1 \in 1..MaxId /\ MaxId \in Nat
    BY DataFields, MaintenanceAssumption DEF Sound, MaintenanceAssumption
<1>2. /\ e.section = d.section /\ e.people = d.people \cup {d.last + 1}
      /\ e.avatars = d.avatars /\ e.last = d.last + 1
      /\ e.seeded = d.seeded /\ e.cut = d.cut
    BY DEF Sound, WithCharacter, Data
<1>3. e \in Data
    <2>1. d.people \cup {d.last + 1} \in SUBSET (1..MaxId) /\ d.last + 1 \in 0..MaxId
        BY <1>1, DataFields DEF Sound
    <2>. QED  BY <2>1 DEF Sound, WithCharacter, Data
<1>4. e.people \subseteq 1..e.last
    BY <1>1, <1>2 DEF Sound
<1>. QED  BY <1>2, <1>3, <1>4 DEF Sound, RoomForSeeds

\* A copy, or what a crash leaves, may be cut off.
LEMMA CutIs ==
    ASSUME NEW d, Sound(d), NEW b \in BOOLEAN
    PROVE  LET e == [d EXCEPT !.cut = @ \/ b] IN
           /\ Sound(e)
           /\ e.section = d.section /\ e.people = d.people /\ e.avatars = d.avatars
           /\ e.last = d.last /\ e.seeded = d.seeded /\ (e.cut <=> d.cut \/ b)
BY DEF Sound, Data, RoomForSeeds

\* Where seeding begins.
LEMMA CountedIs ==
    ASSUME NEW d, Sound(d)
    PROVE  LET e == Counted(d) IN
           /\ Sound(e)
           /\ e.section = d.section /\ e.people = d.people /\ e.avatars = d.avatars
           /\ e.last = d.last
           /\ e.seeded = (IF d.people = {} THEN 0 ELSE d.seeded)
           /\ e.cut = (IF d.people = {} THEN FALSE ELSE d.cut)
<1>. DEFINE e == [d EXCEPT !.seeded = 0, !.cut = FALSE]
<1>1. CASE d.people = {}
    <2>1. 0 \in 0..Seeds
        BY MaintenanceAssumption DEF MaintenanceAssumption
    <2>2. /\ Sound(e)
          /\ e.section = d.section /\ e.people = d.people /\ e.avatars = d.avatars
          /\ e.last = d.last /\ e.seeded = 0 /\ e.cut = FALSE
        BY <2>1 DEF Sound, Data, RoomForSeeds
    <2>3. Counted(d) = e
        BY <1>1 DEF Counted
    <2>. HIDE DEF e
    <2>. QED  BY <1>1, <2>2, <2>3
<1>2. CASE d.people # {}
    BY <1>2 DEF Counted
<1>. QED  BY <1>1, <1>2

\* A seed is a character, and counted.
LEMMA SeedIs ==
    ASSUME NEW d, Sound(d), d.last < MaxId, d.seeded < Seeds
    PROVE  LET e == WithSeed(d) IN
           /\ Sound(e)
           /\ e.section = d.section /\ e.avatars = d.avatars /\ e.last = d.last + 1
           /\ e.seeded = d.seeded + 1
<1>. DEFINE c == WithCharacter(d)
            e == [c EXCEPT !.seeded = @ + 1, !.cut = @ /\ unseeded > 1]
<1>1. /\ Sound(c) /\ c.section = d.section /\ c.avatars = d.avatars
      /\ c.last = d.last + 1 /\ c.seeded = d.seeded
    BY CharacterIs
<1>2. d.seeded + 1 \in 0..Seeds
    BY DataFields, MaintenanceAssumption DEF Sound, MaintenanceAssumption
<1>3. WithSeed(d) = e
    BY DEF WithSeed
<1>. HIDE DEF c
<1>4. /\ Sound(e) /\ e.section = c.section /\ e.avatars = c.avatars
      /\ e.last = c.last /\ e.seeded = c.seeded + 1
    BY <1>1, <1>2 DEF Sound, Data, RoomForSeeds
<1>. HIDE DEF e
<1>. QED  BY <1>1, <1>3, <1>4

\* Seeding that has begun and does not end.
LEMMA InterruptedIs ==
    ASSUME NEW d, Sound(d)
    PROVE  LET e == Interrupted(d) IN
           /\ Sound(e)
           /\ e.section = d.section /\ e.people = d.people /\ e.avatars = d.avatars
           /\ e.last = d.last /\ e.seeded = d.seeded
           /\ e.cut <=> d.cut \/ unseeded \in 1..(Seeds - 1)
<1>. DEFINE b == unseeded \in 1..(Seeds - 1)
<1>1. b \in BOOLEAN /\ Interrupted(d) = [d EXCEPT !.cut = @ \/ b]
    BY DEF Interrupted
<1>. HIDE DEF b
<1>2. LET e == Interrupted(d) IN
      /\ Sound(e)
      /\ e.section = d.section /\ e.people = d.people /\ e.avatars = d.avatars
      /\ e.last = d.last /\ e.seeded = d.seeded /\ (e.cut <=> d.cut \/ b)
    BY <1>1, CutIs
<1>. QED  BY <1>2 DEF b

\* A section is replaced.
LEMMA SectionSetIs ==
    ASSUME NEW d, Sound(d), NEW s \in Section
    PROVE  LET e == [d EXCEPT !.section = s] IN
           /\ Sound(e)
           /\ e.section = s /\ e.people = d.people /\ e.avatars = d.avatars
           /\ e.last = d.last /\ e.seeded = d.seeded /\ e.cut = d.cut
BY DEF Sound, Data, RoomForSeeds

\* An avatar is only set for a character.
LEMMA AvatarIs ==
    ASSUME NEW d, Sound(d), NEW i
    PROVE  LET e == [d EXCEPT !.avatars = @ \cup ({i} \cap d.people)] IN
           /\ Sound(e)
           /\ e.section = d.section /\ e.people = d.people
           /\ e.avatars = d.avatars \cup ({i} \cap d.people)
           /\ e.last = d.last /\ e.seeded = d.seeded /\ e.cut = d.cut
BY DEF Sound, Data, RoomForSeeds

\* A character and its avatar are deleted.
LEMMA DeletedIs ==
    ASSUME NEW d, Sound(d), NEW i \in d.people,
           d.people # {i} \/ d.last + Seeds <= MaxId
    PROVE  LET e == [d EXCEPT !.people = @ \ {i}, !.avatars = @ \ {i}] IN
           /\ Sound(e)
           /\ e.section = d.section /\ e.people = d.people \ {i}
           /\ e.avatars = d.avatars \ {i} /\ e.last = d.last
           /\ e.seeded = d.seeded /\ e.cut = d.cut
BY DEF Sound, Data, RoomForSeeds

\* An avatar_url is edited.
LEMMA EditedIs ==
    ASSUME NEW d, Sound(d), NEW i
    PROVE  LET e == [d EXCEPT !.avatars = @ \ {i}] IN
           /\ Sound(e)
           /\ e.section = d.section /\ e.people = d.people /\ e.avatars = d.avatars \ {i}
           /\ e.last = d.last /\ e.seeded = d.seeded /\ e.cut = d.cut
BY DEF Sound, Data, RoomForSeeds

\* A database with all its seeds, or whose seeding ended before its time.
Seeded(d) == d.cut \/ d.seeded = Seeds

\* A copy that says what it lacks.
LEMMA SaidIs ==
    ASSUME NEW d, Sound(d)
    PROVE  LET e == [d EXCEPT !.cut = @ \/ d.seeded < Seeds] IN
           /\ Sound(e) /\ Seeded(e)
           /\ e.section = d.section /\ e.people = d.people /\ e.avatars = d.avatars
           /\ e.last = d.last /\ e.seeded = d.seeded /\ (d.cut => e.cut)
<1>. DEFINE b == d.seeded < Seeds
            e == [d EXCEPT !.cut = @ \/ b]
<1>1. b \in BOOLEAN
    OBVIOUS
<1>2. b \/ d.seeded = Seeds
    BY DataFields, MaintenanceAssumption DEF Sound, MaintenanceAssumption
<1>. HIDE DEF b
<1>3. /\ Sound(e)
      /\ e.section = d.section /\ e.people = d.people /\ e.avatars = d.avatars
      /\ e.last = d.last /\ e.seeded = d.seeded /\ (e.cut <=> d.cut \/ b)
    BY <1>1, CutIs
<1>. HIDE DEF e
<1>4. Seeded(e)
    BY <1>2, <1>3 DEF Seeded
<1>5. Sound(e) /\ Seeded(e) /\ (d.cut => e.cut)
    BY <1>3, <1>4
<1>. QED  BY <1>3, <1>5 DEF e, b

-----------------------------------------------------------------------------
(* Archives *)

\* An archive of this program has a sound database.
Safe(a) == a \in Archive /\ (a.kind = "kindred" => Sound(a.data))

\* The four kinds of what can be put in place.
LEMMA ArchiveIs ==
    /\ None.kind = "none" /\ Newer.kind = "newer" /\ Reset.kind = "reset"
    /\ Safe(None) /\ Safe(Newer) /\ Safe(Reset)
    /\ \A a \in Archive :
           \/ a \in {None, Newer, Reset}
           \/ /\ a.kind = "kindred" /\ a.data \in Data
              /\ a.uploads \in SUBSET (1..MaxId) /\ a.clean \in BOOLEAN
<1>1. None.kind = "none" /\ Newer.kind = "newer" /\ Reset.kind = "reset"
    BY DEF None, Newer, Reset
<1>2. None \in Archive /\ Newer \in Archive /\ Reset \in Archive
    BY DEF Archive
<1>3. ASSUME NEW a \in Archive, a \notin {None, Newer, Reset}
      PROVE  /\ a.kind = "kindred" /\ a.data \in Data
             /\ a.uploads \in SUBSET (1..MaxId) /\ a.clean \in BOOLEAN
    <2>1. a \in [kind : {"kindred"}, data : Data, uploads : SUBSET (1..MaxId), clean : BOOLEAN]
        BY <1>3 DEF Archive
    <2>. QED  BY <2>1
<1>. QED  BY <1>1, <1>2, <1>3 DEF Safe

\* The archive that is sent is one.
LEMMA CollectedIs ==
    ASSUME NEW d, Sound(d), NEW us \in SUBSET (1..MaxId), NEW c \in BOOLEAN
    PROVE  LET a == [kind |-> "kindred", data |-> d, uploads |-> us, clean |-> c] IN
           /\ Safe(a) /\ a # None
           /\ a.kind = "kindred" /\ a.data = d /\ a.uploads = us /\ a.clean = c
<1>. DEFINE a == [kind |-> "kindred", data |-> d, uploads |-> us, clean |-> c]
<1>1. a.kind = "kindred" /\ a.data = d /\ a.uploads = us /\ a.clean = c
    OBVIOUS
<1>2. a \in Archive
    BY DEF Archive, Sound
<1>3. a # None
    BY <1>1, ArchiveIs
<1>. QED  BY <1>1, <1>2, <1>3 DEF Safe

-----------------------------------------------------------------------------
(* Where the requests are *)

\* The steps of a request of each kind.
Labels(r) ==
    IF r \in Maintainer THEN Replacing \cup {"idle"}
    ELSE IF r \in Patcher THEN {"idle", "merged", "connected", "stranded", "ended"}
    ELSE IF r \in Uploader THEN {"idle", "reading", "storing"}
    ELSE {"idle", "copied"}

\* One request at most has the files in hand.
Exclusive == \A r, s \in Maintainer \cup Uploader : Busy(r) /\ Busy(s) => r = s

\* No request goes on while the process does not serve, and seeds are only to be
\* created at its start or by a reset.
PlaceInv ==
    /\ pc = [r \in Request |-> pc[r]]
    /\ \A r \in Request : pc[r] \in Labels(r)
    /\ Exclusive
    /\ process \in {"down", "seeding", "serving"}
    /\ process # "serving" =>
           \A r \in Request : pc[r] = "idle" \/ (r \in Patcher /\ pc[r] = "ended")
    /\ unseeded # 0 => process = "seeding" \/ \E m \in Maintainer : pc[m] = "seeding"

\* A request takes a step, and no other.
LEMMA Goes ==
    ASSUME PlaceInv, NEW r \in Request, NEW l \in Labels(r), Goto(r, l)
    PROVE  /\ pc' = [q \in Request |-> pc'[q]]
           /\ \A q \in Request : pc'[q] = IF q = r THEN l ELSE pc[q]
           /\ \A q \in Request : pc'[q] \in Labels(q)
<1>1. pc = [q \in Request |-> pc[q]] /\ pc' = [pc EXCEPT ![r] = l]
    BY DEF PlaceInv, Goto
<1>2. DOMAIN pc = Request
    BY <1>1
<1>3. pc' = [q \in Request |-> IF q = r THEN l ELSE pc[q]]
    BY <1>1, <1>2
<1>4. \A q \in Request : pc'[q] = IF q = r THEN l ELSE pc[q]
    BY <1>3
<1>5. pc' = [q \in Request |-> pc'[q]]
    BY <1>3, <1>4
<1>. QED  BY <1>4, <1>5 DEF PlaceInv

\* A request of a process that serves takes a step; a coroutine takes one with the
\* files only from another such step or when no other coroutine is at one.
LEMMA PlacesKept ==
    ASSUME PlaceInv, process = "serving", process' = process,
           NEW r \in Request, NEW l \in Labels(r), Goto(r, l),
           \/ r \notin Maintainer \cup Uploader
           \/ Busy(r) \/ LoopFreeFor(r) \/ l \notin Replacing \cup {"storing"},
           \/ unseeded' = 0 \/ (r \in Maintainer /\ l = "seeding")
           \/ unseeded' = unseeded /\ (r \notin Maintainer \/ pc[r] # "seeding")
    PROVE  PlaceInv'
<1>1. /\ pc' = [q \in Request |-> pc'[q]]
      /\ \A q \in Request : pc'[q] = IF q = r THEN l ELSE pc[q]
      /\ \A q \in Request : pc'[q] \in Labels(q)
    BY Goes
<1>2. Maintainer \subseteq Request /\ Uploader \subseteq Request
    BY DEF Request
<1>3. \A q \in Maintainer \cup Uploader : q # r => Busy(q)' = Busy(q)
    BY <1>1, <1>2 DEF Busy
<1>4. Busy(r)' => l \in Replacing \cup {"storing"}
    BY <1>1 DEF Busy
<1>5. Exclusive'
    BY <1>3, <1>4 DEF PlaceInv, Exclusive, LoopFreeFor
<1>6. unseeded' # 0 => \E m \in Maintainer : pc'[m] = "seeding"
    BY <1>1, <1>2 DEF PlaceInv
<1>. QED  BY <1>1, <1>5, <1>6 DEF PlaceInv

\* A maintenance request in hand is of a process that serves.
LEMMA InHand ==
    ASSUME PlaceInv, NEW r \in Request, pc[r] # "idle", pc[r] # "ended"
    PROVE  process = "serving"
BY DEF PlaceInv

\* The steps that take no request to another place: those of the characters, and the
\* files that a maintenance request removes and adds one by one.
Aside ==
    \/ CreateCharacter \/ EditAvatar \/ DeleteCharacter
    \/ \E m \in Maintainer : RemoveUpload(m) \/ CopyUpload(m)

\* They change the characters or the uploads, and nothing else.
LEMMA AsideIs ==
    ASSUME Aside
    PROVE  /\ UNCHANGED <<file, backup, process, unseeded, pc, base, target, chosen, snapshot,
                          ideal, fresh, lost, halfway, broken>>
           /\ UNCHANGED data \/ UNCHANGED uploads
<1>1. CASE CreateCharacter
    BY <1>1 DEF CreateCharacter, history
<1>2. CASE EditAvatar \/ DeleteCharacter
    BY <1>2 DEF EditAvatar, DeleteCharacter, history
<1>3. ASSUME NEW m \in Maintainer, RemoveUpload(m) \/ CopyUpload(m)
      PROVE  /\ UNCHANGED <<file, backup, process, unseeded, pc, base, target, chosen, snapshot,
                            ideal, fresh, lost, halfway, broken>>
             /\ UNCHANGED data
    BY <1>3 DEF RemoveUpload, CopyUpload, history
<1>. QED  BY <1>1, <1>2, <1>3 DEF Aside

\* Requests are where their kind is, and one at most has the files in hand.
LEMMA PlaceStep ==
    ASSUME PlaceInv, unseeded \in 0..Seeds, [Next]_vars
    PROVE  PlaceInv'
<1>. USE DEF disk, history
<1>0. /\ Maintainer \subseteq Request /\ Patcher \subseteq Request
      /\ Uploader \subseteq Request /\ Backup \in Request
    BY DEF Request
<1>1. CASE Boot \/ BootSeed \/ Serve
    <2>1. UNCHANGED pc /\ process # "serving" /\ process' \in {"seeding", "serving"}
        BY <1>1 DEF Boot, BootSeed, Serve, PlaceInv
    <2>2. process' # "serving" => process' = "seeding"
        BY <2>1
    <2>3. process' = "serving" => unseeded' = 0
        BY <1>1 DEF Boot, BootSeed, Serve
    <2>4. Exclusive'
        BY <2>1 DEF PlaceInv, Exclusive, Busy
    <2>. QED  BY <2>1, <2>2, <2>3, <2>4 DEF PlaceInv
<1>2. CASE Crash
    <2>1. /\ process' = "down" /\ unseeded' = 0
          /\ pc' = [r \in Request |->
                       IF r \in Patcher /\ pc[r] # "idle" THEN "ended" ELSE "idle"]
        BY <1>2 DEF Crash
    <2>2. \A r \in Request : pc'[r] = IF r \in Patcher /\ pc[r] # "idle" THEN "ended" ELSE "idle"
        BY <2>1
    <2>3. pc' = [r \in Request |-> pc'[r]]
        BY <2>1, <2>2
    <2>4. \A r \in Request : pc'[r] \in Labels(r)
        BY <2>2, RequestsDiffer DEF Labels, RequestsDiffer
    <2>5. Exclusive'
        BY <1>0, <2>2, RequestsDiffer DEF Exclusive, Busy, Replacing, RequestsDiffer
    <2>. QED  BY <2>1, <2>2, <2>3, <2>4, <2>5 DEF PlaceInv
<1>3. ASSUME NEW m \in Maintainer,
             \/ Begin(m) \/ Check(m) \/ Copy(m) \/ Copied(m) \/ Schema(m)
             \/ Defaults(m) \/ Count(m) \/ Clear(m) \/ Fill(m)
      PROVE  PlaceInv'
    <2>1. PICK l \in Replacing \cup {"idle"} : Goto(m, l)
        <3>1. CASE Begin(m)
            <4>1. PICK c \in {backup, Newer, Reset} : Goto(m, IF c = Reset THEN "unlinking" ELSE "checking")
                BY <3>1 DEF Begin
            <4>. QED  BY <4>1 DEF Replacing
        <3>2. CASE Defaults(m)
            <4>1. Goto(m, IF chosen[m] = Reset THEN "counting" ELSE "clearing")
                BY <3>2 DEF Defaults
            <4>. QED  BY <4>1 DEF Replacing
        <3>3. CASE Check(m) \/ Copy(m) \/ Copied(m) \/ Schema(m)
            BY <3>3 DEF Check, Copy, Copied, Schema, Replacing
        <3>4. CASE Count(m) \/ Clear(m) \/ Fill(m)
            BY <3>4 DEF Count, Clear, Fill, Replacing
        <3>. QED  BY <1>3, <3>1, <3>2, <3>3, <3>4
    <2>2. process' = process
        BY <1>3 DEF Begin, Check, Copy, Copied, Schema, Defaults, Count, Clear, Fill
    <2>3. Begin(m) \/ (pc[m] \in Replacing /\ pc[m] # "seeding")
        BY <1>3 DEF Check, Copy, Copied, Schema, Defaults, Count, Clear, Fill,
                    Replacing
    <2>4. process = "serving"
        BY <1>0, <2>3, InHand DEF Begin, Replacing
    <2>5. Busy(m) \/ LoopFreeFor(m)
        BY <2>3 DEF Begin, Busy
    <2>6. pc[m] # "seeding"
        BY <2>3 DEF Begin
    <2>7. unseeded' = unseeded \/ Goto(m, "seeding")
        BY <1>3 DEF Begin, Check, Copy, Copied, Schema, Defaults, Count, Clear, Fill
    <2>8. Labels(m) = Replacing \cup {"idle"} /\ "seeding" \in Replacing
        BY DEF Labels, Replacing
    <2>9. CASE unseeded' = unseeded
        BY <1>0, <2>1, <2>2, <2>4, <2>5, <2>6, <2>8, <2>9, PlacesKept
    <2>10. CASE Goto(m, "seeding")
        BY <1>0, <2>2, <2>4, <2>5, <2>8, <2>10, PlacesKept
    <2>. QED  BY <2>7, <2>9, <2>10
<1>4. ASSUME NEW m \in Maintainer, Unlink(m) PROVE PlaceInv'
    <2>1. /\ pc' = [r \in Request |->
                       IF r = m THEN IF chosen[m] = Reset THEN "initializing" ELSE "copying"
                       ELSE IF pc[r] = "connected" THEN "stranded" ELSE pc[r]]
          /\ pc[m] = "unlinking" /\ UNCHANGED <<process, unseeded>>
        BY <1>4 DEF Unlink
    <2>2. \A r \in Request :
             pc'[r] = IF r = m THEN IF chosen[m] = Reset THEN "initializing" ELSE "copying"
                      ELSE IF pc[r] = "connected" THEN "stranded" ELSE pc[r]
        BY <2>1
    <2>3. pc' = [r \in Request |-> pc'[r]]
        BY <2>1, <2>2
    <2>4. \A r \in Request \ {m} : pc'[r] = pc[r] \/ (r \in Patcher /\ pc'[r] = "stranded")
        BY <2>2 DEF PlaceInv, Labels, Replacing
    <2>5. \A r \in Request : pc'[r] \in Labels(r)
        BY <2>2, <2>4, RequestsDiffer DEF PlaceInv, Labels, Replacing, RequestsDiffer
    <2>6. Busy(m) /\ \A r \in Maintainer \cup Uploader : r # m => Busy(r)' = Busy(r)
        BY <1>0, <2>1, <2>4, RequestsDiffer DEF Busy, Replacing, RequestsDiffer
    <2>7. Exclusive'
        BY <2>6 DEF PlaceInv, Exclusive
    <2>8. process = "serving" /\ process' = process
        BY <1>0, <2>1, InHand
    <2>9. unseeded' # 0 => \E n \in Maintainer : pc'[n] = "seeding"
        <3>1. unseeded # 0 => \E n \in Maintainer : pc[n] = "seeding" /\ n # m
            BY <2>1, <2>8 DEF PlaceInv
        <3>. QED  BY <1>0, <2>1, <2>2, <3>1
    <2>. QED  BY <2>3, <2>5, <2>7, <2>8, <2>9 DEF PlaceInv
<1>5. ASSUME NEW m \in Maintainer, Seed(m) PROVE PlaceInv'
    <2>1. process = "serving" /\ process' = process /\ pc[m] = "seeding"
        BY <1>0, <1>5, InHand DEF Seed
    <2>2. CASE UNCHANGED pc
        <3>1. Exclusive'
            BY <2>2 DEF PlaceInv, Exclusive, Busy
        <3>. QED  BY <2>1, <2>2, <3>1 DEF PlaceInv
    <2>3. CASE Goto(m, "clearing") /\ unseeded = 0 /\ UNCHANGED unseeded
        <3>1. Busy(m) /\ "clearing" \in Labels(m)
            BY <2>1 DEF Busy, Replacing, Labels
        <3>. QED  BY <1>0, <2>1, <2>3, <3>1, PlacesKept
    <2>. QED  BY <1>5, <2>2, <2>3 DEF Seed
<1>6. CASE Snapshot \/ Collect
    <2>1. PICK l \in {"idle", "copied"} : Goto(Backup, l)
        BY <1>6 DEF Snapshot, Collect
    <2>2. process = "serving"
        BY <1>0, <1>6, InHand DEF Snapshot, Collect
    <2>3. UNCHANGED <<process, unseeded>>
        BY <1>6 DEF Snapshot, Collect
    <2>4. l \in Labels(Backup) /\ Backup \notin Maintainer \cup Uploader
        BY RequestsDiffer DEF Labels, RequestsDiffer
    <2>. QED  BY <1>0, <2>1, <2>2, <2>3, <2>4, PlacesKept
<1>7. ASSUME NEW p \in Patcher, ReadSection(p) \/ Connect(p) \/ Commit(p) \/ NoCommit(p)
      PROVE  PlaceInv'
    <2>1. process = "serving"
        BY <1>0, <1>7, InHand DEF ReadSection, Connect, Commit, NoCommit
    <2>2. UNCHANGED <<process, unseeded>>
        BY <1>7 DEF ReadSection, Connect, Commit, NoCommit
    <2>3. UNCHANGED pc \/ \E l \in {"merged", "connected", "ended"} : Goto(p, l)
        BY <1>7 DEF ReadSection, Connect, Commit, NoCommit
    <2>4. CASE UNCHANGED pc
        <3>1. Exclusive'
            BY <2>4 DEF PlaceInv, Exclusive, Busy
        <3>. QED  BY <2>2, <2>4, <3>1 DEF PlaceInv
    <2>5. ASSUME NEW l \in {"merged", "connected", "ended"}, Goto(p, l) PROVE PlaceInv'
        <3>1. l \in Labels(p) /\ p \notin Maintainer \cup Uploader
            BY RequestsDiffer DEF Labels, RequestsDiffer
        <3>. QED  BY <1>0, <2>1, <2>2, <2>5, <3>1, PlacesKept
    <2>. QED  BY <2>3, <2>4, <2>5
<1>8. ASSUME NEW u \in Uploader, CheckCharacter(u) \/ Reject(u) \/ SaveFile(u) \/ SetAvatar(u)
      PROVE  PlaceInv'
    <2>1. process = "serving"
        BY <1>0, <1>8, InHand DEF CheckCharacter, Reject, SaveFile, SetAvatar
    <2>2. UNCHANGED <<process, unseeded>>
        BY <1>8 DEF CheckCharacter, Reject, SaveFile, SetAvatar
    <2>3. PICK l \in {"idle", "reading", "storing"} : Goto(u, l)
        BY <1>8 DEF CheckCharacter, Reject, SaveFile, SetAvatar
    <2>4. LoopFreeFor(u) \/ Busy(u)
        BY <1>8 DEF CheckCharacter, Reject, SaveFile, SetAvatar, Busy
    <2>5. l \in Labels(u) /\ u \notin Maintainer
        BY RequestsDiffer DEF Labels, RequestsDiffer
    <2>. QED  BY <1>0, <2>1, <2>2, <2>3, <2>4, <2>5, PlacesKept
<1>9. CASE Aside \/ UNCHANGED vars
    <2>1. UNCHANGED <<process, unseeded, pc>>
        BY <1>9, AsideIs DEF vars
    <2>2. Exclusive'
        BY <2>1 DEF PlaceInv, Exclusive, Busy
    <2>. QED  BY <2>1, <2>2 DEF PlaceInv
<1>10. ASSUME NEW m \in Maintainer, ReplaceFails(m) PROVE PlaceInv'
    <2>1. /\ pc[m] \in Replacing /\ Goto(m, "idle") /\ unseeded' = 0
          /\ UNCHANGED process
        BY <1>10 DEF ReplaceFails
    <2>2. process = "serving" /\ Busy(m) /\ "idle" \in Labels(m)
        BY <1>0, <2>1, InHand DEF Busy, Replacing, Labels
    <2>. QED  BY <1>0, <2>1, <2>2, PlacesKept
<1>. QED  BY <1>1, <1>2, <1>3, <1>4, <1>5, <1>6, <1>7, <1>8, <1>9, <1>10 DEF Next, Aside

-----------------------------------------------------------------------------
(* What the requests hold *)

\* The database is sound, and there are ids for the seeds still to be created.
DataInv ==
    /\ Sound(data) /\ unseeded \in 0..Seeds
    /\ data.last + unseeded <= MaxId /\ data.seeded + unseeded <= Seeds

\* So are the copies of it; and no request puts in place what was refused.
HoldInv ==
    /\ uploads \in SUBSET (1..MaxId)
    /\ Safe(backup) /\ Sound(snapshot)
    /\ chosen = [m \in Maintainer |-> chosen[m]]
    /\ \A m \in Maintainer : Safe(chosen[m])
    /\ \A m \in Maintainer :
          /\ pc[m] \in {"copying", "copied", "filling"} => chosen[m].kind = "kindred"
          /\ pc[m] \in {"counting", "seeding"} => chosen[m] = Reset
          /\ pc[m] \in {"unlinking", "initializing", "defaults", "clearing"} =>
                 chosen[m] = Reset \/ chosen[m].kind = "kindred"

\* The locals of the requests in threads, and the history.
LocalInv ==
    /\ file \in {"absent", "blank", "torn", "newer", "complete"}
    /\ base = [p \in Patcher |-> base[p]] /\ \A p \in Patcher : base[p] \in Section
    /\ target = [u \in Uploader |-> target[u]] /\ \A u \in Uploader : target[u] \in 0..MaxId
    /\ \A u \in Uploader : pc[u] # "idle" => target[u] # 0
    /\ ideal \in Section
    /\ fresh \in [Patcher \cup {Backup} -> BOOLEAN]
    /\ lost \in BOOLEAN /\ halfway \in BOOLEAN /\ broken \in BOOLEAN

TypeInv == PlaceInv /\ DataInv /\ HoldInv /\ LocalInv

\* What the invariant says of types and places is the type invariant of Maintenance.
LEMMA TypeInvIsTypeOK == TypeInv => TypeOK
<1>. SUFFICES ASSUME TypeInv PROVE TypeOK
    OBVIOUS
<1>1. DOMAIN pc = Request
    <2>1. pc = [r \in Request |-> pc[r]]
        BY DEF TypeInv, PlaceInv
    <2>. QED  BY <2>1
<1>2. Safe(backup) /\ \A m \in Maintainer : Safe(chosen[m])
    BY DEF TypeInv, HoldInv
<1>. QED  BY <1>1, <1>2 DEF TypeInv, PlaceInv, DataInv, HoldInv, LocalInv, TypeOK, Exclusive,
                            Sound, Safe

\* A maintenance request is at a step of its own, and while it is at one of those
\* with the files, no seeds are to be created but by its own seeding.
LEMMA NoSeedsElsewhere ==
    ASSUME PlaceInv, NEW m \in Maintainer, pc[m] \in Replacing, pc[m] # "seeding"
    PROVE  unseeded = 0
<1>1. m \in Request /\ Maintainer \subseteq Request
    BY DEF Request
<1>2. process = "serving"
    BY <1>1, InHand DEF Replacing
<1>3. ASSUME NEW n \in Maintainer, pc[n] = "seeding" PROVE FALSE
    BY <1>3 DEF PlaceInv, Exclusive, Busy, Replacing
<1>. QED  BY <1>2, <1>3 DEF PlaceInv

\* The seeds of an empty table have their ids.
LEMMA SeedsFit ==
    ASSUME NEW d, Sound(d)
    PROVE  SeedsFor(d) \in {0, Seeds} /\ d.last + SeedsFor(d) <= MaxId
BY DataFields, MaintenanceAssumption DEF Sound, RoomForSeeds, SeedsFor, MaintenanceAssumption

\* A step that gives no id and creates no seed.
LEMMA DataKept ==
    ASSUME DataInv, Sound(data'), UNCHANGED unseeded,
           data'.last = data.last, data'.seeded = data.seeded
    PROVE  DataInv'
BY DEF DataInv, Sound, RoomForSeeds

\* What the steps of the characters leave of the database.
LEMMA AsideData ==
    ASSUME DataInv, Aside
    PROVE  /\ Sound(data') /\ DataInv'
           /\ data'.section = data.section /\ data'.avatars \subseteq data.avatars
           /\ data'.seeded = data.seeded /\ (data.cut => data'.cut)
           /\ data'.people \subseteq data.people \/ Seeded(data')
           /\ file = "complete" \/ (data = Blank => data' = Blank)
<1>. DEFINE Goal == /\ Sound(data') /\ DataInv'
                    /\ data'.section = data.section /\ data'.avatars \subseteq data.avatars
                    /\ data'.seeded = data.seeded /\ (data.cut => data'.cut)
                    /\ data'.people \subseteq data.people \/ Seeded(data')
                    /\ file = "complete" \/ (data = Blank => data' = Blank)
<1>0. Sound(data) /\ unseeded' = unseeded /\ data.last \in Nat /\ unseeded \in Nat
      /\ MaxId \in Nat /\ Seeds \in Nat
    <2>1. Sound(data) /\ unseeded' = unseeded /\ unseeded \in 0..Seeds
        BY AsideIs DEF DataInv
    <2>. QED  BY <2>1, DataFields, MaintenanceAssumption DEF Sound, MaintenanceAssumption
<1>1. CASE CreateCharacter
    <2>. DEFINE c == WithCharacter(data)
    <2>1. /\ data' = [c EXCEPT !.cut = @ \/ data.seeded < Seeds]
          /\ file = "complete" /\ data.last + unseeded < MaxId
        BY <1>1 DEF CreateCharacter
    <2>2. /\ Sound(c) /\ c.section = data.section /\ c.avatars = data.avatars
          /\ c.last = data.last + 1 /\ c.seeded = data.seeded /\ c.cut = data.cut
        BY <1>0, <2>1, CharacterIs
    <2>. HIDE DEF c
    <2>3. data' = [c EXCEPT !.cut = @ \/ c.seeded < Seeds]
        BY <2>1, <2>2
    <2>4. /\ Sound(data') /\ Seeded(data')
          /\ data'.section = c.section /\ data'.avatars = c.avatars
          /\ data'.last = c.last /\ data'.seeded = c.seeded /\ (c.cut => data'.cut)
        BY <2>2, <2>3, SaidIs
    <2>5. data'.last + unseeded <= MaxId
        BY <1>0, <2>1, <2>2, <2>4
    <2>6. DataInv'
        BY <1>0, <2>2, <2>4, <2>5 DEF DataInv, Sound, RoomForSeeds
    <2>. QED  BY <2>1, <2>2, <2>4, <2>6
<1>2. CASE EditAvatar
    <2>1. PICK i \in data.avatars : data' = [data EXCEPT !.avatars = @ \ {i}]
        BY <1>2 DEF EditAvatar
    <2>2. /\ Sound(data')
          /\ data'.section = data.section /\ data'.people = data.people
          /\ data'.avatars = data.avatars \ {i}
          /\ data'.last = data.last /\ data'.seeded = data.seeded /\ data'.cut = data.cut
        BY <1>0, <2>1, EditedIs
    <2>3. data # Blank
        BY <2>1, BlankIs
    <2>4. DataInv'
        BY <1>0, <2>2, DataKept
    <2>. QED  BY <2>2, <2>3, <2>4
<1>3. CASE DeleteCharacter
    <2>1. PICK i \in data.people :
             /\ data.people # {i} \/ data.last + Seeds <= MaxId
             /\ data' = [data EXCEPT !.people = @ \ {i}, !.avatars = @ \ {i}]
        BY <1>3 DEF DeleteCharacter
    <2>2. /\ Sound(data')
          /\ data'.section = data.section /\ data'.people = data.people \ {i}
          /\ data'.avatars = data.avatars \ {i}
          /\ data'.last = data.last /\ data'.seeded = data.seeded /\ data'.cut = data.cut
        <3>. DEFINE e == [data EXCEPT !.people = @ \ {i}, !.avatars = @ \ {i}]
        <3>1. /\ Sound(e)
              /\ e.section = data.section /\ e.people = data.people \ {i}
              /\ e.avatars = data.avatars \ {i}
              /\ e.last = data.last /\ e.seeded = data.seeded /\ e.cut = data.cut
            BY <1>0, <2>1, DeletedIs
        <3>2. data' = e
            BY <2>1
        <3>. HIDE DEF e
        <3>. QED  BY <3>1, <3>2
    <2>3. data # Blank
        BY <2>1, BlankIs
    <2>4. DataInv'
        BY <1>0, <2>2, DataKept
    <2>. QED  BY <2>2, <2>3, <2>4
<1>4. ASSUME NEW m \in Maintainer, RemoveUpload(m) \/ CopyUpload(m) PROVE Goal
    <2>1. data' = data
        BY <1>4 DEF RemoveUpload, CopyUpload
    <2>2. Sound(data')
        BY <1>0, <2>1 DEF Sound, RoomForSeeds
    <2>3. DataInv'
        BY <1>0, <2>1, <2>2, DataKept
    <2>. QED  BY <2>1, <2>2, <2>3
<1>. QED  BY <1>1, <1>2, <1>3, <1>4 DEF Aside

\* What a seed leaves of the database.
LEMMA SeedData ==
    ASSUME DataInv, unseeded > 0, data' = WithSeed(data), unseeded' = unseeded - 1
    PROVE  /\ DataInv' /\ unseeded' \in Nat
           /\ data'.section = data.section /\ data'.avatars = data.avatars
           /\ data'.seeded = data.seeded + 1
<1>0. /\ Sound(data) /\ data.last \in Nat /\ data.seeded \in Nat /\ unseeded \in Nat
      /\ unseeded \in 0..Seeds /\ Seeds \in Nat /\ MaxId \in Nat
    BY DataFields, MaintenanceAssumption DEF DataInv, Sound, MaintenanceAssumption
<1>1. data.last < MaxId /\ data.seeded < Seeds
    BY <1>0 DEF DataInv
<1>2. /\ Sound(data') /\ data'.section = data.section /\ data'.avatars = data.avatars
      /\ data'.last = data.last + 1 /\ data'.seeded = data.seeded + 1
    BY <1>0, <1>1, SeedIs
<1>3. /\ unseeded' \in 0..Seeds /\ data'.last + unseeded' <= MaxId
      /\ data'.seeded + unseeded' <= Seeds
    BY <1>0, <1>2 DEF DataInv
<1>. QED  BY <1>0, <1>2, <1>3 DEF DataInv, Sound, RoomForSeeds

\* What seeding that ends where it is leaves of the database.
LEMMA InterruptedData ==
    ASSUME DataInv, data' = Interrupted(data), unseeded' = 0
    PROVE  /\ Sound(data') /\ DataInv'
           /\ data'.section = data.section /\ data'.people = data.people
           /\ data'.avatars = data.avatars /\ data'.seeded = data.seeded
           /\ data'.cut <=> data.cut \/ unseeded \in 1..(Seeds - 1)
           /\ unseeded = 0 /\ data = Blank => data' = Blank
<1>0. /\ Sound(data) /\ data.last \in 0..MaxId /\ data.seeded \in 0..Seeds
      /\ Seeds \in Nat /\ MaxId \in Nat
    BY DataFields, MaintenanceAssumption DEF DataInv, Sound, MaintenanceAssumption
<1>1. /\ Sound(data')
      /\ data'.section = data.section /\ data'.people = data.people
      /\ data'.avatars = data.avatars /\ data'.last = data.last /\ data'.seeded = data.seeded
      /\ data'.cut <=> data.cut \/ unseeded \in 1..(Seeds - 1)
    BY <1>0, InterruptedIs
<1>2. data'.last + 0 <= MaxId /\ data'.seeded + 0 <= Seeds /\ 0 \in 0..Seeds
    BY <1>0, <1>1
<1>3. DataInv'
    BY <1>1, <1>2 DEF DataInv, Sound, RoomForSeeds
<1>4. ASSUME unseeded = 0, data = Blank PROVE data' = Blank
    <2>. DEFINE b == unseeded \in 1..(Seeds - 1)
    <2>1. b \in BOOLEAN /\ ~ b
        BY <1>0, <1>4
    <2>2. data' = [Blank EXCEPT !.cut = @ \/ b]
        BY <1>4 DEF Interrupted
    <2>. HIDE DEF b
    <2>. QED  BY <2>1, <2>2, BlankStays
<1>. QED  BY <1>1, <1>3, <1>4

\* What a count leaves of the database.
LEMMA CountedData ==
    ASSUME NEW d, Sound(d), data' = Counted(d), unseeded' = SeedsFor(d)
    PROVE  /\ DataInv'
           /\ data'.section = d.section /\ data'.people = d.people
           /\ data'.avatars = d.avatars
           /\ d.people = {} => unseeded' = Seeds /\ data'.seeded = 0
           /\ d.people # {} => unseeded' = 0 /\ data'.seeded = d.seeded /\ data'.cut = d.cut
<1>0. Seeds \in Nat /\ MaxId \in Nat /\ d.last \in Nat /\ d.seeded \in 0..Seeds
    BY DataFields, MaintenanceAssumption DEF Sound, MaintenanceAssumption
<1>1. /\ Sound(data')
      /\ data'.section = d.section /\ data'.people = d.people /\ data'.avatars = d.avatars
      /\ data'.last = d.last
      /\ data'.seeded = (IF d.people = {} THEN 0 ELSE d.seeded)
      /\ data'.cut = (IF d.people = {} THEN FALSE ELSE d.cut)
    BY CountedIs
<1>2. unseeded' = (IF d.people = {} THEN Seeds ELSE 0) /\ d.last + unseeded' <= MaxId
    BY SeedsFit DEF SeedsFor
<1>3. /\ unseeded' \in 0..Seeds /\ data'.last + unseeded' <= MaxId
      /\ data'.seeded + unseeded' <= Seeds
    BY <1>0, <1>1, <1>2
<1>4. DataInv'
    BY <1>1, <1>3 DEF DataInv, Sound, RoomForSeeds
<1>. QED  BY <1>1, <1>2, <1>4

\* The database stays sound, whatever steps of requests, starts and crashes meet.
LEMMA DataStep ==
    ASSUME TypeInv, [Next]_vars
    PROVE  DataInv'
<1>. USE DEF disk, history, threads
<1>0. /\ PlaceInv /\ DataInv /\ HoldInv /\ LocalInv /\ Sound(data)
      /\ data.last \in Nat /\ unseeded \in Nat
      /\ Seeds \in Nat \ {0} /\ MaxId \in Nat /\ Seeds <= MaxId
    <2>1. PlaceInv /\ DataInv /\ HoldInv /\ LocalInv /\ Sound(data)
        BY DEF TypeInv, DataInv
    <2>2. Seeds \in Nat \ {0} /\ MaxId \in Nat /\ Seeds <= MaxId
        BY MaintenanceAssumption DEF MaintenanceAssumption
    <2>. QED  BY <2>1, <2>2, DataFields DEF Sound, DataInv
<1>1. CASE UNCHANGED <<data, unseeded>>
    BY <1>0, <1>1 DEF DataInv, Sound, RoomForSeeds
<1>2. CASE Boot
    <2>. DEFINE d == WithDefaults(data)
    <2>1. data' = Counted(d) /\ unseeded' = SeedsFor(Counted(d))
        BY <1>2 DEF Boot
    <2>2. Sound(d)
        BY <1>0, DefaultsIs
    <2>. HIDE DEF d
    <2>3. Counted(d).people = d.people
        BY <2>2, CountedIs
    <2>4. unseeded' = SeedsFor(d)
        BY <2>1, <2>3 DEF SeedsFor
    <2>. QED  BY <2>1, <2>2, <2>4, CountedData
<1>3. ASSUME data' = WithSeed(data), unseeded > 0, unseeded' = unseeded - 1
      PROVE  DataInv'
    BY <1>0, <1>3, SeedData
<1>4. CASE Crash
    BY <1>0, <1>4, InterruptedData DEF Crash
<1>5. ASSUME NEW m \in Maintainer, Unlink(m) PROVE DataInv'
    <2>1. data' = Blank /\ unseeded' = unseeded
        BY <1>5 DEF Unlink
    <2>. QED  BY <1>0, <2>1, BlankIs DEF DataInv, Sound, RoomForSeeds
<1>6. ASSUME NEW m \in Maintainer, Copied(m) PROVE DataInv'
    <2>1. pc[m] = "copied" /\ unseeded' = unseeded
        BY <1>6 DEF Copied
    <2>2. chosen[m].kind = "kindred" /\ Safe(chosen[m])
        BY <1>0, <2>1 DEF HoldInv
    <2>3. data' = chosen[m].data
        BY <1>6, <2>2, ArchiveIs DEF Copied
    <2>4. unseeded = 0
        BY <1>0, <2>1, NoSeedsElsewhere DEF Replacing
    <2>5. Sound(data') /\ data'.last \in 0..MaxId /\ data'.seeded \in 0..Seeds
        BY <2>2, <2>3, DataFields DEF Safe, Sound
    <2>. QED  BY <1>0, <2>1, <2>4, <2>5 DEF DataInv, Sound, RoomForSeeds
<1>7. ASSUME NEW m \in Maintainer, Defaults(m) PROVE DataInv'
    <2>1. data' = WithDefaults(data) /\ unseeded' = unseeded
        BY <1>7 DEF Defaults
    <2>2. Sound(data') /\ data'.last = data.last /\ data'.seeded = data.seeded
        BY <1>0, <2>1, DefaultsIs
    <2>. QED  BY <1>0, <2>1, <2>2, DataKept
<1>8. ASSUME NEW m \in Maintainer, Count(m) PROVE DataInv'
    BY <1>0, <1>8, CountedData DEF Count
<1>9. ASSUME NEW p \in Patcher, Commit(p) PROVE DataInv'
    <2>1. data' = [data EXCEPT !.section = Merge(base[p], Patch[p])] /\ unseeded' = unseeded
        BY <1>9 DEF Commit
    <2>2. Merge(base[p], Patch[p]) \in Section
        BY <1>0, MergeType DEF LocalInv
    <2>3. Sound(data') /\ data'.last = data.last /\ data'.seeded = data.seeded
        BY <1>0, <2>1, <2>2, SectionSetIs
    <2>. QED  BY <1>0, <2>1, <2>3, DataKept
<1>10. ASSUME NEW u \in Uploader, SetAvatar(u) PROVE DataInv'
    <2>1. data' = [data EXCEPT !.avatars = @ \cup ({target[u]} \cap data.people)]
          /\ unseeded' = unseeded
        BY <1>10 DEF SetAvatar
    <2>2. Sound(data') /\ data'.last = data.last /\ data'.seeded = data.seeded
        BY <1>0, <2>1, AvatarIs
    <2>. QED  BY <1>0, <2>1, <2>2, DataKept
<1>11. CASE Aside
    BY <1>0, <1>11, AsideData
<1>12. ASSUME NEW m \in Maintainer, \/ Begin(m) \/ Check(m) \/ Copy(m)
                                    \/ Schema(m) \/ Clear(m) \/ Fill(m)
       PROVE  DataInv'
    <2>1. UNCHANGED <<data, unseeded>>
        BY <1>12 DEF Begin, Check, Copy, Schema, Clear, Fill
    <2>. QED  BY <1>1, <2>1
<1>13. ASSUME NEW m \in Maintainer, Seed(m) PROVE DataInv'
    BY <1>1, <1>3, <1>13 DEF Seed
<1>14. CASE \/ Serve \/ Snapshot \/ Collect \/ UNCHANGED vars
            \/ \E p \in Patcher : ReadSection(p) \/ Connect(p) \/ NoCommit(p)
            \/ \E u \in Uploader : CheckCharacter(u) \/ Reject(u) \/ SaveFile(u)
    <2>1. UNCHANGED <<data, unseeded>>
        BY <1>14 DEF Serve, Snapshot, Collect, vars, ReadSection, Connect, NoCommit,
                     CheckCharacter, Reject, SaveFile
    <2>. QED  BY <1>1, <2>1
<1>15. CASE BootSeed
    BY <1>3, <1>15 DEF BootSeed
<1>16. ASSUME NEW m \in Maintainer, ReplaceFails(m) PROVE DataInv'
    BY <1>0, <1>16, InterruptedData DEF ReplaceFails
<1>. QED  BY <1>2, <1>4, <1>5, <1>6, <1>7, <1>8, <1>9, <1>10, <1>11, <1>12, <1>13,
             <1>14, <1>15, <1>16 DEF Next, Aside

\* A maintenance request that has chosen, or not, and takes a step; the others hold
\* what they held.
LEMMA PicksKept ==
    ASSUME TypeInv, NEW m \in Maintainer, NEW l, l \in Replacing \cup {"idle"}, Goto(m, l),
           NEW c, Safe(c), chosen' = [chosen EXCEPT ![m] = c],
           l \in {"copying", "copied", "filling"} => c.kind = "kindred",
           l \in {"counting", "seeding"} => c = Reset,
           l \in {"unlinking", "initializing", "defaults", "clearing"} =>
               c = Reset \/ c.kind = "kindred",
           UNCHANGED <<uploads, backup, snapshot>>
    PROVE  HoldInv'
<1>1. PlaceInv /\ HoldInv /\ m \in Request /\ Maintainer \subseteq Request
    BY DEF TypeInv, Request
<1>2. l \in Labels(m)
    BY DEF Labels
<1>3. \A q \in Request : pc'[q] = IF q = m THEN l ELSE pc[q]
    BY <1>1, <1>2, Goes
<1>4. chosen = [n \in Maintainer |-> chosen[n]]
    BY <1>1 DEF HoldInv
<1>5. \A n \in Maintainer : chosen'[n] = IF n = m THEN c ELSE chosen[n]
    BY <1>4
<1>6. chosen' = [n \in Maintainer |-> chosen'[n]]
    BY <1>4
<1>7. uploads' \in SUBSET (1..MaxId) /\ Safe(backup)' /\ Sound(snapshot)'
    BY <1>1 DEF HoldInv, Safe, Sound, RoomForSeeds
<1>8. ASSUME NEW n \in Maintainer
      PROVE  /\ Safe(chosen[n])'
             /\ pc'[n] \in {"copying", "copied", "filling"} => chosen'[n].kind = "kindred"
             /\ pc'[n] \in {"counting", "seeding"} => chosen'[n] = Reset
             /\ pc'[n] \in {"unlinking", "initializing", "defaults", "clearing"} =>
                    chosen'[n] = Reset \/ chosen'[n].kind = "kindred"
    <2>1. CASE n = m
        BY <1>1, <1>3, <1>5, <2>1 DEF Safe, Sound, RoomForSeeds
    <2>2. CASE n # m
        BY <1>1, <1>3, <1>5, <2>2 DEF HoldInv, Safe, Sound, RoomForSeeds
    <2>. QED  BY <2>1, <2>2
<1>. QED  BY <1>6, <1>7, <1>8 DEF HoldInv

\* A step of no maintenance request.
LEMMA PicksUntouched ==
    ASSUME HoldInv, UNCHANGED chosen, \A m \in Maintainer : pc'[m] = pc[m],
           uploads' \in SUBSET (1..MaxId), Safe(backup'), Sound(snapshot')
    PROVE  HoldInv'
BY DEF HoldInv, Safe, Sound, RoomForSeeds

\* What requests hold stays sound, and what was refused is put in place by none.
LEMMA HoldStep ==
    ASSUME TypeInv, [Next]_vars
    PROVE  HoldInv'
<1>. USE DEF disk, history, threads
<1>0. /\ PlaceInv /\ HoldInv /\ Maintainer \subseteq Request
      /\ uploads \in SUBSET (1..MaxId) /\ Safe(backup) /\ Sound(snapshot)
    BY DEF TypeInv, HoldInv, Request
<1>1. ASSUME NEW r \in Request \ Maintainer, NEW l \in Labels(r), Goto(r, l)
      PROVE  \A m \in Maintainer : pc'[m] = pc[m]
    BY <1>0, <1>1, Goes
<1>2. CASE Boot \/ BootSeed \/ Serve \/ UNCHANGED vars
    <2>1. UNCHANGED <<uploads, backup, snapshot, chosen, pc>>
        BY <1>2 DEF Boot, BootSeed, Serve, vars
    <2>. QED  BY <1>0, <2>1, PicksUntouched
<1>3. CASE Crash
    <2>1. /\ chosen' = [m \in Maintainer |-> None] /\ snapshot' = Blank
          /\ UNCHANGED <<uploads, backup>>
          /\ pc' = [r \in Request |->
                       IF r \in Patcher /\ pc[r] # "idle" THEN "ended" ELSE "idle"]
        BY <1>3 DEF Crash
    <2>2. \A m \in Maintainer : chosen'[m] = None /\ pc'[m] \in {"idle", "ended"}
        BY <1>0, <2>1
    <2>3. chosen' = [m \in Maintainer |-> chosen'[m]]
        BY <2>1, <2>2
    <2>4. Sound(snapshot)' /\ Safe(backup)' /\ \A m \in Maintainer : Safe(chosen[m])'
        BY <1>0, <2>1, <2>2, BlankIs, ArchiveIs DEF Safe, Sound, RoomForSeeds
    <2>. QED  BY <1>0, <2>1, <2>2, <2>3, <2>4 DEF HoldInv
<1>16. ASSUME NEW m \in Maintainer, NEW l \in {"checking", "unlinking"}, Goto(m, l),
             NEW c, Safe(c), chosen' = [chosen EXCEPT ![m] = c],
             l = "unlinking" => c = Reset,
             UNCHANGED <<uploads, backup, snapshot>>
      PROVE  HoldInv'
    <2>1. l \in Replacing \cup {"idle"}
        BY DEF Replacing
    <2>2. l \notin {"copying", "copied", "filling", "counting", "seeding"}
        OBVIOUS
    <2>3. l \in {"unlinking", "initializing", "defaults", "clearing"} => c = Reset
        BY <1>16
    <2>. QED  BY <1>16, <2>1, <2>2, <2>3, PicksKept
<1>4. ASSUME NEW m \in Maintainer, Begin(m) PROVE HoldInv'
    <2>1. PICK c \in {backup, Newer, Reset} :
             /\ chosen' = [chosen EXCEPT ![m] = c]
             /\ Goto(m, IF c = Reset THEN "unlinking" ELSE "checking")
        BY <1>4 DEF Begin
    <2>2. UNCHANGED <<uploads, backup, snapshot>>
        BY <1>4 DEF Begin
    <2>3. Safe(c)
        BY <1>0, ArchiveIs
    <2>4. CASE c = Reset
        <3>1. Goto(m, "unlinking")
            BY <2>1, <2>4
        <3>. QED  BY <1>16, <2>1, <2>2, <2>3, <2>4, <3>1
    <2>5. CASE c # Reset
        <3>1. Goto(m, "checking")
            BY <2>1, <2>5
        <3>. QED  BY <1>16, <2>1, <2>2, <2>3, <2>5, <3>1
    <2>. QED  BY <2>4, <2>5
\* A request that goes on with what it has chosen.
<1>5. ASSUME NEW m \in Maintainer, NEW l \in Replacing, Goto(m, l), UNCHANGED chosen,
             UNCHANGED <<uploads, backup, snapshot>>,
             l \in {"copying", "copied", "filling"} => chosen[m].kind = "kindred",
             l \in {"counting", "seeding"} => chosen[m] = Reset,
             l \in {"unlinking", "initializing", "defaults", "clearing"} =>
                 chosen[m] = Reset \/ chosen[m].kind = "kindred"
      PROVE  HoldInv'
    <2>1. chosen = [n \in Maintainer |-> chosen[n]] /\ Safe(chosen[m])
        BY <1>0 DEF HoldInv
    <2>2. chosen' = [chosen EXCEPT ![m] = chosen[m]]
        BY <1>5, <2>1
    <2>. QED  BY <1>5, <2>1, <2>2, PicksKept
\* A request that ends, in one way or another.
<1>6. ASSUME NEW m \in Maintainer, Goto(m, "idle"), Unchosen(m),
             uploads' \in SUBSET (1..MaxId), UNCHANGED <<backup, snapshot>>
      PROVE  HoldInv'
    <2>1. "idle" \in Labels(m) /\ m \in Request
        BY <1>0 DEF Labels
    <2>2. \A n \in Maintainer : pc'[n] = IF n = m THEN "idle" ELSE pc[n]
        BY <1>0, <1>6, <2>1, Goes
    <2>3. chosen = [n \in Maintainer |-> chosen[n]] /\ chosen' = [chosen EXCEPT ![m] = None]
        BY <1>0, <1>6 DEF HoldInv, Unchosen
    <2>4. chosen' = [n \in Maintainer |-> chosen'[n]]
        BY <2>3
    <2>5. \A n \in Maintainer : chosen'[n] = IF n = m THEN None ELSE chosen[n]
        BY <2>3
    <2>6. Sound(snapshot)' /\ Safe(backup)'
        BY <1>0, <1>6 DEF Safe, Sound, RoomForSeeds
    <2>7. \A n \in Maintainer : Safe(chosen[n])'
        BY <1>0, <2>5, ArchiveIs DEF HoldInv, Safe, Sound, RoomForSeeds
    <2>8. \A n \in Maintainer : n # m => pc'[n] = pc[n] /\ chosen'[n] = chosen[n]
        BY <2>2, <2>5
    <2>. QED  BY <1>0, <1>6, <2>2, <2>4, <2>6, <2>7, <2>8 DEF HoldInv
<1>7. ASSUME NEW m \in Maintainer, Check(m) PROVE HoldInv'
    <2>1. UNCHANGED <<uploads, backup, snapshot>>
        BY <1>7 DEF Check
    <2>2. \/ chosen[m].kind = "kindred" /\ Goto(m, "unlinking") /\ UNCHANGED chosen
          \/ Goto(m, "idle") /\ Unchosen(m)
        BY <1>7 DEF Check
    <2>. QED  BY <1>0, <1>5, <1>6, <2>1, <2>2 DEF Replacing
<1>8. ASSUME NEW m \in Maintainer, Unlink(m) PROVE HoldInv'
    <2>1. /\ pc' = [r \in Request |->
                       IF r = m THEN IF chosen[m] = Reset THEN "initializing" ELSE "copying"
                       ELSE IF pc[r] = "connected" THEN "stranded" ELSE pc[r]]
          /\ pc[m] = "unlinking" /\ UNCHANGED <<uploads, backup, snapshot, chosen>>
        BY <1>8 DEF Unlink
    <2>2. \A n \in Maintainer :
             pc'[n] = IF n = m THEN IF chosen[m] = Reset THEN "initializing" ELSE "copying"
                      ELSE pc[n]
        BY <1>0, <2>1 DEF PlaceInv, Labels, Replacing
    <2>3. chosen[m] = Reset \/ chosen[m].kind = "kindred"
        BY <1>0, <2>1 DEF HoldInv
    <2>. QED  BY <1>0, <2>1, <2>2, <2>3 DEF HoldInv, Safe, Sound, RoomForSeeds
<1>9. ASSUME NEW m \in Maintainer, Copy(m) \/ Copied(m) \/ Schema(m) \/ Defaults(m) \/ Count(m)
      PROVE  HoldInv'
    <2>1. UNCHANGED <<uploads, backup, snapshot, chosen>>
        BY <1>9 DEF Copy, Copied, Schema, Defaults, Count
    <2>2. CASE Copy(m)
        BY <1>0, <1>5, <2>1, <2>2 DEF Copy, HoldInv, Replacing
    <2>3. CASE Copied(m)
        BY <1>0, <1>5, <2>1, <2>3 DEF Copied, HoldInv, Replacing
    <2>4. CASE Schema(m)
        BY <1>0, <1>5, <2>1, <2>4 DEF Schema, HoldInv, Replacing
    <2>5. CASE Defaults(m) /\ chosen[m] = Reset
        BY <1>5, <2>1, <2>5 DEF Defaults, Replacing
    <2>6. CASE Defaults(m) /\ chosen[m] # Reset
        BY <1>0, <1>5, <2>1, <2>6 DEF Defaults, HoldInv, Replacing
    <2>7. CASE Count(m)
        BY <1>0, <1>5, <2>1, <2>7 DEF Count, HoldInv, Replacing
    <2>. QED  BY <1>9, <2>2, <2>3, <2>4, <2>5, <2>6, <2>7
<1>10. ASSUME NEW m \in Maintainer, Seed(m) PROVE HoldInv'
    <2>1. UNCHANGED <<uploads, backup, snapshot, chosen>> /\ pc[m] = "seeding"
        BY <1>10 DEF Seed
    <2>2. CASE UNCHANGED pc
        BY <1>0, <2>1, <2>2, PicksUntouched
    <2>3. CASE Goto(m, "clearing")
        BY <1>0, <1>5, <2>1, <2>3 DEF HoldInv, Replacing
    <2>. QED  BY <1>10, <2>2, <2>3 DEF Seed
<1>11. ASSUME NEW m \in Maintainer, ReplaceFails(m) \/ Fill(m) PROVE HoldInv'
    <2>1. Goto(m, "idle") /\ Unchosen(m) /\ UNCHANGED <<uploads, backup, snapshot>>
        BY <1>11 DEF ReplaceFails, Fill
    <2>. QED  BY <1>0, <1>6, <2>1
<1>12. ASSUME NEW m \in Maintainer, Clear(m) PROVE HoldInv'
    <2>1. UNCHANGED <<uploads, backup, snapshot>> /\ pc[m] = "clearing"
        BY <1>12 DEF Clear
    <2>2. CASE Goto(m, "idle") /\ Unchosen(m)
        BY <1>0, <1>6, <2>1, <2>2
    <2>3. CASE chosen[m] # Reset /\ Goto(m, "filling") /\ UNCHANGED chosen
        <3>1. "filling" \in Labels(m) /\ m \in Request
            BY <1>0 DEF Labels, Replacing
        <3>2. \A n \in Maintainer : pc'[n] = IF n = m THEN "filling" ELSE pc[n]
            BY <1>0, <2>3, <3>1, Goes
        <3>3. chosen[m].kind = "kindred"
            BY <1>0, <2>1, <2>3 DEF HoldInv
        <3>. QED  BY <1>0, <2>1, <2>3, <3>2, <3>3 DEF HoldInv, Safe, Sound, RoomForSeeds
    <2>. QED  BY <1>12, <2>2, <2>3 DEF Clear
<1>13. CASE Snapshot \/ Collect
    <2>1. Backup \in Request \ Maintainer /\ "idle" \in Labels(Backup) /\ "copied" \in Labels(Backup)
        BY RequestsDiffer DEF Request, Labels, RequestsDiffer
    <2>2. \A m \in Maintainer : pc'[m] = pc[m]
        BY <1>1, <1>13, <2>1 DEF Snapshot, Collect
    <2>3. UNCHANGED <<uploads, chosen>>
        BY <1>13 DEF Snapshot, Collect
    <2>4. CASE Snapshot
        <3>1. snapshot' = [data EXCEPT !.cut = @ \/ data.seeded < Seeds] /\ backup' = backup
            BY <2>4 DEF Snapshot
        <3>2. Sound(data)
            BY DEF TypeInv, DataInv
        <3>3. Sound(snapshot')
            BY <3>1, <3>2, SaidIs
        <3>. QED  BY <1>0, <2>2, <2>3, <3>1, <3>3, PicksUntouched
    <2>5. CASE Collect
        <3>. DEFINE clean == fresh[Backup] /\ ~ halfway
        <3>1. backup' = [kind |-> "kindred", data |-> snapshot, uploads |-> uploads,
                         clean |-> clean] /\ snapshot' = Blank
            BY <2>5 DEF Collect
        <3>2. clean \in BOOLEAN
            OBVIOUS
        <3>. HIDE DEF clean
        <3>3. Safe(backup') /\ Sound(snapshot')
            BY <1>0, <3>1, <3>2, CollectedIs, BlankIs
        <3>. QED  BY <1>0, <2>2, <2>3, <3>3, PicksUntouched
    <2>. QED  BY <1>13, <2>4, <2>5
<1>14. ASSUME NEW p \in Patcher, ReadSection(p) \/ Connect(p) \/ Commit(p) \/ NoCommit(p)
       PROVE  HoldInv'
    <2>1. UNCHANGED pc \/ \E l \in {"merged", "connected", "ended"} : Goto(p, l)
        BY <1>14 DEF ReadSection, Connect, Commit, NoCommit
    <2>2. p \in Request \ Maintainer /\ {"merged", "connected", "ended"} \subseteq Labels(p)
        BY RequestsDiffer DEF Request, Labels, RequestsDiffer
    <2>3. \A m \in Maintainer : pc'[m] = pc[m]
        BY <1>1, <2>1, <2>2
    <2>4. UNCHANGED <<uploads, backup, snapshot, chosen>>
        BY <1>14 DEF ReadSection, Connect, Commit, NoCommit
    <2>. QED  BY <1>0, <2>3, <2>4, PicksUntouched
<1>15. ASSUME NEW u \in Uploader, CheckCharacter(u) \/ Reject(u) \/ SaveFile(u) \/ SetAvatar(u)
       PROVE  HoldInv'
    <2>1. PICK l \in {"idle", "reading", "storing"} : Goto(u, l)
        BY <1>15 DEF CheckCharacter, Reject, SaveFile, SetAvatar
    <2>2. u \in Request \ Maintainer /\ {"idle", "reading", "storing"} \subseteq Labels(u)
        BY RequestsDiffer DEF Request, Labels, RequestsDiffer
    <2>3. \A m \in Maintainer : pc'[m] = pc[m]
        BY <1>1, <2>1, <2>2
    <2>4. UNCHANGED <<backup, snapshot, chosen>>
        BY <1>15 DEF CheckCharacter, Reject, SaveFile, SetAvatar
    <2>5. uploads' \in SUBSET (1..MaxId)
        <3>1. uploads' = uploads \/ (pc[u] = "reading" /\ uploads' = uploads \cup {target[u]})
            BY <1>15 DEF CheckCharacter, Reject, SaveFile, SetAvatar
        <3>2. pc[u] = "reading" => target[u] \in 1..MaxId
            BY MaintenanceAssumption DEF TypeInv, LocalInv, MaintenanceAssumption
        <3>3. CASE uploads' = uploads
            BY <1>0, <3>3
        <3>4. CASE pc[u] = "reading" /\ uploads' = uploads \cup {target[u]}
            BY <1>0, <3>2, <3>4
        <3>. QED  BY <3>1, <3>3, <3>4
    <2>. QED  BY <1>0, <2>3, <2>4, <2>5, PicksUntouched
<1>17. CASE Aside
    <2>1. UNCHANGED <<backup, snapshot, chosen, pc>>
        BY <1>17, AsideIs
    <2>2. uploads' \in SUBSET (1..MaxId)
        <3>1. ASSUME NEW m \in Maintainer, CopyUpload(m) PROVE uploads' \in SUBSET (1..MaxId)
            <4>1. chosen[m].kind = "kindred" /\ chosen[m] \in Archive
                BY <1>0, <3>1 DEF CopyUpload, HoldInv, Safe
            <4>2. chosen[m].uploads \in SUBSET (1..MaxId)
                BY <4>1, ArchiveIs
            <4>3. PICK i \in chosen[m].uploads : uploads' = uploads \cup {i}
                BY <3>1 DEF CopyUpload
            <4>. QED  BY <1>0, <4>2, <4>3
        <3>2. ASSUME NEW m \in Maintainer, RemoveUpload(m) PROVE uploads' \in SUBSET (1..MaxId)
            BY <1>0, <3>2 DEF RemoveUpload
        <3>3. CASE CreateCharacter \/ EditAvatar \/ DeleteCharacter
            <4>1. UNCHANGED uploads
                BY <3>3 DEF CreateCharacter, EditAvatar, DeleteCharacter
            <4>. QED  BY <1>0, <4>1
        <3>. QED  BY <1>17, <3>1, <3>2, <3>3 DEF Aside
    <2>. QED  BY <1>0, <2>1, <2>2, PicksUntouched
<1>. QED  BY <1>2, <1>3, <1>4, <1>7, <1>8, <1>9, <1>10, <1>11, <1>12, <1>13, <1>14, <1>15,
             <1>17 DEF Next, Aside

\* A step of no upload and no patch.
LEMMA LocalsKept ==
    ASSUME LocalInv, UNCHANGED <<base, target>>, \A u \in Uploader : pc'[u] = pc[u],
           file' \in {"absent", "blank", "torn", "newer", "complete"},
           ideal' \in Section, fresh' \in [Patcher \cup {Backup} -> BOOLEAN],
           lost' \in BOOLEAN, halfway' \in BOOLEAN, broken' \in BOOLEAN
    PROVE  LocalInv'
BY DEF LocalInv

\* Only an upload moves an upload.
LEMMA UploadsStay ==
    ASSUME PlaceInv, NEW r \in Request \ Uploader, NEW l \in Labels(r), Goto(r, l)
    PROVE  \A u \in Uploader : pc'[u] = pc[u]
<1>1. Uploader \subseteq Request
    BY DEF Request
<1>. QED  BY <1>1, Goes

\* The file, the locals and the history keep their types.
LEMMA LocalStep ==
    ASSUME TypeInv, [Next]_vars, PlaceInv'
    PROVE  LocalInv'
<1>. USE DEF disk, history, threads
<1>0. /\ PlaceInv /\ LocalInv /\ Sound(data)
      /\ Maintainer \subseteq Request /\ Uploader \subseteq Request /\ Patcher \subseteq Request
      /\ file \in {"absent", "blank", "torn", "newer", "complete"}
      /\ ideal \in Section /\ fresh \in [Patcher \cup {Backup} -> BOOLEAN]
      /\ lost \in BOOLEAN /\ halfway \in BOOLEAN /\ broken \in BOOLEAN
    BY DEF TypeInv, LocalInv, DataInv, Request
<1>1. [r \in Patcher \cup {Backup} |-> FALSE] \in [Patcher \cup {Backup} -> BOOLEAN]
    OBVIOUS
<1>2. CASE Boot \/ BootSeed \/ Serve \/ UNCHANGED vars
    <2>1. UNCHANGED <<base, target, pc, fresh, lost, halfway, broken>>
        BY <1>2 DEF Boot, BootSeed, Serve, vars
    <2>2. file' = file \/ file' = "complete"
        BY <1>2 DEF Boot, BootSeed, Serve, vars
    <2>3. ideal' = ideal \/ ideal' = Default
        BY <1>2 DEF Boot, BootSeed, Serve, vars
    <2>. QED  BY <1>0, <2>1, <2>2, <2>3, SectionsThere, LocalsKept
<1>10. CASE Aside
    BY <1>0, <1>10, AsideIs, LocalsKept
<1>3. CASE Crash
    <2>1. /\ base' = [p \in Patcher |-> Missing] /\ target' = [u \in Uploader |-> 0]
          /\ fresh' = [r \in Patcher \cup {Backup} |-> FALSE]
          /\ UNCHANGED <<file, ideal, lost>> /\ broken' = FALSE
          /\ pc' = [r \in Request |->
                       IF r \in Patcher /\ pc[r] # "idle" THEN "ended" ELSE "idle"]
        BY <1>3 DEF Crash, Stale
    <2>2. halfway' \in BOOLEAN
        BY <1>3 DEF Crash
    <2>3. \A u \in Uploader : pc'[u] = "idle" /\ target'[u] = 0
        BY <1>0, <2>1, RequestsDiffer DEF RequestsDiffer
    <2>4. \A p \in Patcher : base'[p] = Missing
        BY <2>1
    <2>5. base' = [p \in Patcher |-> base'[p]] /\ target' = [u \in Uploader |-> target'[u]]
        BY <2>1, <2>3, <2>4
    <2>6. 0 \in 0..MaxId
        BY MaintenanceAssumption DEF MaintenanceAssumption
    <2>. QED
        BY <1>0, <1>1, <2>1, <2>2, <2>3, <2>4, <2>5, <2>6, SectionsThere DEF LocalInv
<1>4. ASSUME NEW m \in Maintainer, NEW l \in Replacing \cup {"idle"}, Goto(m, l)
      PROVE  \A u \in Uploader : pc'[u] = pc[u]
    <2>1. m \in Request \ Uploader /\ l \in Labels(m)
        BY <1>0, RequestsDiffer DEF RequestsDiffer, Labels
    <2>. QED  BY <1>0, <1>4, <2>1, UploadsStay
<1>5. ASSUME NEW m \in Maintainer,
             \/ Begin(m) \/ Check(m) \/ Copy(m) \/ Copied(m) \/ ReplaceFails(m)
             \/ Schema(m) \/ Defaults(m) \/ Count(m) \/ Seed(m) \/ Clear(m) \/ Fill(m)
      PROVE  LocalInv'
    <2>1. UNCHANGED pc \/ \E l \in Replacing \cup {"idle"} : Goto(m, l)
        <3>1. CASE Begin(m)
            <4>1. Goto(m, "unlinking") \/ Goto(m, "checking")
                <5>1. PICK c \in {backup, Newer, Reset} :
                         Goto(m, IF c = Reset THEN "unlinking" ELSE "checking")
                    BY <3>1 DEF Begin
                <5>. QED  BY <5>1
            <4>. QED  BY <4>1 DEF Replacing
        <3>2. CASE Defaults(m)
            <4>1. Goto(m, "counting") \/ Goto(m, "clearing")
                BY <3>2 DEF Defaults
            <4>. QED  BY <4>1 DEF Replacing
        <3>3. CASE Check(m) \/ Copy(m) \/ Copied(m) \/ ReplaceFails(m) \/ Schema(m)
            BY <3>3 DEF Check, Copy, Copied, ReplaceFails, Schema, Replacing
        <3>4. CASE Count(m) \/ Seed(m) \/ Clear(m) \/ Fill(m)
            BY <3>4 DEF Count, Seed, Clear, Fill, Replacing
        <3>. QED  BY <1>5, <3>1, <3>2, <3>3, <3>4
    <2>2. \A u \in Uploader : pc'[u] = pc[u]
        BY <1>4, <2>1
    <2>3. UNCHANGED <<base, target, lost>>
        BY <1>5 DEF Begin, Check, Copy, Copied, ReplaceFails, Schema, Defaults, Count, Seed,
                    Clear, Fill
    <2>4. fresh' = fresh \/ fresh' = [r \in Patcher \cup {Backup} |-> FALSE]
        BY <1>5 DEF Begin, Check, Copy, Copied, ReplaceFails, Schema, Defaults, Count, Seed,
                    Clear, Fill, Stale
    <2>5. file' = file \/ file' \in {"torn", "newer", "complete"}
        BY <1>5 DEF Begin, Check, Copy, Copied, ReplaceFails, Schema, Defaults, Count, Seed,
                    Clear, Fill
    <2>6. ideal' \in Section
        <3>1. CASE Copied(m)
            <4>1. pc[m] = "copied"
                BY <3>1 DEF Copied
            <4>2. chosen[m].kind = "kindred" /\ Safe(chosen[m])
                BY <4>1 DEF TypeInv, HoldInv
            <4>3. data' = chosen[m].data /\ ideal' = WithDefaults(data').section
                BY <3>1, <4>2, ArchiveIs DEF Copied
            <4>4. Sound(data')
                BY <4>2, <4>3 DEF Safe, Sound, RoomForSeeds
            <4>5. Sound(WithDefaults(data'))
                BY <4>4, DefaultsIs
            <4>. QED  BY <4>3, <4>5, DataFields DEF Sound
        <3>2. CASE ~ Copied(m)
            <4>1. ideal' = ideal
                BY <1>5, <3>2 DEF Begin, Check, Copy, ReplaceFails, Schema, Defaults, Count, Seed,
                                  Clear, Fill
            <4>. QED  BY <1>0, <4>1
        <3>. QED  BY <3>1, <3>2
    <2>7. broken' \in BOOLEAN /\ halfway' \in BOOLEAN
        <3>1. CASE ReplaceFails(m)
            BY <3>1 DEF ReplaceFails
        <3>2. CASE Fill(m)
            BY <3>2 DEF Fill
        <3>3. CASE Clear(m)
            BY <1>0, <3>3 DEF Clear
        <3>4. CASE ~ ReplaceFails(m) /\ ~ Fill(m) /\ ~ Clear(m)
            <4>1. UNCHANGED <<broken, halfway>>
                BY <1>5, <3>4 DEF Begin, Check, Copy, Copied, Schema, Defaults, Count, Seed
            <4>. QED  BY <1>0, <4>1
        <3>. QED  BY <3>1, <3>2, <3>3, <3>4
    <2>8. fresh' \in [Patcher \cup {Backup} -> BOOLEAN] /\ lost' \in BOOLEAN
        BY <1>0, <1>1, <2>3, <2>4
    <2>9. file' \in {"absent", "blank", "torn", "newer", "complete"}
        BY <1>0, <2>5
    <2>. QED  BY <1>0, <2>2, <2>3, <2>6, <2>7, <2>8, <2>9, LocalsKept
<1>6. ASSUME NEW m \in Maintainer, Unlink(m) PROVE LocalInv'
    <2>1. /\ pc' = [r \in Request |->
                       IF r = m THEN IF chosen[m] = Reset THEN "initializing" ELSE "copying"
                       ELSE IF pc[r] = "connected" THEN "stranded" ELSE pc[r]]
          /\ base' = [p \in Patcher |-> IF pc[p] = "connected" THEN Missing ELSE base[p]]
          /\ file' = "absent" /\ ideal' = Default /\ lost' = FALSE
          /\ fresh' = [r \in Patcher \cup {Backup} |-> FALSE]
          /\ UNCHANGED <<target, halfway, broken>>
        BY <1>6 DEF Unlink, Stale
    <2>2. \A u \in Uploader : pc'[u] = pc[u]
        BY <1>0, <2>1, RequestsDiffer DEF PlaceInv, Labels, RequestsDiffer
    <2>3. \A p \in Patcher : base'[p] \in Section
        BY <1>0, <2>1, SectionsThere DEF LocalInv
    <2>4. base' = [p \in Patcher |-> base'[p]]
        BY <2>1
    <2>. QED  BY <1>0, <1>1, <2>1, <2>2, <2>3, <2>4, SectionsThere DEF LocalInv
<1>7. CASE Snapshot \/ Collect
    <2>1. Backup \in Request \ Uploader /\ "idle" \in Labels(Backup) /\ "copied" \in Labels(Backup)
        BY RequestsDiffer DEF Request, Labels, RequestsDiffer
    <2>2. \A u \in Uploader : pc'[u] = pc[u]
        BY <1>0, <1>7, <2>1, UploadsStay DEF Snapshot, Collect
    <2>3. UNCHANGED <<base, target, file, ideal, lost, halfway, broken>>
        BY <1>7 DEF Snapshot, Collect
    <2>4. fresh' = fresh \/ \E b \in BOOLEAN : fresh' = [fresh EXCEPT ![Backup] = b]
        <3>1. Quiet \in BOOLEAN
            BY DEF Quiet
        <3>2. Snapshot => fresh' = [fresh EXCEPT ![Backup] = Quiet]
            BY DEF Snapshot
        <3>3. Collect => fresh' = [fresh EXCEPT ![Backup] = FALSE]
            BY DEF Collect
        <3>. QED  BY <1>7, <3>1, <3>2, <3>3
    <2>5. fresh' \in [Patcher \cup {Backup} -> BOOLEAN]
        BY <1>0, <2>4
    <2>. QED  BY <1>0, <2>2, <2>3, <2>5, LocalsKept
<1>8. ASSUME NEW p \in Patcher, ReadSection(p) \/ Connect(p) \/ Commit(p) \/ NoCommit(p)
      PROVE  LocalInv'
    <2>1. UNCHANGED pc \/ \E l \in {"merged", "connected", "ended"} : Goto(p, l)
        BY <1>8 DEF ReadSection, Connect, Commit, NoCommit
    <2>2. p \in Request \ Uploader /\ {"merged", "connected", "ended"} \subseteq Labels(p)
        BY <1>0, RequestsDiffer DEF Labels, RequestsDiffer
    <2>3. \A u \in Uploader : pc'[u] = pc[u]
        BY <1>0, <2>1, <2>2, UploadsStay
    <2>4. UNCHANGED <<target, halfway, broken>>
        BY <1>8 DEF ReadSection, Connect, Commit, NoCommit
    <2>5. base' = base \/ \E s \in Section : base' = [base EXCEPT ![p] = s]
        <3>1. data.section \in Section /\ Missing \in Section
            BY <1>0, DataFields, SectionsThere DEF Sound
        <3>. QED  BY <1>8, <3>1 DEF ReadSection, Connect, Commit, NoCommit
    <2>6. base = [q \in Patcher |-> base[q]] /\ \A q \in Patcher : base[q] \in Section
        BY <1>0 DEF LocalInv
    <2>7. base' = [q \in Patcher |-> base'[q]] /\ \A q \in Patcher : base'[q] \in Section
        BY <2>5, <2>6
    <2>8. fresh' \in [Patcher \cup {Backup} -> BOOLEAN]
        <3>1. CASE Commit(p)
            <4>1. fresh' = [r \in DOMAIN fresh |-> fresh[r] /\ r = Backup]
                BY <3>1 DEF Commit
            <4>2. DOMAIN fresh = Patcher \cup {Backup}
                BY <1>0
            <4>. QED  BY <4>1, <4>2
        <3>2. CASE ~ Commit(p)
            <4>1. \/ fresh' = fresh \/ fresh' = [fresh EXCEPT ![p] = TRUE]
                  \/ fresh' = [fresh EXCEPT ![p] = FALSE]
                BY <1>8, <3>2 DEF ReadSection, Connect, NoCommit
            <4>. QED  BY <1>0, <4>1
        <3>. QED  BY <3>1, <3>2
    <2>9. file' = file \/ file' = "blank"
        BY <1>8 DEF ReadSection, Connect, Commit, NoCommit, Touch
    <2>10. lost' \in BOOLEAN
        <3>1. CASE Commit(p)
            BY <3>1 DEF Commit
        <3>2. CASE ~ Commit(p)
            BY <1>0, <1>8, <3>2 DEF ReadSection, Connect, NoCommit
        <3>. QED  BY <3>1, <3>2
    <2>11. ideal' \in Section
        <3>1. ideal' \in {ideal, Default, Merge(ideal, Patch[p])}
            BY <1>8 DEF ReadSection, Connect, Commit, NoCommit
        <3>. QED  BY <1>0, <3>1, SectionsThere, MergeType
    <2>12. file' \in {"absent", "blank", "torn", "newer", "complete"}
        BY <1>0, <2>9
    <2>13. halfway' \in BOOLEAN /\ broken' \in BOOLEAN
        BY <1>0, <2>4
    <2>. QED  BY <1>0, <2>3, <2>4, <2>7, <2>8, <2>10, <2>11, <2>12, <2>13 DEF LocalInv
<1>9. ASSUME NEW u \in Uploader, CheckCharacter(u) \/ Reject(u) \/ SaveFile(u) \/ SetAvatar(u)
      PROVE  LocalInv'
    <2>1. UNCHANGED <<file, base, ideal, fresh, lost, halfway, broken>>
        BY <1>9 DEF CheckCharacter, Reject, SaveFile, SetAvatar
    <2>2. target = [v \in Uploader |-> target[v]] /\ u \in Request
        BY <1>0 DEF LocalInv
    <2>3. PICK l \in {"idle", "reading", "storing"}, i \in 0..MaxId :
             /\ Goto(u, l) /\ target' = [target EXCEPT ![u] = i]
             /\ l # "idle" => i # 0
        <3>1. CASE CheckCharacter(u)
            <4>1. PICK i \in data.people : target' = [target EXCEPT ![u] = i]
                BY <3>1 DEF CheckCharacter
            <4>2. i \in 1..MaxId
                BY <1>0, DataFields DEF Sound
            <4>3. i \in 0..MaxId /\ i # 0
                BY <4>2, MaintenanceAssumption DEF MaintenanceAssumption
            <4>. QED  BY <3>1, <4>1, <4>3 DEF CheckCharacter
        <3>2. CASE Reject(u) \/ SetAvatar(u)
            <4>1. 0 \in 0..MaxId
                BY MaintenanceAssumption DEF MaintenanceAssumption
            <4>. QED  BY <3>2, <4>1 DEF Reject, SetAvatar
        <3>3. CASE SaveFile(u)
            <4>1. target[u] \in 0..MaxId /\ target[u] # 0
                BY <1>0, <3>3 DEF SaveFile, LocalInv
            <4>2. target' = [target EXCEPT ![u] = target[u]]
                BY <2>2, <3>3 DEF SaveFile
            <4>. QED  BY <3>3, <4>1, <4>2 DEF SaveFile
        <3>. QED  BY <1>9, <3>1, <3>2, <3>3
    <2>4. l \in Labels(u)
        BY RequestsDiffer DEF Labels, RequestsDiffer
    <2>5. \A v \in Uploader : pc'[v] = IF v = u THEN l ELSE pc[v]
        BY <1>0, <2>2, <2>3, <2>4, Goes
    <2>6. \A v \in Uploader : target'[v] = IF v = u THEN i ELSE target[v]
        BY <2>2, <2>3
    <2>7. target' = [v \in Uploader |-> target'[v]]
        BY <2>2, <2>3
    <2>. QED  BY <1>0, <2>1, <2>3, <2>5, <2>6, <2>7 DEF LocalInv
<1>. QED  BY <1>2, <1>3, <1>5, <1>6, <1>7, <1>8, <1>9, <1>10 DEF Next, Aside

\* The process is installed on an empty disk.
LEMMA TypeInvInit == Init => TypeInv
<1>. SUFFICES ASSUME Init PROVE TypeInv
    OBVIOUS
<1>. USE DEF Init
<1>0. /\ Maintainer \subseteq Request /\ Patcher \subseteq Request
      /\ Uploader \subseteq Request /\ Backup \in Request
      /\ 0 \in 0..MaxId /\ Seeds \in Nat /\ MaxId \in Nat
    BY MaintenanceAssumption DEF Request, MaintenanceAssumption
<1>1. \A r \in Request : pc[r] = "idle"
    OBVIOUS
<1>2. PlaceInv
    <2>1. Exclusive
        BY <1>0, <1>1 DEF Exclusive, Busy, Replacing
    <2>2. \A r \in Request : pc[r] \in Labels(r)
        BY <1>1 DEF Labels
    <2>. QED  BY <1>1, <2>1, <2>2 DEF PlaceInv
<1>3. DataInv
    BY <1>0, BlankIs DEF DataInv
<1>4. HoldInv
    BY <1>0, <1>1, BlankIs, ArchiveIs DEF HoldInv
<1>5. LocalInv
    BY <1>0, <1>1, SectionsThere DEF LocalInv
<1>. QED  BY <1>2, <1>3, <1>4, <1>5 DEF TypeInv

\* Every step keeps the types, the places and what is held.
LEMMA TypeStep ==
    ASSUME TypeInv, [Next]_vars
    PROVE  TypeInv'
<1>1. PlaceInv'
    BY PlaceStep DEF TypeInv, DataInv
<1>. QED  BY <1>1, DataStep, HoldStep, LocalStep DEF TypeInv

\* Files, database, archives and requests keep their types; every avatar is of a
\* character that there is, ids are given in order and within bounds, also to the
\* seeds of a reset or a start, and never are two requests between the file steps
\* of a restore, a reset or an upload, whatever fails or dies on the way.
THEOREM TypeCorrect == Spec => []TypeOK
<1>1. Init => TypeInv
    BY TypeInvInit
<1>2. TypeInv /\ [Next]_vars => TypeInv'
    BY TypeStep
<1>3. TypeInv => TypeOK
    BY TypeInvIsTypeOK
<1>. QED  BY <1>1, <1>2, <1>3, PTL DEF Spec

-----------------------------------------------------------------------------
(* The file of the database *)

\* A maintenance request that has not yet touched the files.
Early == {"idle", "checking", "unlinking"}

\* The old database is unlinked and the new one is not there yet.
Between(m) ==
    \/ pc[m] \in {"copying", "copied"}
    \/ pc[m] = "initializing" /\ chosen[m] = Reset

\* There is a database unless a maintenance request is about to put one in place, or
\* could not for want of space; without its tables the database has no content.
FileInv ==
    /\ file \in {"absent", "blank", "torn", "complete"}
    /\ file # "complete" => data = Blank
    /\ process = "seeding" => file = "complete"
    /\ process = "serving" /\ ~ broken => file = "complete" \/ \E m \in Maintainer : Between(m)
    /\ \A m \in Maintainer :
          /\ pc[m] = "copied" => file = "torn"
          /\ Between(m) /\ pc[m] # "copied" => file \in {"absent", "blank"}
          /\ pc[m] \notin Early /\ ~ Between(m) => file = "complete"

\* While one request has the files in hand, the others are idle.
LEMMA OthersIdle ==
    ASSUME PlaceInv, NEW m \in Maintainer, pc[m] \in Replacing \/ LoopFreeFor(m)
    PROVE  \A n \in Maintainer : n # m => pc[n] = "idle"
BY DEF PlaceInv, Exclusive, Busy, LoopFreeFor, Labels, Request

\* A step of one maintenance request, the others being idle.
LEMMA FileMoved ==
    ASSUME NEW m \in Maintainer, \A n \in Maintainer : n # m => pc'[n] = "idle",
           file' \in {"absent", "blank", "torn", "complete"},
           file' # "complete" => data' = Blank,
           process' = "serving",
           ~ broken' => file' = "complete" \/ Between(m)',
           pc'[m] = "copied" => file' = "torn",
           Between(m)' /\ pc'[m] # "copied" => file' \in {"absent", "blank"},
           pc'[m] \notin Early /\ ~ Between(m)' => file' = "complete"
    PROVE  FileInv'
<1>1. \A n \in Maintainer : n # m => ~ Between(n)' /\ pc'[n] \in Early
    BY DEF Between, Early
<1>. QED  BY <1>1 DEF FileInv

\* A step of no maintenance request: at most an empty file appears.
LEMMA FileTouched ==
    ASSUME FileInv, UNCHANGED <<chosen, process, broken>>,
           \A m \in Maintainer : pc'[m] = pc[m],
           file' = file \/ (file = "absent" /\ file' = "blank"),
           data' = data \/ file = "complete" \/ (data = Blank => data' = Blank)
    PROVE  FileInv'
<1>1. \A m \in Maintainer : Between(m)' = Between(m)
    BY DEF Between
<1>2. /\ file' \in {"absent", "blank", "torn", "complete"}
      /\ file' = "complete" <=> file = "complete"
      /\ file' = "torn" <=> file = "torn"
      /\ file' \in {"absent", "blank"} <=> file \in {"absent", "blank"}
    BY DEF FileInv
<1>. QED  BY <1>1, <1>2 DEF FileInv

\* Whatever requests do, there is a database, or one on its way, or the disk was full.
LEMMA FileStep ==
    ASSUME TypeInv, TypeInv', FileInv, [Next]_vars
    PROVE  FileInv'
<1>. USE DEF disk, history, threads
<1>0. /\ PlaceInv /\ PlaceInv' /\ HoldInv
      /\ Maintainer \subseteq Request /\ Patcher \subseteq Request /\ Uploader \subseteq Request
      /\ file \in {"absent", "blank", "torn", "complete"} /\ file # "newer"
    BY DEF TypeInv, Request, FileInv
<1>1. CASE Boot
    <2>1. file' = "complete" /\ process' = "seeding" /\ process = "down" /\ UNCHANGED pc
        BY <1>1 DEF Boot
    <2>2. \A m \in Maintainer : pc[m] = "idle"
        BY <1>0, <2>1, RequestsDiffer DEF PlaceInv, RequestsDiffer
    <2>. QED  BY <2>1, <2>2 DEF FileInv, Between, Early
<1>2. CASE Serve \/ BootSeed
    <2>1. process = "seeding" /\ UNCHANGED <<file, pc>> /\ process' \in {"seeding", "serving"}
        BY <1>2 DEF Serve, BootSeed
    <2>2. \A m \in Maintainer : pc[m] = "idle"
        BY <1>0, <2>1, RequestsDiffer DEF PlaceInv, RequestsDiffer
    <2>3. file = "complete"
        BY <2>1 DEF FileInv
    <2>. QED  BY <2>1, <2>2, <2>3 DEF FileInv, Between, Early
\* Seeding that ends has a database.
<1>19. ASSUME data' = Interrupted(data), unseeded' = 0, file # "complete"
       PROVE  data' = Blank
    <2>1. process # "seeding" /\ \A m \in Maintainer : pc[m] # "seeding"
        BY <1>19 DEF FileInv, Early, Between
    <2>2. unseeded = 0
        BY <1>0, <2>1 DEF PlaceInv
    <2>3. data = Blank
        BY <1>19 DEF FileInv
    <2>. QED  BY <1>19, <2>2, <2>3, InterruptedData DEF TypeInv
<1>3. CASE Crash
    <2>1. /\ process' = "down" /\ file' = file
          /\ pc' = [r \in Request |->
                       IF r \in Patcher /\ pc[r] # "idle" THEN "ended" ELSE "idle"]
        BY <1>3 DEF Crash
    <2>2. \A m \in Maintainer : pc'[m] = "idle"
        BY <1>0, <2>1, RequestsDiffer DEF RequestsDiffer
    <2>3. file # "complete" => data' = Blank
        BY <1>3, <1>19 DEF Crash
    <2>. QED  BY <1>0, <2>1, <2>2, <2>3 DEF FileInv, Between, Early
<1>4. ASSUME NEW m \in Maintainer, NEW l \in Replacing \cup {"idle"}, Goto(m, l),
             pc[m] \in Replacing \/ LoopFreeFor(m)
      PROVE  pc'[m] = l /\ \A n \in Maintainer : n # m => pc'[n] = "idle"
    <2>1. l \in Labels(m) /\ m \in Request
        BY <1>0 DEF Labels
    <2>. QED  BY <1>0, <1>4, <2>1, Goes, OthersIdle
<1>5. ASSUME NEW m \in Maintainer, pc[m] \in Replacing PROVE process = "serving"
    BY <1>0, <1>5, InHand DEF Replacing
<1>6. ASSUME NEW m \in Maintainer, Begin(m) PROVE FileInv'
    <2>1. PICK l \in {"unlinking", "checking"} : Goto(m, l)
        <3>1. PICK c \in {backup, Newer, Reset} :
                 Goto(m, IF c = Reset THEN "unlinking" ELSE "checking")
            BY <1>6 DEF Begin
        <3>. QED  BY <3>1
    <2>2. /\ UNCHANGED <<file, data, process, broken>> /\ process = "serving"
          /\ LoopFreeFor(m) /\ pc[m] = "idle"
        BY <1>6 DEF Begin
    <2>3. pc'[m] \in {"unlinking", "checking"} /\ \A n \in Maintainer : n # m => pc'[n] = "idle"
        BY <1>4, <2>1, <2>2 DEF Replacing
    <2>4. \A n \in Maintainer : ~ Between(n)
        BY <1>0, <2>2, OthersIdle DEF Between
    <2>. QED  BY <2>2, <2>3, <2>4, FileMoved DEF FileInv, Between, Early
<1>7. ASSUME NEW m \in Maintainer, Check(m) PROVE FileInv'
    <2>1. UNCHANGED <<file, data, process, broken>> /\ pc[m] = "checking"
        BY <1>7 DEF Check
    <2>2. Goto(m, "unlinking") \/ Goto(m, "idle")
        BY <1>7 DEF Check
    <2>3. pc'[m] \in {"unlinking", "idle"} /\ \A n \in Maintainer : n # m => pc'[n] = "idle"
        BY <1>4, <2>1, <2>2 DEF Replacing
    <2>4. process = "serving" /\ \A n \in Maintainer : ~ Between(n)
        BY <1>0, <1>5, <2>1, OthersIdle DEF Between, Replacing
    <2>. QED  BY <2>1, <2>3, <2>4, FileMoved DEF FileInv, Between, Early
<1>8. ASSUME NEW m \in Maintainer, Unlink(m) PROVE FileInv'
    <2>1. /\ pc' = [r \in Request |->
                       IF r = m THEN IF chosen[m] = Reset THEN "initializing" ELSE "copying"
                       ELSE IF pc[r] = "connected" THEN "stranded" ELSE pc[r]]
          /\ file' = "absent" /\ data' = Blank /\ UNCHANGED <<process, chosen>>
          /\ pc[m] = "unlinking"
        BY <1>8 DEF Unlink
    <2>2. \A n \in Maintainer : n # m => pc[n] = "idle"
        BY <1>0, <2>1, OthersIdle DEF Replacing
    <2>3. /\ pc'[m] = IF chosen[m] = Reset THEN "initializing" ELSE "copying"
          /\ \A n \in Maintainer : n # m => pc'[n] = "idle"
        BY <1>0, <2>1, <2>2
    <2>4. process = "serving"
        BY <1>5, <2>1 DEF Replacing
    <2>. QED  BY <2>1, <2>3, <2>4, FileMoved DEF Between, Early
<1>9. ASSUME NEW m \in Maintainer, Copy(m) PROVE FileInv'
    <2>1. /\ file' = "torn" /\ Goto(m, "copied") /\ UNCHANGED <<data, process>>
          /\ pc[m] = "copying"
        BY <1>9 DEF Copy
    <2>2. pc'[m] = "copied" /\ \A n \in Maintainer : n # m => pc'[n] = "idle"
        BY <1>4, <2>1 DEF Replacing
    <2>3. process = "serving" /\ file # "complete"
        BY <1>5, <2>1 DEF FileInv, Between, Replacing
    <2>. QED  BY <2>1, <2>2, <2>3, FileMoved DEF FileInv, Between, Early
<1>10. ASSUME NEW m \in Maintainer, Copied(m) PROVE FileInv'
    <2>1. Goto(m, "initializing") /\ UNCHANGED <<process, chosen>> /\ pc[m] = "copied"
        BY <1>10 DEF Copied
    <2>2. chosen[m].kind = "kindred" /\ chosen[m] # Reset /\ chosen[m] # Newer
        BY <1>0, <2>1, ArchiveIs DEF HoldInv
    <2>3. file' = "complete"
        BY <1>10, <2>2 DEF Copied
    <2>4. pc'[m] = "initializing" /\ \A n \in Maintainer : n # m => pc'[n] = "idle"
        BY <1>4, <2>1 DEF Replacing
    <2>5. process = "serving"
        BY <1>5, <2>1 DEF Replacing
    <2>. QED  BY <2>1, <2>2, <2>3, <2>4, <2>5, FileMoved DEF Between
<1>11. ASSUME NEW m \in Maintainer, ReplaceFails(m) PROVE FileInv'
    <2>1. /\ Goto(m, "idle") /\ UNCHANGED <<process, file>> /\ pc[m] \in Replacing
          /\ data' = Interrupted(data) /\ unseeded' = 0
          /\ \/ broken'
             \/ ~ broken /\ pc[m] \in {"checking", "unlinking", "clearing", "filling"}
        BY <1>0, <1>11 DEF ReplaceFails
    <2>2. pc'[m] = "idle" /\ \A n \in Maintainer : n # m => pc'[n] = "idle"
        BY <1>4, <2>1
    <2>3. process = "serving" /\ \A n \in Maintainer : n # m => ~ Between(n)
        BY <1>0, <1>5, <2>1, OthersIdle DEF Between
    <2>4. file # "complete" => data' = Blank
        BY <1>19, <2>1
    <2>5. ~ broken' => file = "complete"
        <3>1. CASE ~ broken /\ pc[m] \in {"checking", "unlinking", "clearing", "filling"}
            <4>1. ~ Between(m)
                BY <3>1 DEF Between
            <4>. QED  BY <2>3, <3>1, <4>1 DEF FileInv
        <3>. QED  BY <2>1, <3>1
    <2>. QED  BY <1>0, <2>1, <2>2, <2>3, <2>4, <2>5, FileMoved DEF Between, Early
\* The steps on a database that is complete, or is by then.
<1>12. ASSUME NEW m \in Maintainer, Schema(m) \/ Defaults(m) \/ Count(m) \/ Clear(m) \/ Fill(m)
       PROVE  FileInv'
    <2>1. process' = process /\ pc[m] \in Replacing
        BY <1>12 DEF Schema, Defaults, Count, Clear, Fill, Replacing
    <2>2. file' = "complete"
        <3>1. CASE Schema(m)
            BY <3>1 DEF Schema
        <3>2. CASE Defaults(m) \/ Count(m) \/ Clear(m) \/ Fill(m)
            <4>1. file' = file /\ pc[m] \notin Early /\ ~ Between(m)
                BY <3>2 DEF Defaults, Count, Clear, Fill, Between, Early
            <4>. QED  BY <4>1 DEF FileInv
        <3>. QED  BY <1>12, <3>1, <3>2
    <2>3. PICK l \in {"defaults", "counting", "seeding", "clearing", "filling", "idle"} : Goto(m, l)
        BY <1>12 DEF Schema, Defaults, Count, Clear, Fill
    <2>4. /\ pc'[m] \in {"defaults", "counting", "seeding", "clearing", "filling", "idle"}
          /\ \A n \in Maintainer : n # m => pc'[n] = "idle"
        BY <1>4, <2>1, <2>3 DEF Replacing
    <2>. QED  BY <1>5, <2>1, <2>2, <2>4, FileMoved DEF Between
<1>13. ASSUME NEW m \in Maintainer, Seed(m) PROVE FileInv'
    <2>1. process' = process /\ pc[m] = "seeding" /\ UNCHANGED <<file, chosen>>
        BY <1>13 DEF Seed
    <2>2. file = "complete"
        BY <2>1 DEF FileInv, Between, Early
    <2>3. pc'[m] \in {"seeding", "clearing"} /\ \A n \in Maintainer : n # m => pc'[n] = "idle"
        <3>1. CASE UNCHANGED pc
            BY <1>0, <2>1, <3>1, OthersIdle DEF Replacing
        <3>2. CASE Goto(m, "clearing")
            BY <1>4, <2>1, <3>2 DEF Replacing
        <3>. QED  BY <1>13, <3>1, <3>2 DEF Seed
    <2>. QED  BY <1>5, <2>1, <2>2, <2>3, FileMoved DEF Between, Replacing
<1>14. ASSUME NEW r \in Request \ Maintainer, NEW l \in Labels(r), Goto(r, l)
       PROVE  \A m \in Maintainer : pc'[m] = pc[m]
    BY <1>0, <1>14, Goes
<1>15. CASE Snapshot \/ Collect
    <2>1. Backup \in Request \ Maintainer /\ "idle" \in Labels(Backup) /\ "copied" \in Labels(Backup)
        BY RequestsDiffer DEF Request, Labels, RequestsDiffer
    <2>2. \A m \in Maintainer : pc'[m] = pc[m]
        BY <1>14, <1>15, <2>1 DEF Snapshot, Collect
    <2>3. UNCHANGED <<chosen, process, broken, file, data>>
        BY <1>15 DEF Snapshot, Collect
    <2>. QED  BY <2>2, <2>3, FileTouched
<1>16. ASSUME NEW p \in Patcher, ReadSection(p) \/ Connect(p) \/ Commit(p) \/ NoCommit(p)
       PROVE  FileInv'
    <2>1. UNCHANGED pc \/ \E l \in {"merged", "connected", "ended"} : Goto(p, l)
        BY <1>16 DEF ReadSection, Connect, Commit, NoCommit
    <2>2. p \in Request \ Maintainer /\ {"merged", "connected", "ended"} \subseteq Labels(p)
        BY <1>0, RequestsDiffer DEF Labels, RequestsDiffer
    <2>3. \A m \in Maintainer : pc'[m] = pc[m]
        BY <1>14, <2>1, <2>2
    <2>4. UNCHANGED <<chosen, process, broken>>
        BY <1>16 DEF ReadSection, Connect, Commit, NoCommit
    <2>5. file' = file \/ (file = "absent" /\ file' = "blank")
        BY <1>16 DEF ReadSection, Connect, Commit, NoCommit, Touch
    <2>6. data' = data \/ file = "complete"
        BY <1>16 DEF ReadSection, Connect, Commit, NoCommit
    <2>. QED  BY <2>3, <2>4, <2>5, <2>6, FileTouched
<1>17. ASSUME NEW u \in Uploader, CheckCharacter(u) \/ Reject(u) \/ SaveFile(u) \/ SetAvatar(u)
       PROVE  FileInv'
    <2>1. PICK l \in {"idle", "reading", "storing"} : Goto(u, l)
        BY <1>17 DEF CheckCharacter, Reject, SaveFile, SetAvatar
    <2>2. u \in Request \ Maintainer /\ {"idle", "reading", "storing"} \subseteq Labels(u)
        BY <1>0, RequestsDiffer DEF Labels, RequestsDiffer
    <2>3. \A m \in Maintainer : pc'[m] = pc[m]
        BY <1>14, <2>1, <2>2
    <2>4. UNCHANGED <<chosen, process, broken, file>>
        BY <1>17 DEF CheckCharacter, Reject, SaveFile, SetAvatar
    <2>5. data = Blank => data' = Blank
        BY <1>17, BlankStays DEF CheckCharacter, Reject, SaveFile, SetAvatar
    <2>. QED  BY <2>3, <2>4, <2>5, FileTouched
<1>18. CASE Aside
    <2>1. UNCHANGED <<chosen, process, broken, file, pc>>
        BY <1>18, AsideIs
    <2>2. file = "complete" \/ (data = Blank => data' = Blank)
        BY <1>18, AsideData DEF TypeInv
    <2>. QED  BY <2>1, <2>2, FileTouched
<1>20. CASE UNCHANGED vars
    BY <1>20, FileTouched DEF vars
<1>. QED  BY <1>1, <1>2, <1>3, <1>6, <1>7, <1>8, <1>9, <1>10, <1>11, <1>12, <1>13, <1>15,
             <1>16, <1>17, <1>18, <1>20 DEF Next, Aside

-----------------------------------------------------------------------------
(* The seeds *)

\* A reset that has a database, and not yet its seeds.
Sowing(m) == chosen[m] = Reset /\ pc[m] \in {"defaults", "counting", "seeding"}

\* A request that has put in place all that its database is to have.
Sown(m) == pc[m] \notin Early /\ ~ Between(m) /\ ~ Sowing(m)

\* Every copy of the database there is, is seeded.
CopyInv ==
    /\ backup.kind = "kindred" => Seeded(backup.data)
    /\ \A m \in Maintainer : chosen[m].kind = "kindred" => Seeded(chosen[m].data)
    /\ pc[Backup] = "copied" => Seeded(snapshot)

\* The database is seeded, but for what a start or a reset is about to create, or one
\* that failed has not; and then it is seeded again, since it has no character at all.
SeedInv ==
    /\ unseeded > 0 => data.seeded + unseeded = Seeds
    /\ unseeded \in {0, Seeds} => data.people = {} \/ Seeded(data)
    /\ process = "seeding" => unseeded > 0 \/ Seeded(data)
    /\ process = "serving" /\ file = "complete" /\ ~ broken =>
           Seeded(data) \/ \E m \in Maintainer : Sowing(m)
    /\ \A m \in Maintainer :
          /\ pc[m] = "seeding" => unseeded > 0 \/ Seeded(data)
          /\ Sown(m) => Seeded(data)

\* The numbers of a database and of the seeds.
LEMMA SeedTypes ==
    ASSUME TypeInv
    PROVE  /\ Seeds \in Nat \ {0} /\ unseeded \in 0..Seeds /\ unseeded \in Nat
           /\ data \in Data /\ data.last \in Nat /\ data.cut \in BOOLEAN
           /\ data.seeded \in 0..Seeds /\ data.seeded \in Nat
           /\ Sound(data) /\ DataInv
<1>1. Seeds \in Nat \ {0} /\ unseeded \in 0..Seeds /\ Sound(data) /\ DataInv
    BY MaintenanceAssumption DEF MaintenanceAssumption, TypeInv, DataInv
<1>. QED  BY <1>1, DataFields DEF Sound

\* A step of no maintenance request that creates no seed, and adds no character
\* without saying so.
LEMMA SeedUntouched ==
    ASSUME SeedInv, UNCHANGED <<chosen, process, unseeded, broken>>,
           \A m \in Maintainer : pc'[m] = pc[m],
           file' = "complete" => file = "complete",
           data'.seeded = data.seeded, data.cut => data'.cut,
           data'.people \subseteq data.people \/ Seeded(data')
    PROVE  SeedInv'
<1>1. \A m \in Maintainer : Sowing(m)' = Sowing(m) /\ Sown(m)' = Sown(m)
    BY DEF Sowing, Sown, Between
<1>2. Seeded(data) => Seeded(data)'
    BY DEF Seeded
<1>3. data.people = {} => data'.people = {} \/ Seeded(data)'
    BY DEF Seeded
<1>. QED  BY <1>1, <1>2, <1>3 DEF SeedInv

\* A step of one maintenance request, the others being idle.
LEMMA SeedMoved ==
    ASSUME NEW m \in Maintainer, \A n \in Maintainer : n # m => pc'[n] = "idle",
           process' = "serving",
           unseeded' > 0 => data'.seeded + unseeded' = Seeds,
           unseeded' \in {0, Seeds} => data'.people = {} \/ Seeded(data)',
           file' = "complete" /\ ~ broken' => Seeded(data)' \/ Sowing(m)',
           pc'[m] = "seeding" => unseeded' > 0 \/ Seeded(data)',
           Sown(m)' => Seeded(data)'
    PROVE  SeedInv'
<1>1. \A n \in Maintainer : n # m => pc'[n] # "seeding" /\ ~ Sown(n)'
    BY DEF Sown, Early
<1>. QED  BY <1>1 DEF SeedInv

\* Copies of the database are made when it is seeded, or said to be cut off.
LEMMA CopyStep ==
    ASSUME TypeInv, CopyInv, [Next]_vars
    PROVE  CopyInv'
<1>. USE DEF disk, history, threads
<1>0. /\ PlaceInv /\ HoldInv /\ Backup \in Request
      /\ Maintainer \subseteq Request /\ Patcher \subseteq Request /\ Uploader \subseteq Request
    BY DEF TypeInv, Request
\* What a step may choose is the archive, or has no database.
<1>1. ASSUME UNCHANGED <<backup, snapshot>>, pc'[Backup] = "copied" => pc[Backup] = "copied",
             \A m \in Maintainer : chosen'[m] \in {chosen[m], backup, Newer, Reset, None}
      PROVE  CopyInv'
    BY <1>1, ArchiveIs DEF CopyInv, Seeded
<1>2. CASE Snapshot
    <2>1. /\ snapshot' = [data EXCEPT !.cut = @ \/ data.seeded < Seeds]
          /\ UNCHANGED <<backup, chosen>>
        BY <1>2 DEF Snapshot
    <2>2. Seeded(snapshot)'
        <3>1. Seeded(snapshot')
            BY <2>1, SeedTypes, SaidIs
        <3>. QED  BY <3>1 DEF Seeded
    <2>. QED  BY <2>1, <2>2 DEF CopyInv, Seeded
<1>3. CASE Collect
    <2>1. /\ pc[Backup] = "copied" /\ backup'.data = snapshot
          /\ UNCHANGED chosen /\ Goto(Backup, "idle")
        BY <1>3 DEF Collect
    <2>2. "idle" \in Labels(Backup)
        BY RequestsDiffer DEF Labels, RequestsDiffer
    <2>3. pc'[Backup] = "idle"
        BY <1>0, <2>1, <2>2, Goes
    <2>4. Seeded(backup.data)'
        BY <2>1 DEF CopyInv, Seeded
    <2>. QED  BY <2>1, <2>3, <2>4 DEF CopyInv, Seeded
<1>4. ASSUME NEW r \in Request \ {Backup}, NEW l \in Labels(r), Goto(r, l)
      PROVE  pc'[Backup] = pc[Backup]
    BY <1>0, <1>4, Goes
<1>5. ASSUME NEW m \in Maintainer,
             \/ Begin(m) \/ Check(m) \/ Copy(m) \/ Copied(m) \/ ReplaceFails(m)
             \/ Schema(m) \/ Defaults(m) \/ Count(m) \/ Seed(m) \/ Clear(m) \/ Fill(m)
      PROVE  CopyInv'
    <2>1. UNCHANGED pc \/ \E l \in Replacing \cup {"idle"} : Goto(m, l)
        <3>1. CASE Begin(m)
            <4>1. Goto(m, "unlinking") \/ Goto(m, "checking")
                <5>1. PICK c \in {backup, Newer, Reset} :
                         Goto(m, IF c = Reset THEN "unlinking" ELSE "checking")
                    BY <3>1 DEF Begin
                <5>. QED  BY <5>1
            <4>. QED  BY <4>1 DEF Replacing
        <3>2. CASE Defaults(m)
            <4>1. Goto(m, "counting") \/ Goto(m, "clearing")
                BY <3>2 DEF Defaults
            <4>. QED  BY <4>1 DEF Replacing
        <3>3. CASE Check(m) \/ Copy(m) \/ Copied(m) \/ ReplaceFails(m) \/ Schema(m)
            BY <3>3 DEF Check, Copy, Copied, ReplaceFails, Schema, Replacing
        <3>4. CASE Count(m) \/ Seed(m) \/ Clear(m) \/ Fill(m)
            BY <3>4 DEF Count, Seed, Clear, Fill, Replacing
        <3>. QED  BY <1>5, <3>1, <3>2, <3>3, <3>4
    <2>2. m \in Request \ {Backup} /\ Labels(m) = Replacing \cup {"idle"}
        BY <1>0, RequestsDiffer DEF RequestsDiffer, Labels
    <2>3. pc'[Backup] = pc[Backup]
        BY <1>4, <2>1, <2>2
    <2>4. chosen = [n \in Maintainer |-> chosen[n]]
        BY <1>0 DEF HoldInv
    <2>5. UNCHANGED chosen \/ \E c \in {backup, Newer, Reset, None} : chosen' = [chosen EXCEPT ![m] = c]
        BY <1>5 DEF Begin, Check, Copy, Copied, ReplaceFails, Schema, Defaults, Count, Seed,
                    Clear, Fill, Unchosen
    <2>6. \A n \in Maintainer : chosen'[n] \in {chosen[n], backup, Newer, Reset, None}
        BY <2>4, <2>5
    <2>7. UNCHANGED <<backup, snapshot>>
        BY <1>5 DEF Begin, Check, Copy, Copied, ReplaceFails, Schema, Defaults, Count, Seed,
                    Clear, Fill
    <2>. QED  BY <1>1, <2>3, <2>6, <2>7
<1>6. ASSUME NEW m \in Maintainer, Unlink(m) PROVE CopyInv'
    <2>1. UNCHANGED <<backup, snapshot, chosen>>
        BY <1>6 DEF Unlink
    <2>2. pc' = [r \in Request |->
                    IF r = m THEN IF chosen[m] = Reset THEN "initializing" ELSE "copying"
                    ELSE IF pc[r] = "connected" THEN "stranded" ELSE pc[r]]
        BY <1>6 DEF Unlink
    <2>3. pc'[Backup] = "copied" => pc[Backup] = "copied"
        BY <1>0, <2>2
    <2>. QED  BY <1>1, <2>1, <2>3
<1>7. CASE Boot \/ BootSeed \/ Serve \/ Aside \/ UNCHANGED vars
    <2>1. UNCHANGED <<backup, snapshot, chosen, pc>>
        BY <1>7, AsideIs DEF Boot, BootSeed, Serve, vars
    <2>. QED  BY <1>1, <2>1
<1>8. CASE Crash
    <2>1. /\ chosen' = [m \in Maintainer |-> None] /\ UNCHANGED backup
          /\ pc' = [r \in Request |->
                       IF r \in Patcher /\ pc[r] # "idle" THEN "ended" ELSE "idle"]
        BY <1>8 DEF Crash
    <2>2. pc'[Backup] # "copied" /\ \A m \in Maintainer : chosen'[m] = None
        BY <1>0, <2>1
    <2>. QED  BY <2>1, <2>2, ArchiveIs DEF CopyInv, Seeded
<1>9. ASSUME NEW p \in Patcher, ReadSection(p) \/ Connect(p) \/ Commit(p) \/ NoCommit(p)
      PROVE  CopyInv'
    <2>1. UNCHANGED pc \/ \E l \in {"merged", "connected", "ended"} : Goto(p, l)
        BY <1>9 DEF ReadSection, Connect, Commit, NoCommit
    <2>2. p \in Request \ {Backup} /\ {"merged", "connected", "ended"} \subseteq Labels(p)
        BY <1>0, RequestsDiffer DEF Labels, RequestsDiffer
    <2>3. pc'[Backup] = pc[Backup]
        BY <1>4, <2>1, <2>2
    <2>4. UNCHANGED <<backup, snapshot, chosen>>
        BY <1>9 DEF ReadSection, Connect, Commit, NoCommit
    <2>. QED  BY <1>1, <2>3, <2>4
<1>10. ASSUME NEW u \in Uploader, CheckCharacter(u) \/ Reject(u) \/ SaveFile(u) \/ SetAvatar(u)
       PROVE  CopyInv'
    <2>1. PICK l \in {"idle", "reading", "storing"} : Goto(u, l)
        BY <1>10 DEF CheckCharacter, Reject, SaveFile, SetAvatar
    <2>2. u \in Request \ {Backup} /\ {"idle", "reading", "storing"} \subseteq Labels(u)
        BY <1>0, RequestsDiffer DEF Labels, RequestsDiffer
    <2>3. pc'[Backup] = pc[Backup]
        BY <1>4, <2>1, <2>2
    <2>4. UNCHANGED <<backup, snapshot, chosen>>
        BY <1>10 DEF CheckCharacter, Reject, SaveFile, SetAvatar
    <2>. QED  BY <1>1, <2>3, <2>4
<1>. QED  BY <1>2, <1>3, <1>5, <1>6, <1>7, <1>8, <1>9, <1>10 DEF Next, Aside

\* A maintenance request takes a step and the others are idle.
LEMMA GoesAlone ==
    ASSUME PlaceInv, NEW m \in Maintainer, NEW l \in Replacing \cup {"idle"}, Goto(m, l),
           pc[m] \in Replacing \/ LoopFreeFor(m)
    PROVE  pc'[m] = l /\ \A n \in Maintainer : n # m => pc[n] = "idle" /\ pc'[n] = "idle"
<1>1. l \in Labels(m) /\ m \in Request /\ Maintainer \subseteq Request
    BY DEF Labels, Request
<1>. QED  BY <1>1, Goes, OthersIdle

\* The requests in threads and the uploads move no maintenance request.
LEMMA MaintainersStay ==
    ASSUME PlaceInv,
           \/ Snapshot \/ Collect \/ Aside \/ UNCHANGED vars
           \/ \E p \in Patcher : ReadSection(p) \/ Connect(p) \/ Commit(p) \/ NoCommit(p)
           \/ \E u \in Uploader : CheckCharacter(u) \/ Reject(u) \/ SaveFile(u) \/ SetAvatar(u)
    PROVE  \A m \in Maintainer : pc'[m] = pc[m]
<1>0. Maintainer \subseteq Request
    BY DEF Request
<1>1. ASSUME NEW r \in Request \ Maintainer, NEW l \in Labels(r), Goto(r, l)
      PROVE  \A m \in Maintainer : pc'[m] = pc[m]
    BY <1>0, <1>1, Goes
<1>2. CASE Snapshot \/ Collect
    <2>1. Backup \in Request \ Maintainer /\ "idle" \in Labels(Backup) /\ "copied" \in Labels(Backup)
        BY RequestsDiffer DEF Request, Labels, RequestsDiffer
    <2>. QED  BY <1>1, <1>2, <2>1 DEF Snapshot, Collect
<1>3. ASSUME NEW p \in Patcher, ReadSection(p) \/ Connect(p) \/ Commit(p) \/ NoCommit(p)
      PROVE  \A m \in Maintainer : pc'[m] = pc[m]
    <2>1. UNCHANGED pc \/ \E l \in {"merged", "connected", "ended"} : Goto(p, l)
        BY <1>3 DEF ReadSection, Connect, Commit, NoCommit
    <2>2. p \in Request \ Maintainer /\ {"merged", "connected", "ended"} \subseteq Labels(p)
        BY RequestsDiffer DEF Request, Labels, RequestsDiffer
    <2>. QED  BY <1>1, <2>1, <2>2
<1>4. ASSUME NEW u \in Uploader, CheckCharacter(u) \/ Reject(u) \/ SaveFile(u) \/ SetAvatar(u)
      PROVE  \A m \in Maintainer : pc'[m] = pc[m]
    <2>1. PICK l \in {"idle", "reading", "storing"} : Goto(u, l)
        BY <1>4 DEF CheckCharacter, Reject, SaveFile, SetAvatar
    <2>2. u \in Request \ Maintainer /\ {"idle", "reading", "storing"} \subseteq Labels(u)
        BY RequestsDiffer DEF Request, Labels, RequestsDiffer
    <2>. QED  BY <1>1, <2>1, <2>2
<1>5. CASE Aside \/ UNCHANGED vars
    BY <1>5, AsideIs DEF vars
<1>. QED  BY <1>2, <1>3, <1>4, <1>5

\* While no request is between a new database and its seeds, it is seeded.
LEMMA SownThen ==
    ASSUME SeedInv, NEW m \in Maintainer, \A n \in Maintainer : n # m => pc[n] = "idle",
           ~ Sowing(m), process = "serving", file = "complete", ~ broken
    PROVE  Seeded(data)
BY DEF SeedInv, Sowing

\* Seeding that ends has created all the seeds, or none, or says so.
LEMMA CutOffSeeds ==
    ASSUME TypeInv, SeedInv, data' = Interrupted(data), unseeded' = 0
    PROVE  /\ data'.people = {} \/ Seeded(data)'
           /\ Seeded(data) => Seeded(data)'
<1>1. unseeded \in {0, Seeds} \/ unseeded \in 1..(Seeds - 1)
    BY SeedTypes
<1>2. /\ data'.people = data.people /\ data'.seeded = data.seeded
      /\ data'.cut <=> data.cut \/ unseeded \in 1..(Seeds - 1)
    BY SeedTypes, InterruptedData
<1>3. Seeded(data) => Seeded(data)'
    BY <1>2 DEF Seeded
<1>4. CASE unseeded \in {0, Seeds}
    BY <1>2, <1>3, <1>4 DEF SeedInv
<1>5. CASE unseeded \in 1..(Seeds - 1)
    BY <1>2, <1>3, <1>5 DEF Seeded
<1>. QED  BY <1>1, <1>3, <1>4, <1>5

\* One seed more.
LEMMA SeedOnce ==
    ASSUME TypeInv, SeedInv, unseeded > 0, data' = WithSeed(data), unseeded' = unseeded - 1
    PROVE  /\ data'.seeded + unseeded' = Seeds /\ unseeded' # Seeds
           /\ unseeded' > 0 \/ Seeded(data)'
<1>1. /\ Seeds \in Nat /\ unseeded \in Nat /\ unseeded \in 0..Seeds /\ data.seeded \in Nat
      /\ data.seeded + unseeded = Seeds
    BY SeedTypes DEF SeedInv
<1>2. data'.seeded = data.seeded + 1
    BY SeedTypes, SeedData
<1>3. data'.seeded + unseeded' = Seeds /\ unseeded' # Seeds
    BY <1>1, <1>2
<1>4. unseeded' = 0 => data'.seeded = Seeds
    BY <1>1, <1>2
<1>. QED  BY <1>1, <1>3, <1>4 DEF Seeded

\* The start of the process: the steps before it serves, and its end.
LEMMA SeedProcess ==
    ASSUME TypeInv, FileInv, SeedInv, Boot \/ BootSeed \/ Serve \/ Crash
    PROVE  SeedInv'
<1>0. /\ PlaceInv /\ Maintainer \subseteq Request
      /\ Seeds \in Nat \ {0} /\ unseeded \in 0..Seeds /\ unseeded \in Nat
      /\ data.seeded \in Nat /\ Sound(data)
    BY SeedTypes DEF TypeInv, Request
<1>1. ASSUME process # "serving", UNCHANGED pc
      PROVE  \A m \in Maintainer : pc'[m] = "idle"
    BY <1>0, <1>1, RequestsDiffer DEF PlaceInv, RequestsDiffer
<1>6. ASSUME \A m \in Maintainer : pc'[m] \in {"idle", "ended"}
      PROVE  \A m \in Maintainer : pc'[m] # "seeding" /\ (pc'[m] = "idle" => ~ Sown(m)')
    BY <1>6 DEF Sown, Early
<1>2. CASE Boot
    <2>. DEFINE d == WithDefaults(data)
    <2>1. /\ process = "down" /\ process' = "seeding" /\ UNCHANGED pc
          /\ data' = Counted(d) /\ unseeded' = SeedsFor(data')
        BY <1>2 DEF Boot
    <2>2. /\ Sound(d) /\ d.people = data.people /\ d.seeded = data.seeded /\ d.cut = data.cut
        BY <1>0, DefaultsIs
    <2>. HIDE DEF d
    <2>3. \A m \in Maintainer : pc'[m] = "idle"
        BY <1>1, <2>1
    <2>4. unseeded' = SeedsFor(d)
        BY <2>1, <2>2, CountedIs DEF SeedsFor
    <2>5. unseeded = 0
        BY <1>0, <2>1, <2>3 DEF PlaceInv
    <2>6. /\ data'.people = d.people
          /\ d.people = {} => unseeded' = Seeds /\ data'.seeded = 0
          /\ d.people # {} => unseeded' = 0 /\ data'.seeded = d.seeded /\ data'.cut = d.cut
        BY <2>1, <2>2, <2>4, CountedData
    <2>7. data.people # {} => Seeded(data)'
        BY <2>2, <2>5, <2>6 DEF SeedInv, Seeded
    <2>8. /\ unseeded' > 0 => data'.seeded + unseeded' = Seeds
          /\ data'.people = {} \/ Seeded(data)'
          /\ unseeded' > 0 \/ Seeded(data)'
        BY <1>0, <2>2, <2>6, <2>7
    <2>. QED  BY <1>6, <2>1, <2>3, <2>8 DEF SeedInv
<1>3. CASE BootSeed
    <2>1. /\ process = "seeding" /\ UNCHANGED <<pc, process>>
          /\ data' = WithSeed(data) /\ unseeded > 0 /\ unseeded' = unseeded - 1
        BY <1>3 DEF BootSeed
    <2>2. /\ data'.seeded + unseeded' = Seeds /\ unseeded' # Seeds
          /\ unseeded' > 0 \/ Seeded(data)'
        BY <2>1, SeedOnce
    <2>3. \A m \in Maintainer : pc'[m] = "idle"
        BY <1>1, <2>1
    <2>4. unseeded' \in {0, Seeds} => Seeded(data)'
        BY <2>2
    <2>. QED  BY <1>6, <2>1, <2>2, <2>3, <2>4 DEF SeedInv
<1>4. CASE Serve
    <2>1. /\ process = "seeding" /\ process' = "serving" /\ unseeded = 0
          /\ UNCHANGED <<pc, data, unseeded>>
        BY <1>4 DEF Serve, disk
    <2>2. \A m \in Maintainer : pc'[m] = "idle"
        BY <1>1, <2>1
    <2>3. Seeded(data)'
        BY <1>0, <2>1 DEF SeedInv, Seeded
    <2>. QED  BY <1>0, <1>6, <2>1, <2>2, <2>3 DEF SeedInv
<1>5. CASE Crash
    <2>1. /\ process # "down" /\ process' = "down" /\ unseeded' = 0
          /\ data' = Interrupted(data)
          /\ pc' = [r \in Request |->
                       IF r \in Patcher /\ pc[r] # "idle" THEN "ended" ELSE "idle"]
        BY <1>5 DEF Crash
    <2>2. data'.people = {} \/ Seeded(data)'
        BY <2>1, CutOffSeeds
    <2>3. \A m \in Maintainer : pc'[m] = "idle"
        BY <1>0, <2>1, RequestsDiffer DEF RequestsDiffer
    <2>4. ~ (unseeded' > 0)
        BY <2>1
    <2>. QED  BY <1>6, <2>1, <2>2, <2>3, <2>4 DEF SeedInv
<1>. QED  BY <1>2, <1>3, <1>4, <1>5

\* The steps of a maintenance request: from the moment there is no database until
\* its seeds are there, the request is between the two.
LEMMA SeedMaintenance ==
    ASSUME TypeInv, FileInv, SeedInv, CopyInv, NEW m \in Maintainer,
           \/ Begin(m) \/ Check(m) \/ Unlink(m)
           \/ Copy(m) \/ Copied(m) \/ ReplaceFails(m) \/ Schema(m)
           \/ Defaults(m) \/ Count(m) \/ Seed(m) \/ Clear(m) \/ Fill(m)
    PROVE  SeedInv'
<1>. USE DEF disk, history
<1>0. /\ PlaceInv /\ HoldInv /\ m \in Request /\ Maintainer \subseteq Request
      /\ Seeds \in Nat \ {0} /\ unseeded \in 0..Seeds /\ unseeded \in Nat
      /\ data.seeded \in Nat /\ Sound(data) /\ chosen = [n \in Maintainer |-> chosen[n]]
    BY SeedTypes DEF TypeInv, HoldInv, Request
\* A step on a database that is seeded and stays it, or on one of no interest.
<1>1. ASSUME NEW l \in Replacing \cup {"idle"}, Goto(m, l), pc[m] \in Replacing \/ LoopFreeFor(m),
             UNCHANGED <<data, unseeded, process>>, process = "serving", l # "seeding",
             Sown(m)' => Seeded(data),
             file' = "complete" /\ ~ broken' => Seeded(data) \/ Sowing(m)'
      PROVE  SeedInv'
    <2>1. pc'[m] = l /\ \A n \in Maintainer : n # m => pc[n] = "idle" /\ pc'[n] = "idle"
        BY <1>0, <1>1, GoesAlone
    <2>2. Seeded(data)' <=> Seeded(data)
        BY <1>1 DEF Seeded
    <2>. QED  BY <1>1, <2>1, <2>2, SeedMoved DEF SeedInv
<1>2. pc[m] \in Replacing => process = "serving"
    BY <1>0, InHand DEF Replacing
<1>3. pc[m] \in Replacing \/ LoopFreeFor(m) => \A n \in Maintainer : n # m => pc[n] = "idle"
    BY <1>0, OthersIdle
<1>4. ASSUME process = "serving", file = "complete", ~ broken, ~ Sowing(m),
             pc[m] \in Replacing \/ LoopFreeFor(m)
      PROVE  Seeded(data)
    BY <1>3, <1>4, SownThen
<1>5. CASE Begin(m)
    <2>1. PICK l \in {"unlinking", "checking"} : Goto(m, l)
        <3>1. PICK c \in {backup, Newer, Reset} :
                 Goto(m, IF c = Reset THEN "unlinking" ELSE "checking")
            BY <1>5 DEF Begin
        <3>. QED  BY <3>1
    <2>2. /\ UNCHANGED <<file, data, unseeded, process, broken>> /\ process = "serving"
          /\ LoopFreeFor(m) /\ ~ Sowing(m)
        BY <1>5 DEF Begin, Sowing
    <2>3. pc'[m] = l
        BY <1>0, <2>1, <2>2, GoesAlone DEF Replacing
    <2>4. ~ Sown(m)'
        BY <2>3 DEF Sown, Early
    <2>. QED  BY <1>1, <1>4, <2>1, <2>2, <2>4 DEF Replacing
<1>6. CASE Check(m)
    <2>1. PICK l \in {"unlinking", "idle"} : Goto(m, l)
        BY <1>6 DEF Check
    <2>2. /\ UNCHANGED <<file, data, unseeded, process, broken>> /\ ~ Sowing(m)
          /\ pc[m] \in Replacing
        BY <1>6 DEF Check, Sowing, Replacing
    <2>3. pc'[m] = l
        BY <1>0, <2>1, <2>2, GoesAlone DEF Replacing
    <2>4. ~ Sown(m)'
        BY <2>3 DEF Sown, Early
    <2>. QED  BY <1>1, <1>2, <1>4, <2>1, <2>2, <2>4 DEF Replacing
<1>7. CASE Copy(m)
    <2>1. /\ UNCHANGED <<data, unseeded, process>> /\ file' = "torn" /\ Goto(m, "copied")
          /\ pc[m] \in Replacing
        BY <1>7 DEF Copy, Replacing
    <2>2. pc'[m] = "copied"
        BY <1>0, <2>1, GoesAlone DEF Replacing
    <2>3. ~ Sown(m)'
        BY <2>2 DEF Sown, Between
    <2>. QED  BY <1>1, <1>2, <2>1, <2>3 DEF Replacing
<1>8. CASE ReplaceFails(m)
    <2>1. /\ Goto(m, "idle") /\ UNCHANGED <<process, file>> /\ pc[m] \in Replacing
          /\ data' = Interrupted(data) /\ unseeded' = 0
          /\ \/ broken'
             \/ ~ broken /\ pc[m] \in {"checking", "unlinking", "clearing", "filling"}
        BY <1>8 DEF ReplaceFails, FileInv
    <2>2. pc'[m] = "idle" /\ \A n \in Maintainer : n # m => pc'[n] = "idle"
        BY <1>0, <2>1, GoesAlone
    <2>3. data'.people = {} \/ Seeded(data)'
        BY <2>1, CutOffSeeds
    <2>4. file' = "complete" /\ ~ broken' => Seeded(data)'
        <3>1. ~ broken' => ~ broken /\ ~ Sowing(m)
            BY <2>1 DEF Sowing
        <3>2. file' = "complete" /\ ~ broken' => Seeded(data)
            BY <1>2, <1>4, <2>1, <3>1
        <3>. QED  BY <2>1, <3>2, CutOffSeeds
    <2>5. ~ Sown(m)' /\ ~ (unseeded' > 0)
        BY <2>1, <2>2 DEF Sown, Early
    <2>. QED  BY <1>2, <2>1, <2>2, <2>3, <2>4, <2>5, SeedMoved
<1>9. CASE Unlink(m)
    <2>1. /\ pc' = [r \in Request |->
                       IF r = m THEN IF chosen[m] = Reset THEN "initializing" ELSE "copying"
                       ELSE IF pc[r] = "connected" THEN "stranded" ELSE pc[r]]
          /\ pc[m] = "unlinking" /\ UNCHANGED <<process, unseeded, chosen>>
          /\ file' = "absent" /\ data' = Blank
        BY <1>9 DEF Unlink
    <2>2. \A n \in Maintainer : n # m => pc[n] = "idle"
        BY <1>0, <2>1, OthersIdle DEF Replacing
    <2>3. /\ pc'[m] = IF chosen[m] = Reset THEN "initializing" ELSE "copying"
          /\ \A n \in Maintainer : n # m => pc'[n] = "idle"
        BY <1>0, <2>1, <2>2
    <2>4. process = "serving" /\ unseeded = 0
        BY <1>0, <1>2, <2>1, NoSeedsElsewhere DEF Replacing
    <2>5. ~ Sown(m)' /\ pc'[m] # "seeding"
        BY <2>1, <2>3 DEF Sown, Between
    <2>. QED  BY <2>1, <2>3, <2>4, <2>5, BlankIs, SeedMoved
<1>10. CASE Copied(m)
    <2>1. Goto(m, "initializing") /\ UNCHANGED <<process, unseeded, chosen>> /\ pc[m] = "copied"
        BY <1>10 DEF Copied
    <2>2. chosen[m].kind = "kindred" /\ chosen[m] # Reset
        BY <1>0, <2>1, ArchiveIs DEF HoldInv
    <2>3. data' = chosen[m].data
        BY <1>10, <2>2, ArchiveIs DEF Copied
    <2>4. Seeded(data)'
        BY <2>2, <2>3 DEF CopyInv, Seeded
    <2>5. unseeded' = 0
        BY <1>0, <2>1, NoSeedsElsewhere DEF Replacing
    <2>6. pc'[m] = "initializing" /\ \A n \in Maintainer : n # m => pc'[n] = "idle"
        BY <1>0, <2>1, GoesAlone DEF Replacing
    <2>. QED  BY <1>2, <2>1, <2>4, <2>5, <2>6, SeedMoved DEF Replacing
<1>11. CASE Schema(m)
    <2>1. /\ Goto(m, "defaults") /\ UNCHANGED <<process, unseeded, chosen, data, broken>>
          /\ pc[m] = "initializing" /\ pc[m] \in Replacing
        BY <1>11 DEF Schema, Replacing
    <2>2. pc'[m] = "defaults"
        BY <1>0, <2>1, GoesAlone DEF Replacing
    <2>3. chosen[m] = Reset => Sowing(m)' /\ ~ Sown(m)'
        BY <2>1, <2>2 DEF Sowing, Sown
    <2>4. chosen[m] # Reset => Seeded(data)
        <3>1. chosen[m] # Reset => Sown(m)
            BY <2>1 DEF Sown, Sowing, Between, Early
        <3>. QED  BY <3>1 DEF SeedInv
    <2>. QED  BY <1>1, <1>2, <2>1, <2>3, <2>4 DEF Replacing
<1>12. CASE Defaults(m)
    <2>1. /\ UNCHANGED <<process, unseeded, chosen, file, broken>> /\ pc[m] = "defaults"
          /\ data' = WithDefaults(data) /\ pc[m] \in Replacing
        BY <1>12 DEF Defaults, Replacing
    <2>2. data'.people = data.people /\ data'.seeded = data.seeded /\ data'.cut = data.cut
        BY <1>0, <2>1, DefaultsIs
    <2>3. PICK l \in {"counting", "clearing"} :
             Goto(m, l) /\ (chosen[m] = Reset <=> l = "counting")
        <3>1. Goto(m, IF chosen[m] = Reset THEN "counting" ELSE "clearing")
            BY <1>12 DEF Defaults
        <3>. QED  BY <3>1
    <2>4. pc'[m] = l /\ \A n \in Maintainer : n # m => pc'[n] = "idle"
        BY <1>0, <2>1, <2>3, GoesAlone DEF Replacing
    <2>5. Seeded(data)' <=> Seeded(data)
        BY <2>2 DEF Seeded
    <2>6. chosen[m] = Reset => Sowing(m)' /\ ~ Sown(m)'
        BY <2>1, <2>3, <2>4 DEF Sowing, Sown
    <2>7. chosen[m] # Reset => Seeded(data)
        <3>1. chosen[m] # Reset => Sown(m)
            BY <2>1 DEF Sown, Sowing, Between, Early
        <3>. QED  BY <3>1 DEF SeedInv
    <2>8. unseeded = 0 /\ process = "serving"
        BY <1>0, <1>2, <2>1, NoSeedsElsewhere
    <2>9. unseeded' \in {0, Seeds} => data'.people = {} \/ Seeded(data)'
        BY <2>2, <2>5, <2>8 DEF SeedInv
    <2>. QED  BY <2>1, <2>4, <2>5, <2>6, <2>7, <2>8, <2>9, SeedMoved
<1>13. CASE Count(m)
    <2>1. /\ UNCHANGED <<process, chosen>> /\ pc[m] = "counting" /\ pc[m] \in Replacing
          /\ unseeded' = SeedsFor(data) /\ data' = Counted(data) /\ Goto(m, "seeding")
        BY <1>13 DEF Count, Replacing
    <2>2. pc'[m] = "seeding" /\ \A n \in Maintainer : n # m => pc'[n] = "idle"
        BY <1>0, <2>1, GoesAlone DEF Replacing
    <2>3. chosen[m] = Reset
        BY <1>0, <2>1 DEF HoldInv
    <2>4. Sowing(m)' /\ ~ Sown(m)'
        BY <2>1, <2>2, <2>3 DEF Sowing, Sown
    <2>5. unseeded = 0
        BY <1>0, <2>1, NoSeedsElsewhere
    <2>6. /\ data'.people = data.people
          /\ data.people = {} => unseeded' = Seeds /\ data'.seeded = 0
          /\ data.people # {} => unseeded' = 0 /\ data'.seeded = data.seeded
                                 /\ data'.cut = data.cut
        BY <1>0, <2>1, CountedData
    <2>7. data.people # {} => Seeded(data)'
        BY <2>5, <2>6 DEF SeedInv, Seeded
    <2>8. /\ unseeded' > 0 => data'.seeded + unseeded' = Seeds
          /\ data'.people = {} \/ Seeded(data)'
          /\ unseeded' > 0 \/ Seeded(data)'
        <3>1. Seeds \in Nat \ {0}
            BY <1>0, SeedTypes
        <3>2. CASE data.people = {}
            BY <2>6, <3>1, <3>2
        <3>3. CASE data.people # {}
            BY <2>6, <2>7, <3>3
        <3>. QED  BY <3>2, <3>3
    <2>9. process' = "serving"
        BY <1>2, <2>1
    <2>. QED  BY <2>2, <2>4, <2>8, <2>9, SeedMoved
<1>14. CASE Seed(m)
    <2>1. /\ UNCHANGED <<process, chosen, file, broken>> /\ pc[m] = "seeding"
          /\ pc[m] \in Replacing /\ chosen[m] = Reset /\ process = "serving"
        BY <1>0, <1>2, <1>14 DEF Seed, HoldInv, Replacing
    <2>2. CASE data' = WithSeed(data) /\ unseeded > 0 /\ unseeded' = unseeded - 1
               /\ UNCHANGED pc
        <3>1. /\ data'.seeded + unseeded' = Seeds /\ unseeded' # Seeds
              /\ unseeded' > 0 \/ Seeded(data)'
            BY <2>2, SeedOnce
        <3>2. \A n \in Maintainer : n # m => pc'[n] = "idle"
            BY <1>3, <2>1, <2>2
        <3>3. Sowing(m)' /\ ~ Sown(m)'
            BY <2>1, <2>2 DEF Sowing, Sown
        <3>4. unseeded' \in {0, Seeds} => Seeded(data)'
            BY <3>1
        <3>. QED  BY <2>1, <3>1, <3>2, <3>3, <3>4, SeedMoved
    <2>3. CASE Goto(m, "clearing") /\ unseeded = 0 /\ UNCHANGED <<data, unseeded>>
        <3>1. Seeded(data)
            BY <2>1, <2>3 DEF SeedInv
        <3>. QED  BY <1>1, <2>1, <2>3, <3>1 DEF Replacing
    <2>. QED  BY <1>14, <2>2, <2>3 DEF Seed
<1>15. CASE Clear(m) \/ Fill(m)
    <2>1. PICK l \in {"idle", "filling"} : Goto(m, l)
        BY <1>15 DEF Clear, Fill
    <2>2. /\ UNCHANGED <<data, unseeded, process>> /\ pc[m] \in Replacing
          /\ pc[m] \in {"clearing", "filling"}
        BY <1>15 DEF Clear, Fill, Replacing
    <2>3. Seeded(data)
        <3>1. Sown(m)
            BY <2>2 DEF Sown, Sowing, Between, Early
        <3>. QED  BY <3>1 DEF SeedInv
    <2>. QED  BY <1>1, <1>2, <2>1, <2>2, <2>3 DEF Replacing
<1>. QED  BY <1>5, <1>6, <1>7, <1>8, <1>9, <1>10, <1>11, <1>12, <1>13, <1>14, <1>15

\* The database is seeded, whatever requests, starts and crashes meet.
LEMMA SeedStep ==
    ASSUME TypeInv, FileInv, SeedInv, CopyInv, [Next]_vars
    PROVE  SeedInv'
<1>. USE DEF disk, history, threads
<1>0. PlaceInv /\ DataInv /\ Sound(data)
    BY DEF TypeInv, DataInv
<1>1. CASE Boot \/ BootSeed \/ Serve \/ Crash
    BY <1>1, SeedProcess
<1>2. ASSUME NEW m \in Maintainer,
             \/ Begin(m) \/ Check(m) \/ Unlink(m)
             \/ Copy(m) \/ Copied(m) \/ ReplaceFails(m) \/ Schema(m)
             \/ Defaults(m) \/ Count(m) \/ Seed(m) \/ Clear(m) \/ Fill(m)
      PROVE  SeedInv'
    BY <1>2, SeedMaintenance
<1>3. CASE Snapshot \/ Collect \/ UNCHANGED vars
    <2>1. UNCHANGED <<chosen, process, unseeded, broken, file, data>>
        BY <1>3 DEF Snapshot, Collect, vars
    <2>. QED  BY <1>0, <1>3, <2>1, MaintainersStay, SeedUntouched
<1>4. ASSUME NEW p \in Patcher, ReadSection(p) \/ Connect(p) \/ Commit(p) \/ NoCommit(p)
      PROVE  SeedInv'
    <2>1. UNCHANGED <<chosen, process, unseeded, broken>>
        BY <1>4 DEF ReadSection, Connect, Commit, NoCommit
    <2>2. file' = "complete" => file = "complete"
        BY <1>4 DEF ReadSection, Connect, Commit, NoCommit, Touch
    <2>3. data'.seeded = data.seeded /\ data'.cut = data.cut /\ data'.people = data.people
        <3>1. CASE Commit(p)
            <4>1. data' = [data EXCEPT !.section = Merge(base[p], Patch[p])]
                BY <3>1 DEF Commit
            <4>2. Merge(base[p], Patch[p]) \in Section
                BY MergeType DEF TypeInv, LocalInv
            <4>. QED  BY <1>0, <4>1, <4>2, SectionSetIs
        <3>2. CASE ~ Commit(p)
            BY <1>4, <3>2 DEF ReadSection, Connect, NoCommit
        <3>. QED  BY <3>1, <3>2
    <2>. QED  BY <1>0, <1>4, <2>1, <2>2, <2>3, MaintainersStay, SeedUntouched
<1>5. ASSUME NEW u \in Uploader, CheckCharacter(u) \/ Reject(u) \/ SaveFile(u) \/ SetAvatar(u)
      PROVE  SeedInv'
    <2>1. UNCHANGED <<chosen, process, unseeded, broken, file>>
        BY <1>5 DEF CheckCharacter, Reject, SaveFile, SetAvatar
    <2>2. data' = data \/ data' = [data EXCEPT !.avatars = @ \cup ({target[u]} \cap data.people)]
        BY <1>5 DEF CheckCharacter, Reject, SaveFile, SetAvatar
    <2>3. data'.seeded = data.seeded /\ data'.cut = data.cut /\ data'.people = data.people
        <3>1. CASE data' = [data EXCEPT !.avatars = @ \cup ({target[u]} \cap data.people)]
            BY <1>0, <3>1, AvatarIs
        <3>. QED  BY <2>2, <3>1
    <2>. QED  BY <1>0, <1>5, <2>1, <2>3, MaintainersStay, SeedUntouched
<1>6. CASE Aside
    <2>1. UNCHANGED <<chosen, process, unseeded, broken, file>>
        BY <1>6, AsideIs
    <2>2. /\ data'.seeded = data.seeded /\ (data.cut => data'.cut)
          /\ data'.people \subseteq data.people \/ Seeded(data')
        BY <1>0, <1>6, AsideData
    <2>. QED  BY <1>0, <1>6, <2>1, <2>2, MaintainersStay, SeedUntouched
<1>. QED  BY <1>1, <1>2, <1>3, <1>4, <1>5, <1>6 DEF Next, Aside

\* The process is installed without a database.
LEMMA WholeInit == Init => TypeInv /\ FileInv /\ SeedInv /\ CopyInv
<1>. SUFFICES ASSUME Init PROVE TypeInv /\ FileInv /\ SeedInv /\ CopyInv
    OBVIOUS
<1>1. TypeInv
    BY TypeInvInit
<1>2. \A r \in Request : pc[r] = "idle"
    BY DEF Init
<1>3. FileInv
    BY <1>2 DEF Init, FileInv, Between, Early, Request
<1>4. SeedInv
    <2>1. /\ unseeded = 0 /\ data.people = {} /\ process = "down"
          /\ \A m \in Maintainer : pc[m] = "idle"
        BY <1>2, BlankIs DEF Init, Request
    <2>. QED  BY <2>1 DEF SeedInv, Sown, Early
<1>5. CopyInv
    BY <1>2, ArchiveIs DEF Init, CopyInv, Request
<1>. QED  BY <1>1, <1>3, <1>4, <1>5

\* A request between the two is replacing the database.
LEMMA SettledThen ==
    ASSUME FileInv, SeedInv, Settled
    PROVE  file = "complete" /\ Seeded(data)
<1>1. \A m \in Maintainer : ~ Between(m) /\ ~ Sowing(m)
    BY DEF Settled, Quiet, Between, Sowing, Replacing
<1>. QED  BY <1>1 DEF FileInv, SeedInv, Settled

\* A process that serves, is not replacing its database and whose last replacement did
\* not fail has a complete one, with every seed of seed_characters in it unless seeding
\* had to stop for good, whatever was refused, failed or died before.
THEOREM CompleteAndSeeded == Spec => []CompleteWhileServing
<1>. DEFINE Inv == TypeInv /\ FileInv /\ SeedInv /\ CopyInv
<1>1. Init => Inv
    BY WholeInit
<1>2. Inv /\ [Next]_vars => Inv'
    BY TypeStep, FileStep, SeedStep, CopyStep
<1>3. Inv => CompleteWhileServing
    BY SettledThen DEF CompleteWhileServing, Seeded
<1>. QED  BY <1>1, <1>2, <1>3, PTL DEF Spec

-----------------------------------------------------------------------------
(* The avatars *)

\* What a step of a maintenance request leaves alone: the other requests of the loop
\* are at no step with files, and neither they nor the backup move.
LEMMA MaintenanceMoves ==
    ASSUME PlaceInv, NEW m \in Maintainer,
           \/ Begin(m) \/ Check(m) \/ Unlink(m)
           \/ Copy(m) \/ Copied(m) \/ ReplaceFails(m) \/ Schema(m)
           \/ Defaults(m) \/ Count(m) \/ Seed(m) \/ Clear(m) \/ Fill(m)
    PROVE  /\ process = "serving" /\ process' = process
           /\ \A n \in Maintainer : n # m => pc[n] = "idle" /\ pc'[n] = "idle"
           /\ \A u \in Uploader : pc[u] # "storing" /\ pc'[u] = pc[u]
           /\ pc'[Backup] = pc[Backup]
<1>. USE DEF disk, history
<1>0. /\ m \in Request \ Uploader /\ m # Backup /\ Labels(m) = Replacing \cup {"idle"}
      /\ Maintainer \subseteq Request /\ Uploader \subseteq Request /\ Backup \in Request
      /\ Backup \notin Patcher
    BY RequestsDiffer DEF Request, RequestsDiffer, Labels
<1>1. \/ pc[m] \in Replacing
      \/ LoopFreeFor(m) /\ process = "serving"
    BY DEF Begin, Check, Unlink, Copy, Copied, ReplaceFails, Schema, Defaults, Count, Seed,
           Clear, Fill, Replacing
<1>2. process = "serving"
    BY <1>0, <1>1, InHand DEF Replacing
<1>3. process' = process
    BY DEF Begin, Check, Unlink, Copy, Copied, ReplaceFails, Schema, Defaults, Count, Seed,
           Clear, Fill
<1>4. \A n \in Maintainer : n # m => pc[n] = "idle"
    BY <1>1, OthersIdle
<1>5. \A u \in Uploader : pc[u] # "storing"
    <2>1. \A u \in Uploader : u # m
        BY <1>0
    <2>2. \A u \in Uploader : ~ Busy(u)
        BY <1>1, <2>1 DEF PlaceInv, Exclusive, Busy, LoopFreeFor
    <2>. QED  BY <2>2 DEF Busy
<1>6. \A q \in Request : q # m /\ q \notin Patcher => pc'[q] = pc[q]
    <2>1. CASE Unlink(m)
        <3>1. pc' = [r \in Request |->
                        IF r = m THEN IF chosen[m] = Reset THEN "initializing" ELSE "copying"
                        ELSE IF pc[r] = "connected" THEN "stranded" ELSE pc[r]]
            BY <2>1 DEF Unlink
        <3>2. \A q \in Request : q \notin Patcher => pc[q] # "connected"
            BY DEF PlaceInv, Labels, Replacing
        <3>. QED  BY <3>1, <3>2
    <2>2. ASSUME NEW l \in Labels(m), Goto(m, l)
          PROVE  \A q \in Request : q # m => pc'[q] = pc[q]
        BY <1>0, <2>2, Goes
    <2>3. CASE Begin(m)
        <3>1. Goto(m, "unlinking") \/ Goto(m, "checking")
            <4>1. PICK c \in {backup, Newer, Reset} :
                     Goto(m, IF c = Reset THEN "unlinking" ELSE "checking")
                BY <2>3 DEF Begin
            <4>. QED  BY <4>1
        <3>. QED  BY <1>0, <2>2, <3>1 DEF Replacing
    <2>4. CASE Defaults(m)
        <3>1. Goto(m, "counting") \/ Goto(m, "clearing")
            <4>1. Goto(m, IF chosen[m] = Reset THEN "counting" ELSE "clearing")
                BY <2>4 DEF Defaults
            <4>. QED  BY <4>1
        <3>. QED  BY <1>0, <2>2, <3>1 DEF Replacing
    <2>5. CASE Check(m) \/ Copy(m) \/ Copied(m) \/ ReplaceFails(m) \/ Schema(m)
        BY <1>0, <2>2, <2>5 DEF Check, Copy, Copied, ReplaceFails, Schema, Replacing
    <2>6. CASE Count(m) \/ Seed(m) \/ Clear(m) \/ Fill(m)
        BY <1>0, <2>2, <2>6 DEF Count, Seed, Clear, Fill, Replacing
    <2>. QED  BY <2>1, <2>3, <2>4, <2>5, <2>6
<1>7. (\A n \in Maintainer : n \notin Patcher) /\ (\A u \in Uploader : u \notin Patcher /\ u # m)
    BY <1>0, RequestsDiffer DEF RequestsDiffer
<1>. QED  BY <1>0, <1>2, <1>3, <1>4, <1>5, <1>6, <1>7

\* An archive that has the file of every avatar in it, if it says so.
Whole(a) == a.kind = "kindred" /\ a.clean => a.data.avatars \subseteq a.uploads

\* Avatars have their files, but for those of a database just restored, whose files
\* come with its archive; none is set while a request replaces the files.
AvatarInv ==
    /\ ~ halfway => data.avatars \subseteq uploads \/ \E m \in Maintainer : CutOff(m)
    /\ \A m \in Maintainer :
          /\ CutOff(m) => data.avatars \subseteq chosen[m].data.avatars
          /\ chosen[m] = Reset /\ pc[m] \notin Early => data.avatars = {}
    /\ \A u \in Uploader : pc[u] = "storing" => target[u] \in uploads
    /\ fresh[Backup] => /\ \A m \in Maintainer : pc[m] \in Early
                        /\ halfway \/ snapshot.avatars \subseteq uploads
    /\ backup # None => backup.kind = "kindred"
    /\ Whole(backup) /\ \A m \in Maintainer : Whole(chosen[m])

\* A request that has not touched the files yet cuts nothing off.
LEMMA EarlyUncut ==
    ASSUME NEW m \in Maintainer, pc[m] \in Early
    PROVE  ~ CutOff(m)
BY DEF Early, CutOff

\* A step of one maintenance request, no other being at a step with files.
LEMMA AvatarMoved ==
    ASSUME AvatarInv, NEW m \in Maintainer,
           \A n \in Maintainer : n # m => pc'[n] = "idle",
           \A u \in Uploader : pc'[u] # "storing",
           ~ halfway' => data'.avatars \subseteq uploads' \/ CutOff(m)',
           CutOff(m)' => data'.avatars \subseteq chosen'[m].data.avatars,
           chosen'[m] = Reset /\ pc'[m] \notin Early => data'.avatars = {},
           \/ ~ fresh'[Backup]
           \/ pc'[m] \in Early /\ UNCHANGED <<halfway, snapshot, uploads, fresh>>,
           UNCHANGED backup,
           \A n \in Maintainer : chosen'[n] \in {chosen[n], backup, Newer, Reset, None}
    PROVE  AvatarInv'
<1>1. \A n \in Maintainer : n # m => ~ CutOff(n)' /\ pc'[n] \in Early
    BY DEF CutOff, Early
<1>2. \A n \in Maintainer : Whole(chosen[n])'
    BY ArchiveIs DEF AvatarInv, Whole
<1>3. fresh'[Backup] => /\ \A n \in Maintainer : pc'[n] \in Early
                        /\ halfway' \/ snapshot'.avatars \subseteq uploads'
    BY <1>1 DEF AvatarInv
<1>4. (backup # None => backup.kind = "kindred")' /\ Whole(backup)'
    BY DEF AvatarInv, Whole
<1>. QED  BY <1>1, <1>2, <1>3, <1>4 DEF AvatarInv

\* A step of no maintenance request.
LEMMA AvatarTouched ==
    ASSUME AvatarInv, UNCHANGED <<chosen, halfway>>,
           \A m \in Maintainer : pc'[m] = pc[m],
           uploads \subseteq uploads',
           \/ data'.avatars \subseteq data.avatars
           \/ /\ data'.avatars \subseteq data.avatars \cup uploads'
              /\ \A m \in Maintainer : pc[m] \in Early,
           \A u \in Uploader : pc'[u] = "storing" => target'[u] \in uploads',
           fresh'[Backup] => /\ \A m \in Maintainer : pc[m] \in Early
                             /\ halfway \/ snapshot'.avatars \subseteq uploads',
           backup' # None => backup'.kind = "kindred", Whole(backup')
    PROVE  AvatarInv'
<1>1. \A m \in Maintainer : CutOff(m)' = CutOff(m)
    BY DEF CutOff
<1>2. \A m \in Maintainer : Whole(chosen[m])'
    BY DEF AvatarInv, Whole
<1>3. Whole(backup)'
    BY DEF Whole
<1>4. CASE data'.avatars \subseteq data.avatars
    BY <1>1, <1>2, <1>3, <1>4 DEF AvatarInv
<1>5. CASE /\ data'.avatars \subseteq data.avatars \cup uploads'
           /\ \A m \in Maintainer : pc[m] \in Early
    <2>1. \A m \in Maintainer : ~ CutOff(m)
        BY <1>5, EarlyUncut
    <2>2. ~ halfway => data.avatars \subseteq uploads
        BY <2>1 DEF AvatarInv
    <2>3. ~ halfway' => data'.avatars \subseteq uploads'
        BY <1>5, <2>2
    <2>4. \A m \in Maintainer : ~ CutOff(m)' /\ pc'[m] \in Early
        BY <1>1, <1>5, <2>1
    <2>. QED  BY <1>2, <1>3, <2>3, <2>4 DEF AvatarInv
<1>. QED  BY <1>4, <1>5

\* The steps of a maintenance request: a restore puts the database in place before
\* the files of its avatars, a reset empties both.
LEMMA AvatarMaintenance ==
    ASSUME TypeInv, FileInv, AvatarInv, NEW m \in Maintainer,
           \/ Begin(m) \/ Check(m) \/ Unlink(m)
           \/ Copy(m) \/ Copied(m) \/ ReplaceFails(m) \/ Schema(m)
           \/ Defaults(m) \/ Count(m) \/ Seed(m) \/ Clear(m) \/ Fill(m)
    PROVE  AvatarInv'
<1>. USE DEF disk, history
<1>0. /\ PlaceInv /\ HoldInv /\ DataInv /\ Sound(data) /\ m \in Request
      /\ fresh \in [Patcher \cup {Backup} -> BOOLEAN] /\ halfway \in BOOLEAN
      /\ chosen = [n \in Maintainer |-> chosen[n]]
    BY DEF TypeInv, HoldInv, DataInv, LocalInv, Request
<1>1. /\ \A n \in Maintainer : n # m => pc[n] = "idle" /\ pc'[n] = "idle"
      /\ \A u \in Uploader : pc'[u] # "storing"
    BY <1>0, MaintenanceMoves
<1>2. UNCHANGED backup /\ \A n \in Maintainer : chosen'[n] \in {chosen[n], backup, Newer, Reset, None}
    <2>1. UNCHANGED chosen \/ \E c \in {backup, Newer, Reset, None} : chosen' = [chosen EXCEPT ![m] = c]
        BY DEF Begin, Check, Unlink, Copy, Copied, ReplaceFails, Schema, Defaults, Count, Seed,
               Clear, Fill, Unchosen
    <2>2. \A n \in Maintainer : chosen'[n] \in {chosen[n], backup, Newer, Reset, None}
        BY <1>0, <2>1
    <2>. QED  BY <2>2 DEF Begin, Check, Unlink, Copy, Copied, ReplaceFails, Schema, Defaults,
                          Count, Seed, Clear, Fill
\* A request that touches the files is not met by a backup that would claim them whole.
<1>3. pc[m] \notin Early => ~ fresh[Backup]
    BY DEF AvatarInv
<1>4. ~ CutOff(m) => (~ halfway => data.avatars \subseteq uploads)
    BY <1>1 DEF AvatarInv, CutOff
<1>5. ASSUME NEW l \in Replacing \cup {"idle"}, Goto(m, l), pc[m] \in Replacing \/ LoopFreeFor(m)
      PROVE  pc'[m] = l
    BY <1>0, <1>5, GoesAlone
<1>6. Stale => ~ fresh'[Backup]
    BY DEF Stale
<1>7. CASE Begin(m) \/ Check(m)
    <2>1. Goto(m, "unlinking") \/ Goto(m, "checking") \/ Goto(m, "idle")
        <3>1. CASE Begin(m)
            <4>1. PICK c \in {backup, Newer, Reset} :
                     Goto(m, IF c = Reset THEN "unlinking" ELSE "checking")
                BY <3>1 DEF Begin
            <4>. QED  BY <4>1
        <3>. QED  BY <1>7, <3>1 DEF Check
    <2>2. /\ UNCHANGED <<data, uploads, fresh, halfway, snapshot>> /\ pc[m] \in Early
          /\ pc[m] \in Replacing \/ LoopFreeFor(m)
        BY <1>7 DEF Begin, Check, Early, Replacing
    <2>3. pc'[m] \in Early
        BY <1>5, <2>1, <2>2 DEF Early, Replacing
    <2>4. ~ CutOff(m) /\ ~ CutOff(m)'
        BY <2>2, <2>3 DEF CutOff, Early
    <2>. QED  BY <1>1, <1>2, <1>4, <2>2, <2>3, <2>4, AvatarMoved
<1>8. CASE Unlink(m)
    <2>1. /\ data' = Blank /\ ~ fresh'[Backup]
        BY <1>6, <1>8 DEF Unlink
    <2>2. data'.avatars = {}
        BY <2>1, BlankIs
    <2>. QED  BY <1>1, <1>2, <2>1, <2>2, AvatarMoved
<1>9. CASE Copy(m)
    <2>1. Goto(m, "copied") /\ UNCHANGED <<data, uploads, fresh, halfway>> /\ pc[m] = "copying"
        BY <1>9 DEF Copy
    <2>2. pc'[m] = "copied"
        BY <1>5, <2>1 DEF Replacing
    <2>3. file # "complete"
        BY <2>1 DEF FileInv, Between
    <2>4. data'.avatars = {}
        BY <2>1, <2>3, BlankIs DEF FileInv
    <2>5. ~ fresh'[Backup]
        BY <1>3, <2>1 DEF Early
    <2>. QED  BY <1>1, <1>2, <2>4, <2>5, AvatarMoved
<1>10. CASE Copied(m)
    <2>1. /\ Goto(m, "initializing") /\ UNCHANGED <<uploads, fresh, halfway, chosen>>
          /\ pc[m] = "copied"
        BY <1>10 DEF Copied
    <2>2. chosen[m].kind = "kindred" /\ chosen[m] # Reset
        BY <1>0, <2>1, ArchiveIs DEF HoldInv
    <2>3. data' = chosen[m].data
        BY <1>10, <2>2, ArchiveIs DEF Copied
    <2>4. pc'[m] = "initializing"
        BY <1>5, <2>1 DEF Replacing
    <2>5. CutOff(m)' /\ ~ fresh'[Backup]
        BY <1>3, <2>1, <2>2, <2>4 DEF CutOff, Early
    <2>. QED  BY <1>1, <1>2, <2>1, <2>2, <2>3, <2>5, AvatarMoved
<1>11. CASE ReplaceFails(m)
    <2>1. /\ Goto(m, "idle") /\ UNCHANGED <<uploads, fresh, snapshot>>
          /\ pc[m] \in Replacing /\ halfway' = (halfway \/ CutOff(m))
          /\ data' = Interrupted(data) /\ unseeded' = 0
        BY <1>11 DEF ReplaceFails
    <2>2. pc'[m] = "idle"
        BY <1>5, <2>1
    <2>3. ~ CutOff(m)' /\ pc'[m] \in Early
        BY <2>2 DEF CutOff, Early
    <2>4. data'.avatars = data.avatars
        BY <1>0, <2>1, InterruptedData
    <2>5. ~ halfway' => data'.avatars \subseteq uploads'
        BY <1>4, <2>1, <2>4
    <2>6. pc[m] \in Early => halfway' = halfway
        BY <1>0, <2>1, EarlyUncut
    <2>7. ~ fresh'[Backup] \/ UNCHANGED <<halfway, snapshot, uploads, fresh>>
        BY <1>3, <2>1, <2>6
    <2>. QED  BY <1>1, <1>2, <2>3, <2>5, <2>7, AvatarMoved
\* Steps that go on with a database in place.
<1>12. ASSUME NEW l \in Replacing, pc'[m] = l, UNCHANGED <<uploads, halfway, chosen>>,
              data'.avatars = data.avatars, pc[m] \notin Early, l \notin Early,
              fresh' = fresh \/ Stale,
              CutOff(m) => CutOff(m)', CutOff(m)' => CutOff(m)
       PROVE  AvatarInv'
    <2>1. ~ fresh'[Backup]
        BY <1>3, <1>6, <1>12
    <2>2. ~ halfway' => data'.avatars \subseteq uploads' \/ CutOff(m)'
        BY <1>4, <1>12
    <2>3. /\ CutOff(m)' => data'.avatars \subseteq chosen'[m].data.avatars
          /\ chosen'[m] = Reset => data'.avatars = {}
        BY <1>12 DEF AvatarInv
    <2>. QED  BY <1>1, <1>2, <2>1, <2>2, <2>3, AvatarMoved
<1>13. CASE Schema(m)
    <2>1. /\ Goto(m, "defaults") /\ UNCHANGED <<uploads, halfway, chosen, data, fresh>>
          /\ pc[m] = "initializing"
        BY <1>13 DEF Schema
    <2>2. pc'[m] = "defaults"
        BY <1>5, <2>1 DEF Replacing
    <2>3. CutOff(m)' <=> CutOff(m)
        BY <2>1, <2>2 DEF CutOff
    <2>. QED  BY <1>12, <2>1, <2>2, <2>3 DEF Replacing, Early
<1>14. CASE Defaults(m)
    <2>1. /\ UNCHANGED <<uploads, halfway, chosen>> /\ Stale /\ pc[m] = "defaults"
          /\ data' = WithDefaults(data)
        BY <1>14 DEF Defaults
    <2>2. PICK l \in {"counting", "clearing"} :
             Goto(m, l) /\ (chosen[m] = Reset <=> l = "counting")
        <3>1. Goto(m, IF chosen[m] = Reset THEN "counting" ELSE "clearing")
            BY <1>14 DEF Defaults
        <3>. QED  BY <3>1
    <2>3. pc'[m] = l
        BY <1>5, <2>1, <2>2 DEF Replacing
    <2>4. data'.avatars = data.avatars
        BY <1>0, <2>1, DefaultsIs
    <2>5. chosen[m] = Reset \/ chosen[m].kind = "kindred"
        BY <1>0, <2>1 DEF HoldInv
    <2>6. CutOff(m)' <=> CutOff(m)
        BY <2>1, <2>2, <2>3, <2>5, ArchiveIs DEF CutOff
    <2>7. l \in Replacing /\ l \notin Early /\ pc[m] \notin Early
        BY <2>1 DEF Replacing, Early
    <2>. QED  BY <1>12, <2>1, <2>3, <2>4, <2>6, <2>7
<1>15. CASE Count(m) \/ Seed(m)
    <2>1. /\ UNCHANGED <<uploads, halfway, chosen, fresh>> /\ pc[m] \in {"counting", "seeding"}
        BY <1>15 DEF Count, Seed
    <2>2. chosen[m] = Reset
        BY <1>0, <2>1 DEF HoldInv
    <2>3. UNCHANGED pc \/ Goto(m, "seeding") \/ Goto(m, "clearing")
        BY <1>15 DEF Count, Seed
    <2>4. pc'[m] \in {"counting", "seeding", "clearing"}
        BY <1>5, <2>1, <2>3 DEF Replacing
    <2>5. data'.avatars = data.avatars
        <3>1. CASE Count(m)
            BY <1>0, <3>1, CountedData DEF Count
        <3>2. CASE data' = WithSeed(data) /\ unseeded > 0 /\ unseeded' = unseeded - 1
            BY <1>0, <3>2, SeedData
        <3>. QED  BY <1>15, <3>1, <3>2 DEF Seed
    <2>6. ~ CutOff(m) /\ ~ CutOff(m)'
        BY <2>1, <2>2, ArchiveIs DEF CutOff
    <2>7. pc[m] \notin Early /\ pc'[m] \in Replacing /\ pc'[m] \notin Early
        BY <2>1, <2>4 DEF Early, Replacing
    <2>. QED  BY <1>12, <2>1, <2>5, <2>6, <2>7
<1>16. CASE Clear(m)
    <2>1. UNCHANGED <<data, fresh>> /\ pc[m] = "clearing"
        BY <1>16 DEF Clear
    <2>2. ~ fresh'[Backup]
        BY <1>3, <2>1 DEF Early
    <2>3. CASE chosen[m] = Reset /\ Goto(m, "idle")
        <3>1. pc'[m] = "idle" /\ data'.avatars = {}
            BY <1>5, <2>1, <2>3 DEF AvatarInv, Early, Replacing
        <3>. QED  BY <1>1, <1>2, <2>2, <3>1, AvatarMoved
    <2>4. CASE chosen[m] # Reset /\ Goto(m, "filling") /\ UNCHANGED <<chosen, halfway>>
        <3>1. pc'[m] = "filling"
            BY <1>5, <2>1, <2>4 DEF Replacing
        <3>2. chosen[m].kind = "kindred"
            BY <1>0, <2>1, <2>4 DEF HoldInv
        <3>3. CutOff(m) /\ CutOff(m)'
            BY <2>1, <2>4, <3>1, <3>2 DEF CutOff
        <3>4. data'.avatars \subseteq chosen'[m].data.avatars
            BY <2>1, <2>4, <3>3 DEF AvatarInv
        <3>. QED  BY <1>1, <1>2, <2>2, <2>4, <3>3, <3>4, AvatarMoved
    <2>. QED  BY <1>16, <2>3, <2>4 DEF Clear
<1>17. CASE Fill(m)
    <2>1. /\ UNCHANGED <<data, fresh>> /\ pc[m] = "filling" /\ Goto(m, "idle")
          /\ UNCHANGED uploads /\ chosen[m].uploads \subseteq uploads
          /\ halfway' = ~ chosen[m].clean
        BY <1>17 DEF Fill
    <2>2. pc'[m] = "idle" /\ ~ fresh'[Backup]
        BY <1>3, <1>5, <2>1 DEF Early, Replacing
    <2>3. chosen[m].kind = "kindred"
        BY <1>0, <2>1 DEF HoldInv
    <2>4. data.avatars \subseteq chosen[m].data.avatars
        BY <2>1, <2>3 DEF AvatarInv, CutOff
    <2>5. chosen[m].clean => chosen[m].data.avatars \subseteq chosen[m].uploads
        BY <2>3 DEF AvatarInv, Whole
    <2>6. ~ halfway' => data'.avatars \subseteq uploads'
        BY <2>1, <2>4, <2>5
    <2>7. ~ CutOff(m)' /\ pc'[m] \in Early
        BY <2>2 DEF CutOff, Early
    <2>. QED  BY <1>1, <1>2, <2>2, <2>6, <2>7, AvatarMoved
<1>. QED  BY <1>7, <1>8, <1>9, <1>10, <1>11, <1>13, <1>14, <1>15, <1>16, <1>17

\* The uploads, the patches and the backup move no upload but themselves.
LEMMA UploadersStay ==
    ASSUME PlaceInv,
           \/ Snapshot \/ Collect \/ Aside \/ UNCHANGED vars
           \/ \E p \in Patcher : ReadSection(p) \/ Connect(p) \/ Commit(p) \/ NoCommit(p)
    PROVE  \A u \in Uploader : pc'[u] = pc[u]
<1>1. CASE Snapshot \/ Collect
    <2>1. Backup \in Request \ Uploader /\ "idle" \in Labels(Backup) /\ "copied" \in Labels(Backup)
        BY RequestsDiffer DEF Request, Labels, RequestsDiffer
    <2>. QED  BY <1>1, <2>1, UploadsStay DEF Snapshot, Collect
<1>2. ASSUME NEW p \in Patcher, ReadSection(p) \/ Connect(p) \/ Commit(p) \/ NoCommit(p)
      PROVE  \A u \in Uploader : pc'[u] = pc[u]
    <2>1. UNCHANGED pc \/ \E l \in {"merged", "connected", "ended"} : Goto(p, l)
        BY <1>2 DEF ReadSection, Connect, Commit, NoCommit
    <2>2. p \in Request \ Uploader /\ {"merged", "connected", "ended"} \subseteq Labels(p)
        BY RequestsDiffer DEF Request, Labels, RequestsDiffer
    <2>. QED  BY <2>1, <2>2, UploadsStay
<1>3. CASE Aside \/ UNCHANGED vars
    BY <1>3, AsideIs DEF vars
<1>. QED  BY <1>1, <1>2, <1>3

\* A step of an upload: the file is written before the character is told, and no
\* request replaces the files between the two.
LEMMA AvatarUpload ==
    ASSUME TypeInv, AvatarInv, NEW u \in Uploader,
           CheckCharacter(u) \/ Reject(u) \/ SaveFile(u) \/ SetAvatar(u)
    PROVE  AvatarInv'
<1>. USE DEF disk, history, threads
<1>0. /\ PlaceInv /\ Sound(data) /\ Uploader \subseteq Request /\ Maintainer \subseteq Request
      /\ u \in Request /\ {"idle", "reading", "storing"} \subseteq Labels(u)
      /\ target = [v \in Uploader |-> target[v]]
    BY RequestsDiffer DEF TypeInv, DataInv, LocalInv, Request, Labels, RequestsDiffer
<1>1. \A m \in Maintainer : pc'[m] = pc[m]
    BY <1>0, MaintainersStay
<1>2. UNCHANGED <<chosen, halfway, backup, snapshot, fresh>>
    BY DEF CheckCharacter, Reject, SaveFile, SetAvatar
<1>3. ASSUME NEW l \in Labels(u), Goto(u, l)
      PROVE  \A v \in Uploader : pc'[v] = IF v = u THEN l ELSE pc[v]
    BY <1>0, <1>3, Goes
<1>4. backup' # None => backup'.kind = "kindred"
    BY <1>2 DEF AvatarInv
<1>5. Whole(backup')
    BY <1>2 DEF AvatarInv, Whole
<1>6. CASE CheckCharacter(u) \/ Reject(u)
    <2>1. UNCHANGED <<uploads, data>> /\ (Goto(u, "reading") \/ Goto(u, "idle"))
          /\ \E i : target' = [target EXCEPT ![u] = i]
        BY <1>6 DEF CheckCharacter, Reject
    <2>2. \A v \in Uploader : v # u => target'[v] = target[v]
        BY <1>0, <2>1
    <2>3. \A v \in Uploader : pc'[v] = "storing" => target'[v] \in uploads'
        BY <1>0, <1>3, <2>1, <2>2 DEF AvatarInv
    <2>4. fresh'[Backup] => /\ \A m \in Maintainer : pc[m] \in Early
                            /\ halfway \/ snapshot'.avatars \subseteq uploads'
        BY <1>2, <2>1 DEF AvatarInv
    <2>. QED  BY <1>1, <1>2, <1>4, <1>5, <2>1, <2>3, <2>4, AvatarTouched
<1>7. CASE SaveFile(u)
    <2>1. /\ uploads' = uploads \cup {target[u]} /\ UNCHANGED <<data, target>>
          /\ Goto(u, "storing")
        BY <1>7 DEF SaveFile
    <2>2. \A v \in Uploader : pc'[v] = "storing" => target'[v] \in uploads'
        BY <1>0, <1>3, <2>1 DEF AvatarInv
    <2>3. fresh'[Backup] => /\ \A m \in Maintainer : pc[m] \in Early
                            /\ halfway \/ snapshot'.avatars \subseteq uploads'
        BY <1>2, <2>1 DEF AvatarInv
    <2>. QED  BY <1>1, <1>2, <1>4, <1>5, <2>1, <2>2, <2>3, AvatarTouched
<1>8. CASE SetAvatar(u)
    <2>1. /\ pc[u] = "storing" /\ Goto(u, "idle") /\ UNCHANGED uploads
          /\ data' = [data EXCEPT !.avatars = @ \cup ({target[u]} \cap data.people)]
          /\ target' = [target EXCEPT ![u] = 0]
        BY <1>8 DEF SetAvatar
    <2>2. data'.avatars = data.avatars \cup ({target[u]} \cap data.people)
        BY <1>0, <2>1, AvatarIs
    <2>3. target[u] \in uploads'
        BY <2>1 DEF AvatarInv
    <2>4. data'.avatars \subseteq data.avatars \cup uploads'
        BY <2>2, <2>3
    <2>5. \A m \in Maintainer : pc[m] \in Early
        <3>1. \A m \in Maintainer : m # u /\ ~ Busy(m)
            BY <2>1, RequestsDiffer DEF TypeInv, PlaceInv, Exclusive, Busy, RequestsDiffer
        <3>. QED  BY <1>0, <3>1 DEF PlaceInv, Labels, Busy, Early
    <2>6. \A v \in Uploader : v # u => target'[v] = target[v]
        BY <1>0, <2>1
    <2>7. \A v \in Uploader : pc'[v] = "storing" => target'[v] \in uploads'
        BY <1>0, <1>3, <2>1, <2>6 DEF AvatarInv
    <2>8. fresh'[Backup] => /\ \A m \in Maintainer : pc[m] \in Early
                            /\ halfway \/ snapshot'.avatars \subseteq uploads'
        BY <1>2, <2>1 DEF AvatarInv
    <2>. QED  BY <1>1, <1>2, <1>4, <1>5, <2>1, <2>4, <2>5, <2>7, <2>8, AvatarTouched
<1>. QED  BY <1>6, <1>7, <1>8

\* Files are removed by a reset, which has left no avatar, or by a restore that has yet
\* to put those of its archive in place.
LEMMA AvatarFiles ==
    ASSUME TypeInv, AvatarInv, NEW m \in Maintainer, RemoveUpload(m) \/ CopyUpload(m)
    PROVE  AvatarInv'
<1>. USE DEF history
<1>0. PlaceInv /\ HoldInv /\ Aside
    BY DEF TypeInv, Aside
<1>1. UNCHANGED <<data, pc, chosen, backup, halfway, fresh>>
    BY DEF RemoveUpload, CopyUpload
<1>2. pc[m] \in {"clearing", "filling"} /\ pc[m] \in Replacing /\ pc[m] \notin Early
    BY DEF RemoveUpload, CopyUpload, Replacing, Early
<1>3. \A n \in Maintainer : n # m => pc'[n] = "idle"
    BY <1>0, <1>1, <1>2, OthersIdle
<1>4. \A u \in Uploader : pc'[u] # "storing"
    BY <1>0, <1>1, <1>2, RequestsDiffer DEF PlaceInv, Exclusive, Busy, RequestsDiffer
<1>5. chosen[m] = Reset \/ CutOff(m)
    BY <1>0, <1>2 DEF HoldInv, CutOff
<1>6. CutOff(m)' = CutOff(m)
    BY <1>1 DEF CutOff
<1>7. chosen[m] = Reset => data.avatars = {}
    BY <1>2 DEF AvatarInv
<1>8. CutOff(m) => data.avatars \subseteq chosen[m].data.avatars
    BY DEF AvatarInv
<1>9. ~ fresh'[Backup]
    BY <1>1, <1>2 DEF AvatarInv
<1>. QED  BY <1>1, <1>3, <1>4, <1>5, <1>6, <1>7, <1>8, <1>9, AvatarMoved

\* Every avatar keeps its file, also in backups, whatever requests, starts and
\* crashes meet.
LEMMA AvatarStep ==
    ASSUME TypeInv, FileInv, AvatarInv, [Next]_vars
    PROVE  AvatarInv'
<1>. USE DEF disk, history, threads
<1>0. /\ PlaceInv /\ HoldInv /\ DataInv /\ Sound(data)
      /\ fresh \in [Patcher \cup {Backup} -> BOOLEAN]
      /\ Maintainer \subseteq Request /\ Uploader \subseteq Request
      /\ Backup \notin Maintainer \cup Patcher \cup Uploader
    BY RequestsDiffer DEF TypeInv, DataInv, LocalInv, Request, RequestsDiffer
\* A step that leaves the archive alone.
<1>1. ASSUME UNCHANGED <<backup, chosen, halfway, target, uploads>>,
             \A r \in Maintainer \cup Uploader : pc'[r] = pc[r],
             fresh'[Backup] => fresh[Backup], UNCHANGED snapshot,
             data'.avatars \subseteq data.avatars
      PROVE  AvatarInv'
    <2>1. \A u \in Uploader : pc'[u] = "storing" => target'[u] \in uploads'
        BY <1>1 DEF AvatarInv
    <2>2. fresh'[Backup] => /\ \A m \in Maintainer : pc[m] \in Early
                            /\ halfway \/ snapshot'.avatars \subseteq uploads'
        BY <1>1 DEF AvatarInv
    <2>3. (backup' # None => backup'.kind = "kindred") /\ Whole(backup')
        BY <1>1 DEF AvatarInv, Whole
    <2>. QED  BY <1>1, <2>1, <2>2, <2>3, AvatarTouched
<1>2. CASE Boot \/ BootSeed \/ Serve
    <2>1. UNCHANGED <<backup, chosen, halfway, target, uploads, pc, fresh, snapshot>>
        BY <1>2 DEF Boot, BootSeed, Serve
    <2>2. data'.avatars = data.avatars
        <3>1. CASE Boot
            <4>. DEFINE d == WithDefaults(data)
            <4>1. Sound(d) /\ d.avatars = data.avatars
                BY <1>0, DefaultsIs
            <4>2. data' = Counted(d)
                BY <3>1 DEF Boot
            <4>. HIDE DEF d
            <4>. QED  BY <4>1, <4>2, CountedIs
        <3>2. CASE BootSeed
            BY <1>0, <3>2, SeedData DEF BootSeed
        <3>. QED  BY <1>2, <3>1, <3>2 DEF Serve
    <2>. QED  BY <1>1, <2>1, <2>2
<1>3. CASE Crash
    <2>1. /\ data' = Interrupted(data) /\ unseeded' = 0
          /\ halfway' = (halfway \/ \E m \in Maintainer : CutOff(m))
          /\ chosen' = [m \in Maintainer |-> None] /\ UNCHANGED <<backup, uploads>>
          /\ pc' = [r \in Request |->
                       IF r \in Patcher /\ pc[r] # "idle" THEN "ended" ELSE "idle"]
          /\ fresh' = [r \in Patcher \cup {Backup} |-> FALSE]
        BY <1>3 DEF Crash, Stale
    <2>2. data'.avatars = data.avatars
        BY <1>0, <2>1, InterruptedData
    <2>3. ~ halfway' => data'.avatars \subseteq uploads'
        BY <2>1, <2>2 DEF AvatarInv
    <2>4. \A r \in Maintainer \cup Uploader : pc'[r] = "idle"
        BY <1>0, <2>1, RequestsDiffer DEF RequestsDiffer
    <2>5. \A m \in Maintainer : ~ CutOff(m)' /\ chosen'[m] = None /\ pc'[m] \in Early
        BY <2>1, <2>4 DEF CutOff, Early
    <2>6. \A m \in Maintainer : Whole(chosen[m])'
        BY <2>5, ArchiveIs DEF Whole
    <2>7. ~ fresh'[Backup]
        BY <2>1
    <2>8. (backup # None => backup.kind = "kindred")' /\ Whole(backup)'
        BY <2>1 DEF AvatarInv, Whole
    <2>. QED  BY <2>3, <2>4, <2>5, <2>6, <2>7, <2>8 DEF AvatarInv
<1>4. CASE Snapshot
    <2>1. /\ snapshot' = [data EXCEPT !.cut = @ \/ data.seeded < Seeds]
          /\ fresh' = [fresh EXCEPT ![Backup] = Quiet]
          /\ UNCHANGED <<backup, chosen, halfway, target, uploads, data>>
        BY <1>4 DEF Snapshot
    <2>2. snapshot'.avatars = data.avatars
        BY <1>0, <2>1, SaidIs
    <2>3. Quiet => \A m \in Maintainer : pc[m] \in Early
        BY <1>0 DEF Quiet, PlaceInv, Labels, Early
    <2>4. fresh'[Backup] = Quiet
        BY <1>0, <2>1
    <2>5. fresh'[Backup] => halfway \/ data.avatars \subseteq uploads
        BY <2>3, <2>4, EarlyUncut DEF AvatarInv
    <2>6. \A r \in Maintainer \cup Uploader : pc'[r] = pc[r]
        BY <1>0, <1>4, MaintainersStay, UploadersStay
    <2>7. \A u \in Uploader : pc'[u] = "storing" => target'[u] \in uploads'
        BY <2>1, <2>6 DEF AvatarInv
    <2>8. (backup' # None => backup'.kind = "kindred") /\ Whole(backup')
        BY <2>1 DEF AvatarInv, Whole
    <2>. QED  BY <2>1, <2>2, <2>3, <2>4, <2>5, <2>6, <2>7, <2>8, AvatarTouched
<1>5. CASE Collect
    <2>. DEFINE clean == fresh[Backup] /\ ~ halfway
    <2>1. /\ backup' = [kind |-> "kindred", data |-> snapshot, uploads |-> uploads,
                        clean |-> clean]
          /\ UNCHANGED <<chosen, halfway, target, uploads, data>>
          /\ snapshot' = Blank /\ fresh' = [fresh EXCEPT ![Backup] = FALSE]
        BY <1>5 DEF Collect
    <2>2. clean => snapshot.avatars \subseteq uploads
        BY DEF AvatarInv
    <2>3. backup'.kind = "kindred" /\ Whole(backup')
        BY <2>1, <2>2 DEF Whole
    <2>4. \A r \in Maintainer \cup Uploader : pc'[r] = pc[r]
        BY <1>0, <1>5, MaintainersStay, UploadersStay
    <2>5. \A u \in Uploader : pc'[u] = "storing" => target'[u] \in uploads'
        BY <2>1, <2>4 DEF AvatarInv
    <2>6. ~ fresh'[Backup]
        BY <1>0, <2>1
    <2>. QED  BY <2>1, <2>3, <2>4, <2>5, <2>6, AvatarTouched
<1>6. ASSUME NEW p \in Patcher, ReadSection(p) \/ Connect(p) \/ Commit(p) \/ NoCommit(p)
      PROVE  AvatarInv'
    <2>1. UNCHANGED <<backup, chosen, halfway, target, uploads, snapshot>>
        BY <1>6 DEF ReadSection, Connect, Commit, NoCommit
    <2>2. \A r \in Maintainer \cup Uploader : pc'[r] = pc[r]
        BY <1>0, <1>6, MaintainersStay, UploadersStay
    <2>3. CASE Commit(p)
        <3>1. /\ data' = [data EXCEPT !.section = Merge(base[p], Patch[p])]
              /\ fresh' = [r \in DOMAIN fresh |-> fresh[r] /\ r = Backup]
            BY <2>3 DEF Commit
        <3>2. Merge(base[p], Patch[p]) \in Section
            BY MergeType DEF TypeInv, LocalInv
        <3>3. data'.avatars = data.avatars
            BY <1>0, <3>1, <3>2, SectionSetIs
        <3>4. fresh'[Backup] => fresh[Backup]
            BY <1>0, <3>1
        <3>. QED  BY <1>1, <2>1, <2>2, <3>3, <3>4
    <2>4. CASE ~ Commit(p)
        <3>1. UNCHANGED data
            BY <1>6, <2>4 DEF ReadSection, Connect, NoCommit
        <3>2. \/ fresh' = fresh \/ fresh' = [fresh EXCEPT ![p] = TRUE]
              \/ fresh' = [fresh EXCEPT ![p] = FALSE]
            BY <1>6, <2>4 DEF ReadSection, Connect, NoCommit
        <3>3. fresh'[Backup] => fresh[Backup]
            BY <1>0, <3>2
        <3>. QED  BY <1>1, <2>1, <2>2, <3>1, <3>3
    <2>. QED  BY <2>3, <2>4
<1>7. CASE Aside
    <2>1. CASE UNCHANGED uploads
        <3>1. UNCHANGED <<backup, chosen, halfway, target, snapshot, fresh, pc>>
            BY <1>7, AsideIs
        <3>2. data'.avatars \subseteq data.avatars
            BY <1>0, <1>7, AsideData
        <3>. QED  BY <1>1, <2>1, <3>1, <3>2
    <2>2. ASSUME ~ UNCHANGED uploads
          PROVE  \E m \in Maintainer : RemoveUpload(m) \/ CopyUpload(m)
        BY <1>7, <2>2 DEF Aside, CreateCharacter, EditAvatar, DeleteCharacter
    <2>. QED  BY <2>1, <2>2, AvatarFiles
<1>8. CASE UNCHANGED vars
    BY <1>1, <1>8 DEF vars
<1>. QED  BY <1>2, <1>3, <1>4, <1>5, <1>6, <1>7, <1>8, AvatarMaintenance, AvatarUpload DEF Next, Aside

\* There are no avatars on an empty disk.
LEMMA AvatarInvInit == Init => AvatarInv
<1>. SUFFICES ASSUME Init PROVE AvatarInv
    OBVIOUS
<1>1. \A r \in Request : pc[r] = "idle"
    BY DEF Init
<1>2. \A m \in Maintainer : chosen[m] = None /\ ~ CutOff(m) /\ pc[m] \in Early
    BY <1>1 DEF Init, CutOff, Early, Request
<1>3. data.avatars = {} /\ backup = None /\ ~ fresh[Backup]
    BY BlankIs DEF Init
<1>. QED  BY <1>1, <1>2, <1>3, ArchiveIs DEF AvatarInv, Whole, Request

\* While a process serves, is not replacing its files, and no restore died or failed
\* between the database and the uploads or among the uploads, every avatar that
\* upload_avatar has set has its file, and so has every one in a backup made at such a
\* time, however uploads, edits, deletions, the backup and maintenance interleave.
THEOREM EveryAvatarHasItsFile == Spec => []AvatarsHaveFiles
<1>. DEFINE Inv == TypeInv /\ FileInv /\ AvatarInv
<1>1. Init => Inv
    BY WholeInit, AvatarInvInit
<1>2. Inv /\ [Next]_vars => Inv'
    BY TypeStep, FileStep, AvatarStep
<1>3. Inv => AvatarsHaveFiles
    <2>1. AvatarInv /\ Settled /\ ~ halfway => data.avatars \subseteq uploads
        <3>1. Settled => \A m \in Maintainer : ~ CutOff(m)
            BY DEF Settled, Quiet, CutOff, Replacing
        <3>. QED  BY <3>1 DEF AvatarInv
    <2>2. AvatarInv /\ backup # None /\ backup.clean => backup.data.avatars \subseteq backup.uploads
        BY DEF AvatarInv, Whole
    <2>. QED  BY <2>1, <2>2 DEF AvatarsHaveFiles
<1>. QED  BY <1>1, <1>2, <1>3, PTL DEF Spec

-----------------------------------------------------------------------------
(* The settings *)

\* What initialize makes of a section.
Filled(s) == IF s = Missing THEN Default ELSE s

\* The stored section is the ideal one, but for a while without the defaults; a patch
\* that has read the present has read the stored section.
SerialInv ==
    /\ ~ lost => Filled(data.section) = ideal
    /\ \A p \in Patcher : fresh[p] =>
           process = "serving" /\ file = "complete" /\ base[p] = data.section
    /\ ~ lost /\ process = "seeding" => data.section = ideal
    /\ /\ ~ lost /\ process = "serving"
       /\ \A m \in Maintainer : pc[m] \notin {"copying", "copied", "initializing", "defaults"}
       /\ ~ broken \/ \E m \in Maintainer : pc[m] \notin Early
       => data.section = ideal

\* A step that sets no section and moves no maintenance request.
LEMMA SerialTouched ==
    ASSUME SerialInv, UNCHANGED <<lost, ideal, process, broken>>,
           \A m \in Maintainer : pc'[m] = pc[m],
           data'.section = data.section,
           \A p \in Patcher : fresh'[p] =>
               process = "serving" /\ file' = "complete" /\ base'[p] = data.section
    PROVE  SerialInv'
<1>1. Filled(data.section)' = Filled(data.section)
    BY DEF Filled
<1>. QED  BY <1>1 DEF SerialInv

\* A step of one maintenance request, the others being idle.
LEMMA SerialMoved ==
    ASSUME NEW m \in Maintainer, \A n \in Maintainer : n # m => pc'[n] = "idle",
           ~ lost' => Filled(data'.section) = ideal', process' = "serving",
           \A p \in Patcher : fresh'[p] => file' = "complete" /\ base'[p] = data'.section,
           \/ pc'[m] \in {"copying", "copied", "initializing", "defaults"}
           \/ broken' /\ pc'[m] \in Early
           \/ ~ lost' => data'.section = ideal'
    PROVE  SerialInv'
<1>1. "idle" \in Early
    BY DEF Early
<1>. QED  BY <1>1 DEF SerialInv, Filled

\* The start of the process fills a missing section, and a crash changes none.
LEMMA SerialProcess ==
    ASSUME TypeInv, SerialInv, Boot \/ BootSeed \/ Serve \/ Crash
    PROVE  SerialInv'
<1>. USE DEF disk, history
<1>0. /\ PlaceInv /\ DataInv /\ Sound(data) /\ Maintainer \subseteq Request
      /\ fresh \in [Patcher \cup {Backup} -> BOOLEAN]
    BY DEF TypeInv, DataInv, LocalInv, Request
<1>1. process # "serving" => \A p \in Patcher : ~ fresh[p]
    BY DEF SerialInv
<1>2. CASE Boot
    <2>1. /\ process = "down" /\ process' = "seeding" /\ UNCHANGED <<fresh, lost>>
          /\ data' = Counted(WithDefaults(data))
          /\ ideal' = IF data.section = Missing THEN Default ELSE ideal
        BY <1>2 DEF Boot
    <2>2. data'.section = Filled(data.section)
        <3>. DEFINE d == WithDefaults(data)
        <3>1. Sound(d) /\ d.section = Filled(data.section)
            BY <1>0, DefaultsIs DEF Filled
        <3>2. data' = Counted(d)
            BY <2>1
        <3>. HIDE DEF d
        <3>. QED  BY <3>1, <3>2, CountedIs
    <2>3. ~ lost => data'.section = ideal'
        BY <2>1, <2>2 DEF SerialInv, Filled
    <2>4. Filled(data'.section) = data'.section
        BY <2>2 DEF Filled
    <2>. QED  BY <1>1, <2>1, <2>3, <2>4 DEF SerialInv, Filled
<1>3. CASE BootSeed
    <2>1. /\ process = "seeding" /\ UNCHANGED <<process, fresh, lost, ideal>>
          /\ data' = WithSeed(data) /\ unseeded > 0 /\ unseeded' = unseeded - 1
        BY <1>3 DEF BootSeed
    <2>2. data'.section = data.section
        BY <1>0, <2>1, SeedData
    <2>. QED  BY <1>1, <2>1, <2>2 DEF SerialInv, Filled
<1>4. CASE Serve
    <2>1. /\ process = "seeding" /\ process' = "serving" /\ UNCHANGED <<fresh, lost, ideal, data>>
        BY <1>4 DEF Serve
    <2>. QED  BY <1>1, <2>1 DEF SerialInv, Filled
<1>5. CASE Crash
    <2>1. /\ data' = Interrupted(data) /\ unseeded' = 0
          /\ process' = "down" /\ UNCHANGED <<lost, ideal>>
          /\ fresh' = [r \in Patcher \cup {Backup} |-> FALSE]
        BY <1>5 DEF Crash, Stale
    <2>2. data'.section = data.section
        BY <1>0, <2>1, InterruptedData
    <2>. QED  BY <2>1, <2>2 DEF SerialInv, Filled
<1>. QED  BY <1>2, <1>3, <1>4, <1>5

\* A new database takes the ideal section with it, and no patch that has read the
\* old one.
LEMMA SerialMaintenance ==
    ASSUME TypeInv, FileInv, SerialInv, NEW m \in Maintainer,
           \/ Begin(m) \/ Check(m) \/ Unlink(m)
           \/ Copy(m) \/ Copied(m) \/ ReplaceFails(m) \/ Schema(m)
           \/ Defaults(m) \/ Count(m) \/ Seed(m) \/ Clear(m) \/ Fill(m)
    PROVE  SerialInv'
<1>. USE DEF disk, history
<1>0. /\ PlaceInv /\ HoldInv /\ DataInv /\ Sound(data) /\ m \in Request
      /\ fresh \in [Patcher \cup {Backup} -> BOOLEAN] /\ file # "newer"
    BY DEF TypeInv, HoldInv, DataInv, LocalInv, Request, FileInv
<1>1. /\ process = "serving" /\ process' = "serving"
      /\ \A n \in Maintainer : n # m => pc[n] = "idle" /\ pc'[n] = "idle"
    BY <1>0, MaintenanceMoves
<1>2. ASSUME NEW l \in Replacing \cup {"idle"}, Goto(m, l), pc[m] \in Replacing \/ LoopFreeFor(m)
      PROVE  pc'[m] = l
    BY <1>0, <1>2, GoesAlone
<1>3. Stale => \A p \in Patcher : ~ fresh'[p]
    BY DEF Stale
<1>4. file # "complete" => \A p \in Patcher : ~ fresh[p]
    BY DEF SerialInv
\* A step on a database with the section that it is to have.
<1>5. ASSUME UNCHANGED <<lost, ideal, fresh, base>>, data'.section = data.section,
             file' = file, pc[m] \notin {"copying", "copied", "initializing", "defaults"},
             broken => broken' \/ pc[m] \notin Early,
             pc'[m] \notin Early => pc[m] \notin Early
      PROVE  SerialInv'
    <2>1. ~ lost' => Filled(data'.section) = ideal'
        BY <1>5 DEF SerialInv, Filled
    <2>2. \A p \in Patcher : fresh'[p] => file' = "complete" /\ base'[p] = data'.section
        BY <1>5 DEF SerialInv
    <2>3. CASE broken /\ pc[m] \in Early
        <3>1. broken' /\ pc'[m] \in Early
            BY <1>5, <2>3
        <3>. QED  BY <1>1, <2>1, <2>2, <3>1, SerialMoved
    <2>4. CASE ~ broken \/ pc[m] \notin Early
        <3>1. ~ lost => data.section = ideal
            BY <1>1, <1>5, <2>4 DEF SerialInv
        <3>2. ~ lost' => data'.section = ideal'
            BY <1>5, <3>1
        <3>. QED  BY <1>1, <2>1, <2>2, <3>2, SerialMoved
    <2>. QED  BY <2>3, <2>4
<1>6. CASE Begin(m) \/ Check(m)
    <2>1. Goto(m, "unlinking") \/ Goto(m, "checking") \/ Goto(m, "idle")
        <3>1. CASE Begin(m)
            <4>1. PICK c \in {backup, Newer, Reset} :
                     Goto(m, IF c = Reset THEN "unlinking" ELSE "checking")
                BY <3>1 DEF Begin
            <4>. QED  BY <4>1
        <3>. QED  BY <1>6, <3>1 DEF Check
    <2>2. /\ UNCHANGED <<data, file, lost, ideal, fresh, base, broken>>
          /\ pc[m] \in {"idle", "checking"}
          /\ pc[m] \in Replacing \/ LoopFreeFor(m)
        BY <1>6 DEF Begin, Check, Replacing
    <2>3. pc'[m] \in Early
        BY <1>2, <2>1, <2>2 DEF Early, Replacing
    <2>. QED  BY <1>5, <2>2, <2>3
<1>7. CASE Unlink(m)
    <2>1. /\ data' = Blank /\ ideal' = Default /\ pc[m] = "unlinking" /\ Stale
          /\ pc' = [r \in Request |->
                       IF r = m THEN IF chosen[m] = Reset THEN "initializing" ELSE "copying"
                       ELSE IF pc[r] = "connected" THEN "stranded" ELSE pc[r]]
        BY <1>7 DEF Unlink
    <2>2. pc'[m] \in {"initializing", "copying"}
        BY <1>0, <2>1
    <2>3. Filled(data'.section) = ideal'
        BY <2>1, BlankIs DEF Filled
    <2>. QED  BY <1>1, <1>3, <2>1, <2>2, <2>3, SerialMoved
<1>8. CASE Copy(m)
    <2>1. /\ Goto(m, "copied") /\ UNCHANGED <<data, lost, ideal, fresh>> /\ pc[m] = "copying"
        BY <1>8 DEF Copy
    <2>2. pc'[m] = "copied"
        BY <1>2, <2>1 DEF Replacing
    <2>3. file # "complete"
        BY <2>1 DEF FileInv, Between
    <2>4. ~ lost' => Filled(data'.section) = ideal'
        BY <2>1 DEF SerialInv, Filled
    <2>. QED  BY <1>1, <1>4, <2>1, <2>2, <2>3, <2>4, SerialMoved
<1>9. CASE Copied(m)
    <2>1. /\ Goto(m, "initializing") /\ UNCHANGED <<fresh, chosen>> /\ pc[m] = "copied"
          /\ ideal' = WithDefaults(data').section
        BY <1>9 DEF Copied
    <2>2. chosen[m].kind = "kindred" /\ Safe(chosen[m])
        BY <1>0, <2>1 DEF HoldInv
    <2>3. data' = chosen[m].data
        BY <1>9, <2>2, ArchiveIs DEF Copied
    <2>4. Sound(data')
        BY <2>2, <2>3 DEF Safe, Sound, RoomForSeeds
    <2>5. Filled(data'.section) = ideal'
        BY <2>1, <2>4, DefaultsIs DEF Filled
    <2>6. pc'[m] = "initializing"
        BY <1>2, <2>1 DEF Replacing
    <2>7. file # "complete"
        BY <2>1 DEF FileInv
    <2>. QED  BY <1>1, <1>4, <2>1, <2>5, <2>6, <2>7, SerialMoved
<1>10. CASE ReplaceFails(m)
    <2>. DEFINE apart == pc[m] \in {"checking", "unlinking", "clearing", "filling"}
    <2>1. /\ Goto(m, "idle") /\ UNCHANGED <<file, lost, ideal, fresh, base>>
          /\ pc[m] \in Replacing /\ broken' = (broken \/ (file # "newer" /\ ~ apart))
          /\ data' = Interrupted(data) /\ unseeded' = 0
        BY <1>10 DEF ReplaceFails
    <2>2. pc'[m] \in Early
        BY <1>2, <2>1 DEF Early
    <2>3. data'.section = data.section
        BY <1>0, <2>1, InterruptedData
    <2>4. CASE apart
        BY <1>5, <2>1, <2>2, <2>3, <2>4
    <2>5. CASE ~ apart
        <3>1. broken'
            BY <1>0, <2>1, <2>5
        <3>2. ~ lost' => Filled(data'.section) = ideal'
            BY <2>1, <2>3 DEF SerialInv, Filled
        <3>3. \A p \in Patcher : fresh'[p] => file' = "complete" /\ base'[p] = data'.section
            BY <2>1, <2>3 DEF SerialInv
        <3>. QED  BY <1>1, <2>2, <3>1, <3>2, <3>3, SerialMoved
    <2>. QED  BY <2>4, <2>5
<1>11. CASE Schema(m)
    <2>1. /\ Goto(m, "defaults") /\ UNCHANGED <<data, lost, ideal, fresh, base>>
          /\ pc[m] = "initializing" /\ file' = "complete"
        BY <1>11 DEF Schema
    <2>2. pc'[m] = "defaults"
        BY <1>2, <2>1 DEF Replacing
    <2>3. ~ lost' => Filled(data'.section) = ideal'
        BY <2>1 DEF SerialInv, Filled
    <2>4. \A p \in Patcher : fresh'[p] => file' = "complete" /\ base'[p] = data'.section
        BY <2>1 DEF SerialInv
    <2>. QED  BY <1>1, <2>2, <2>3, <2>4, SerialMoved
<1>12. CASE Defaults(m)
    <2>1. /\ UNCHANGED <<lost, ideal>> /\ data' = WithDefaults(data) /\ Stale
        BY <1>12 DEF Defaults
    <2>2. data'.section = Filled(data.section)
        BY <1>0, <2>1, DefaultsIs DEF Filled
    <2>3. ~ lost' => data'.section = ideal'
        BY <2>1, <2>2 DEF SerialInv
    <2>4. Filled(data'.section) = data'.section
        BY <2>2 DEF Filled
    <2>. QED  BY <1>1, <1>3, <2>1, <2>3, <2>4, SerialMoved
<1>13. CASE Count(m) \/ Seed(m)
    <2>1. /\ UNCHANGED <<lost, ideal, fresh, base, file, broken>>
          /\ pc[m] \in {"counting", "seeding"}
        BY <1>13 DEF Count, Seed
    <2>2. data'.section = data.section
        <3>1. CASE Count(m)
            BY <1>0, <3>1, CountedData DEF Count
        <3>2. CASE data' = WithSeed(data) /\ unseeded > 0 /\ unseeded' = unseeded - 1
            BY <1>0, <3>2, SeedData
        <3>. QED  BY <1>13, <3>1, <3>2 DEF Seed
    <2>3. pc[m] \notin Early
        BY <2>1 DEF Early
    <2>. QED  BY <1>5, <2>1, <2>2, <2>3
<1>14. CASE Clear(m) \/ Fill(m)
    <2>1. /\ UNCHANGED <<data, file, lost, ideal, fresh, base>>
          /\ pc[m] \in {"clearing", "filling"}
        BY <1>14 DEF Clear, Fill
    <2>2. pc[m] \notin Early
        BY <2>1 DEF Early
    <2>. QED  BY <1>5, <2>1, <2>2
<1>. QED  BY <1>6, <1>7, <1>8, <1>9, <1>10, <1>11, <1>12, <1>13, <1>14

\* A patch that commits what it has merged into the present is applied to the ideal
\* section too; any other is lost.
LEMMA SerialPatch ==
    ASSUME TypeInv, SerialInv, NEW p \in Patcher,
           ReadSection(p) \/ Connect(p) \/ Commit(p) \/ NoCommit(p)
    PROVE  SerialInv'
<1>. USE DEF disk, history
<1>0. /\ PlaceInv /\ Sound(data) /\ p \in Request
      /\ fresh \in [Patcher \cup {Backup} -> BOOLEAN]
      /\ base = [q \in Patcher |-> base[q]] /\ base[p] \in Section
      /\ p # Backup /\ Backup \notin Patcher
    BY RequestsDiffer DEF TypeInv, DataInv, LocalInv, Request, RequestsDiffer
<1>1. \A m \in Maintainer : pc'[m] = pc[m]
    BY <1>0, MaintainersStay
<1>2. process' = process /\ broken' = broken
    BY DEF ReadSection, Connect, Commit, NoCommit
<1>3. file = "complete" => file' = "complete"
    BY DEF ReadSection, Connect, Commit, NoCommit, Touch
<1>4. CASE Connect(p)
    <2>1. UNCHANGED <<data, base, fresh, lost, ideal>>
        BY <1>4 DEF Connect
    <2>2. \A q \in Patcher : fresh'[q] =>
              process = "serving" /\ file' = "complete" /\ base'[q] = data.section
        BY <1>3, <2>1 DEF SerialInv
    <2>. QED  BY <1>1, <1>2, <2>1, <2>2, SerialTouched
<1>5. CASE ReadSection(p)
    <2>1. UNCHANGED <<data, lost, ideal>> /\ process = "serving"
        BY <1>5 DEF ReadSection
    <2>2. \A q \in Patcher : fresh'[q] =>
              process = "serving" /\ file' = "complete" /\ base'[q] = data.section
        <3>1. CASE /\ file = "complete" /\ base' = [base EXCEPT ![p] = data.section]
                   /\ fresh' = [fresh EXCEPT ![p] = TRUE]
            <4>1. \A q \in Patcher : /\ base'[q] = IF q = p THEN data.section ELSE base[q]
                                     /\ q # p => fresh'[q] = fresh[q]
                BY <1>0, <3>1
            <4>. QED  BY <1>3, <2>1, <3>1, <4>1 DEF SerialInv
        <3>2. CASE UNCHANGED <<base, fresh>>
            BY <1>3, <3>2 DEF SerialInv
        <3>. QED  BY <1>5, <3>1, <3>2 DEF ReadSection
    <2>. QED  BY <1>1, <1>2, <2>1, <2>2, SerialTouched
<1>6. CASE NoCommit(p)
    <2>1. /\ UNCHANGED <<data, lost, ideal>> /\ base' = [base EXCEPT ![p] = Missing]
          /\ fresh' = [fresh EXCEPT ![p] = FALSE]
        BY <1>6 DEF NoCommit
    <2>2. \A q \in Patcher : /\ q # p => base'[q] = base[q] /\ fresh'[q] = fresh[q]
                             /\ q = p => ~ fresh'[q]
        BY <1>0, <2>1
    <2>3. \A q \in Patcher : fresh'[q] =>
              process = "serving" /\ file' = "complete" /\ base'[q] = data.section
        BY <1>3, <2>2 DEF SerialInv
    <2>. QED  BY <1>1, <1>2, <2>1, <2>3, SerialTouched
<1>7. CASE Commit(p)
    <2>1. /\ data' = [data EXCEPT !.section = Merge(base[p], Patch[p])]
          /\ lost' = (lost \/ ~ fresh[p] \/ ~ Quiet \/ base[p] = Missing)
          /\ ideal' = IF lost' THEN Default ELSE Merge(ideal, Patch[p])
          /\ fresh' = [r \in DOMAIN fresh |-> fresh[r] /\ r = Backup]
        BY <1>7 DEF Commit
    <2>2. Merge(base[p], Patch[p]) \in Section
        BY <1>0, MergeType
    <2>3. data'.section = Merge(base[p], Patch[p])
        BY <1>0, <2>1, <2>2, SectionSetIs
    <2>4. \A q \in Patcher : ~ fresh'[q]
        BY <1>0, <2>1
    <2>5. ASSUME ~ lost' PROVE data'.section = ideal' /\ Filled(data'.section) = ideal'
        <3>1. fresh[p] /\ base[p] # Missing /\ ~ lost
            BY <2>1, <2>5
        <3>2. base[p] = data.section /\ process = "serving"
            BY <3>1 DEF SerialInv
        <3>3. base[p] = ideal
            BY <3>1, <3>2 DEF SerialInv, Filled
        <3>4. ideal' = Merge(ideal, Patch[p])
            BY <2>1, <2>5
        <3>5. Merge(base[p], Patch[p]) # Missing
            BY <1>0, <3>1, MergeType
        <3>. QED  BY <2>3, <3>3, <3>4, <3>5 DEF Filled
    <2>. QED  BY <2>4, <2>5 DEF SerialInv, Filled
<1>. QED  BY <1>4, <1>5, <1>6, <1>7

\* Whatever requests, starts and crashes meet, the section is the ideal one.
LEMMA SerialStep ==
    ASSUME TypeInv, FileInv, SerialInv, [Next]_vars
    PROVE  SerialInv'
<1>. USE DEF disk, history, threads
<1>0. /\ PlaceInv /\ DataInv /\ Sound(data)
      /\ fresh \in [Patcher \cup {Backup} -> BOOLEAN] /\ Backup \notin Patcher
    BY RequestsDiffer DEF TypeInv, DataInv, LocalInv, RequestsDiffer
\* A step of no patch.
<1>1. ASSUME UNCHANGED <<lost, ideal, process, broken, file, base>>,
             \A p \in Patcher : fresh'[p] = fresh[p],
             \A m \in Maintainer : pc'[m] = pc[m],
             data'.section = data.section
      PROVE  SerialInv'
    <2>1. \A p \in Patcher : fresh'[p] =>
              process = "serving" /\ file' = "complete" /\ base'[p] = data.section
        BY <1>1 DEF SerialInv
    <2>. QED  BY <1>1, <2>1, SerialTouched
<1>2. CASE Snapshot \/ Collect \/ UNCHANGED vars
    <2>1. UNCHANGED <<lost, ideal, process, broken, file, base, data>>
        BY <1>2 DEF Snapshot, Collect, vars
    <2>2. fresh' = fresh \/ \E b \in {Quiet, FALSE} : fresh' = [fresh EXCEPT ![Backup] = b]
        BY <1>2 DEF Snapshot, Collect, vars
    <2>3. \A p \in Patcher : fresh'[p] = fresh[p]
        BY <1>0, <2>2
    <2>. QED  BY <1>0, <1>1, <1>2, <2>1, <2>3, MaintainersStay
<1>3. ASSUME NEW u \in Uploader, CheckCharacter(u) \/ Reject(u) \/ SaveFile(u) \/ SetAvatar(u)
      PROVE  SerialInv'
    <2>1. UNCHANGED <<lost, ideal, process, broken, file, base, fresh>>
        BY <1>3 DEF CheckCharacter, Reject, SaveFile, SetAvatar
    <2>2. data'.section = data.section
        <3>1. data' = data \/ data' = [data EXCEPT !.avatars = @ \cup ({target[u]} \cap data.people)]
            BY <1>3 DEF CheckCharacter, Reject, SaveFile, SetAvatar
        <3>2. CASE data' = [data EXCEPT !.avatars = @ \cup ({target[u]} \cap data.people)]
            BY <1>0, <3>2, AvatarIs
        <3>. QED  BY <3>1, <3>2
    <2>. QED  BY <1>0, <1>1, <1>3, <2>1, <2>2, MaintainersStay
<1>4. CASE Aside
    <2>1. UNCHANGED <<lost, ideal, process, broken, file, base, fresh>>
        BY <1>4, AsideIs
    <2>2. data'.section = data.section
        BY <1>0, <1>4, AsideData
    <2>. QED  BY <1>0, <1>1, <1>4, <2>1, <2>2, MaintainersStay
<1>. QED  BY <1>2, <1>3, <1>4, SerialProcess, SerialMaintenance, SerialPatch DEF Next, Aside

\* No patch has been read on an empty disk, and the defaults are still to come.
LEMMA SerialInvInit == Init => SerialInv
<1>. SUFFICES ASSUME Init PROVE SerialInv
    OBVIOUS
<1>1. Filled(data.section) = ideal
    BY BlankIs DEF Init, Filled
<1>2. process = "down" /\ \A p \in Patcher : ~ fresh[p]
    BY DEF Init
<1>. QED  BY <1>1, <1>2 DEF SerialInv

\* As long as no patch was merged into a section that was no longer the present, the
\* section is what patches applied one after the other make of the defaults or of the
\* section restored, through restarts, resets and restores, failed ones too.
THEOREM PatchesAreSerial == Spec => []SerialWhenApart
<1>. DEFINE Inv == TypeInv /\ FileInv /\ SerialInv
<1>1. Init => Inv
    BY WholeInit, SerialInvInit
<1>2. Inv /\ [Next]_vars => Inv'
    BY TypeStep, FileStep, SerialStep
<1>3. Inv => SerialWhenApart
    <2>1. Quiet => \A m \in Maintainer :
                       pc[m] \notin {"copying", "copied", "initializing", "defaults"}
        BY DEF Quiet, Replacing
    <2>. QED  BY <2>1 DEF SerialInv, SerialWhenApart, Settled
<1>. QED  BY <1>1, <1>2, <1>3, PTL DEF Spec

=============================================================================
