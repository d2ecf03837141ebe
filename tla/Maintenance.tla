----------------------------- MODULE Maintenance -----------------------------
(***************************************************************************)
(* Backup, restore and reset (main.py), the file steps behind them         *)
(* (database.py) and the start of the process, with the requests that use  *)
(* the database and the uploads meanwhile: patches of a settings section,  *)
(* avatars, new, edited and deleted characters.                            *)
(*                                                                         *)
(* A restore or reset waits for the daemon and then runs to its end        *)
(* without an await: no coroutine comes between its file steps, but        *)
(* threads do, any step may fail (the disk is full), and the process may   *)
(* die. What a copy cut off leaves is no database; the settings are one    *)
(* section; a character is its id, and an upload the one file of a         *)
(* character, whatever its suffix and whether all of it was written.       *)
(***************************************************************************)
EXTENDS Naturals, FiniteSets

CONSTANTS
    Maintainer,     \* restore and reset requests; a name serves again
    Patcher,        \* PATCH /api/settings requests, in threads: one request each
    Uploader,       \* avatar uploads, coroutines
    Patch,          \* what each Patcher sends: some keys with their values
    Default,        \* the section in config/defaults.json
    Seeds,          \* number of characters in data/seed/characters.json
    MaxId,          \* bound: character ids given in one database
    Pictured        \* bound: the characters given avatars, or deleted

ASSUME MaintenanceAssumption ==
    /\ Seeds \in Nat \ {0} /\ MaxId \in Nat /\ Seeds <= MaxId
    /\ Default = [k \in DOMAIN Default |-> Default[k]]
    /\ \A p \in Patcher : DOMAIN Patch[p] \subseteq DOMAIN Default

VARIABLES
    file,           \* what is at the path of the database
    data,           \* its content, when its tables exist
    uploads,        \* characters with a file in the uploads directory
    backup,         \* the archive downloaded, if any
    process,        \* "down", "seeding" at start, "serving"
    unseeded,       \* seeds not yet created, at start or in a reset
    pc,             \* each request
    base,           \* each Patcher: the section it has read
    target,         \* each Uploader: the character it has checked
    chosen,         \* each Maintainer: what it puts in place
    snapshot,       \* the backup in the making: its database
    \* History
    ideal,          \* the section, had every patch been one step
    fresh,          \* what a Patcher has read, or the snapshot, is of the present
    lost,           \* a patch was merged into what was no longer the present
    halfway,        \* a restore was cut off between database and uploads
    broken          \* a replacement failed before the new database was whole

disk == <<file, data, uploads, backup>>
threads == <<base, snapshot>>
history == <<ideal, fresh, lost, halfway, broken>>
vars == <<disk, process, unseeded, pc, base, target, chosen, snapshot, history>>

Backup == "backup"      \* the one backup request
Request == Maintainer \cup Patcher \cup Uploader \cup {Backup}

ASSUME RequestsDiffer ==
    /\ Maintainer \cap Patcher = {} /\ Maintainer \cap Uploader = {}
    /\ Patcher \cap Uploader = {}
    /\ Backup \notin Maintainer \cup Patcher \cup Uploader

Key == DOMAIN Default
Section == UNION {[K -> UNION {{Default[k]} \cup {Patch[p][k] : p \in {q \in Patcher :
              k \in DOMAIN Patch[q]}} : k \in K}] : K \in SUBSET Key}
Missing == [k \in {} |-> Default]   \* app_settings has no such row

\* A database: the section, the characters, those whose avatar_url is the one that
\* upload_avatar gave them, the id given last; and, as history, how many seeds have
\* been created since the table was empty, and whether the others are not to come.
Data == [section : Section, people : SUBSET (1..MaxId), avatars : SUBSET (1..MaxId),
         last : 0..MaxId, seeded : 0..Seeds, cut : BOOLEAN]
Blank == [section |-> Missing, people |-> {}, avatars |-> {}, last |-> 0, seeded |-> 0,
          cut |-> FALSE]

\* A backup of a newer build, which _migrate refuses, and the absence of a backup.
Newer == [kind |-> "newer"]
None == [kind |-> "none"]
\* What a reset puts in place.
Reset == [kind |-> "reset"]

Goto(r, label) == pc' = [pc EXCEPT ![r] = label]

\* The file steps of a maintenance request, and the two writes of an upload.
Replacing == {"checking", "unlinking", "copying", "copied", "initializing", "defaults",
              "counting", "seeding", "clearing", "filling"}
Busy(r) == pc[r] \in Replacing \cup {"storing"}

\* No other coroutine is between two awaits.
LoopFreeFor(r) == \A o \in (Maintainer \cup Uploader) \ {r} : ~ Busy(o)
Quiet == \A m \in Maintainer : pc[m] \notin Replacing

\* dict merge, as PATCH and INSERT OR IGNORE use it.
Merge(old, new) == [k \in DOMAIN old \cup DOMAIN new |->
                        IF k \in DOMAIN new THEN new[k] ELSE old[k]]

\* What was read so far is no longer the present.
Stale == fresh' = [r \in Patcher \cup {Backup} |-> FALSE]

Init ==
    /\ file = "absent" /\ data = Blank /\ uploads = {} /\ backup = None
    /\ process = "down" /\ unseeded = 0
    /\ pc = [r \in Request |-> "idle"]
    /\ base = [p \in Patcher |-> Missing]
    /\ target = [u \in Uploader |-> 0]
    /\ chosen = [m \in Maintainer |-> None]
    /\ snapshot = Blank
    /\ ideal = Default
    /\ fresh = [r \in Patcher \cup {Backup} |-> FALSE]
    /\ lost = FALSE /\ halfway = FALSE /\ broken = FALSE

-----------------------------------------------------------------------------
(* The steps of the database *)

\* Mutant: the defaults replace what is stored.
WithDefaults_Replace(d) == [d EXCEPT !.section = Merge(d.section, Default)]

\* initialize: missing sections are filled with the defaults.
WithDefaults(d) == [d EXCEPT !.section = IF d.section = Missing THEN Default ELSE @]

\* create_character, with an AUTOINCREMENT id.
WithCharacter(d) == [d EXCEPT !.people = @ \cup {d.last + 1}, !.last = @ + 1]

\* Mutant: the characters are not counted first.
SeedsFor_Always(d) == Seeds

\* seed_characters creates nothing unless there is no character at all.
SeedsFor(d) == IF d.people = {} THEN Seeds ELSE 0

\* Where it finds none, seeding starts from the beginning.
Counted(d) == IF d.people = {} THEN [d EXCEPT !.seeded = 0, !.cut = FALSE] ELSE d

\* The next seed, in a transaction of its own; after the last one none is missing.
WithSeed(d) == [WithCharacter(d) EXCEPT !.seeded = @ + 1, !.cut = @ /\ unseeded > 1]

\* Seeding ends where it is: with a seed in the table the others never come.
Interrupted(d) == [d EXCEPT !.cut = @ \/ unseeded \in 1..(Seeds - 1)]

\* A connection opened where there is no file creates an empty one.
Touch == file' = IF file = "absent" THEN "blank" ELSE file

-----------------------------------------------------------------------------
(* The process *)

\* create_app on a database that opens: tables, defaults.
Boot ==
    /\ process = "down" /\ file \in {"absent", "blank", "complete"}
    /\ file' = "complete"
    /\ data' = Counted(WithDefaults(data))
    /\ ideal' = IF data.section = Missing THEN Default ELSE ideal
    /\ unseeded' = SeedsFor(data')
    /\ process' = "seeding"
    /\ UNCHANGED <<uploads, backup, pc, base, target, chosen, snapshot,
                   fresh, lost, halfway, broken>>

BootSeed ==
    /\ process = "seeding" /\ unseeded > 0
    /\ data' = WithSeed(data)
    /\ unseeded' = unseeded - 1
    /\ UNCHANGED <<file, uploads, backup, process, pc, base, target, chosen, snapshot, history>>

Serve ==
    /\ process = "seeding" /\ unseeded = 0
    /\ process' = "serving"
    /\ UNCHANGED <<disk, unseeded, pc, base, target, chosen, snapshot, history>>

\* The restored database is in place and its uploads are not.
CutOff(m) ==
    /\ chosen[m].kind = "kindred"
    /\ pc[m] \in {"initializing", "defaults", "clearing", "filling"}

\* The process dies at any point; the files stay as they are.
Crash ==
    /\ process # "down"
    /\ process' = "down"
    /\ data' = Interrupted(data)
    /\ halfway' = (halfway \/ \E m \in Maintainer : CutOff(m))
    /\ unseeded' = 0
    /\ pc' = [r \in Request |->
                  IF r \in Patcher /\ pc[r] # "idle" THEN "ended" ELSE "idle"]
    /\ base' = [p \in Patcher |-> Missing]
    /\ target' = [u \in Uploader |-> 0]
    /\ chosen' = [m \in Maintainer |-> None]
    /\ snapshot' = Blank
    /\ broken' = FALSE
    /\ Stale
    /\ UNCHANGED <<file, uploads, backup, ideal, lost>>

-----------------------------------------------------------------------------
(* restore_system and reset_system *)

\* The archive has been read, or the reset confirmed, and the daemon has stopped. If
\* stop raises instead (DaemonLifecycle) nothing happens.
Begin(m) ==
    /\ process = "serving" /\ pc[m] = "idle" /\ LoopFreeFor(m)
    /\ \E c \in {backup, Newer, Reset} \ {None} :
          /\ chosen' = [chosen EXCEPT ![m] = c]
          /\ Goto(m, IF c = Reset THEN "unlinking" ELSE "checking")
    /\ UNCHANGED <<disk, process, unseeded, base, target, snapshot, history>>

Unchosen(m) == chosen' = [chosen EXCEPT ![m] = None]

\* Mutant: the database of the archive is put in place unseen.
Check_Accepts(m) ==
    /\ pc[m] = "checking"
    /\ Goto(m, "unlinking")
    /\ UNCHANGED <<disk, process, unseeded, base, target, chosen, snapshot, history>>

\* _validate_restorable_database, on the extracted copy.
Check(m) ==
    /\ pc[m] = "checking"
    /\ \/ chosen[m].kind = "kindred" /\ Goto(m, "unlinking") /\ UNCHANGED chosen
       \/ chosen[m] = Newer /\ Goto(m, "idle") /\ Unchosen(m)
    /\ UNCHANGED <<disk, process, unseeded, base, target, snapshot, history>>

\* _unlink_database_files. A thread that has the file open goes on with a file
\* that has no name any more, whatever it writes.
Unlink(m) ==
    /\ pc[m] = "unlinking"
    /\ file' = "absent" /\ data' = Blank
    /\ pc' = [r \in Request |->
                 IF r = m THEN IF chosen[m] = Reset THEN "initializing" ELSE "copying"
                 ELSE IF pc[r] = "connected" THEN "stranded" ELSE pc[r]]
    /\ base' = [p \in Patcher |-> IF pc[p] = "connected" THEN Missing ELSE base[p]]
    /\ ideal' = Default /\ lost' = FALSE
    /\ Stale
    /\ UNCHANGED <<uploads, backup, process, unseeded, target, chosen, snapshot,
                   halfway, broken>>

\* shutil.copy2 begins, and until it ends there is half a database.
Copy(m) ==
    /\ pc[m] = "copying"
    /\ file' = "torn"
    /\ Goto(m, "copied")
    /\ UNCHANGED <<data, uploads, backup, process, unseeded, base, target, chosen,
                   snapshot, history>>

Copied(m) ==
    /\ pc[m] = "copied"
    /\ file' = IF chosen[m] = Newer THEN "newer" ELSE "complete"
    /\ data' = IF chosen[m] = Newer THEN data ELSE chosen[m].data
    /\ ideal' = WithDefaults(data').section
    /\ Goto(m, "initializing")
    /\ UNCHANGED <<uploads, backup, process, unseeded, base, target, chosen, snapshot,
                   fresh, lost, halfway, broken>>

\* Any step fails (the disk is full, the file is locked, the database is one of a newer
\* build): the exception ends the request and the daemon starts again. The old database
\* may be gone by then, the new one not be there, its seeds or the uploads be incomplete.
ReplaceFails(m) ==
    /\ pc[m] \in Replacing
    /\ data' = Interrupted(data) /\ unseeded' = 0
    /\ broken' = (broken \/ (file # "newer" /\
                     pc[m] \notin {"checking", "unlinking", "clearing", "filling"}))
    /\ halfway' = (halfway \/ CutOff(m))
    /\ Goto(m, "idle") /\ Unchosen(m)
    /\ UNCHANGED <<file, uploads, backup, process, base, target, snapshot,
                   ideal, fresh, lost>>

\* initialize: the schema, statement by statement, and its version ...
Schema(m) ==
    /\ pc[m] = "initializing" /\ file # "newer"
    /\ file' = "complete"
    /\ Goto(m, "defaults")
    /\ UNCHANGED <<data, uploads, backup, process, unseeded, base, target, chosen,
                   snapshot, history>>

\* ... and then the settings that are missing, in a transaction.
Defaults(m) ==
    /\ pc[m] = "defaults"
    /\ data' = WithDefaults(data)
    /\ Goto(m, IF chosen[m] = Reset THEN "counting" ELSE "clearing")
    /\ Stale
    /\ UNCHANGED <<file, uploads, backup, process, unseeded, base, target, chosen,
                   snapshot, ideal, lost, halfway, broken>>

\* seed_characters of a reset: the count ...
Count(m) ==
    /\ pc[m] = "counting"
    /\ unseeded' = SeedsFor(data) /\ data' = Counted(data)
    /\ Goto(m, "seeding")
    /\ UNCHANGED <<file, uploads, backup, process, base, target, chosen, snapshot, history>>

\* ... and the seeds, each in a transaction of its own.
Seed(m) ==
    /\ pc[m] = "seeding"
    /\ \/ /\ unseeded > 0
          /\ data' = WithSeed(data) /\ unseeded' = unseeded - 1
          /\ UNCHANGED pc
       \/ /\ unseeded = 0
          /\ Goto(m, "clearing") /\ UNCHANGED <<data, unseeded>>
    /\ UNCHANGED <<file, uploads, backup, process, base, target, chosen, snapshot, history>>

\* shutil.rmtree removes the uploads, file by file; a reset has ended.
RemoveUpload(m) ==
    /\ pc[m] = "clearing"
    /\ \E i \in uploads : uploads' = uploads \ {i}
    /\ UNCHANGED <<file, data, backup, process, unseeded, pc, base, target, chosen,
                   snapshot, history>>

Clear(m) ==
    /\ pc[m] = "clearing" /\ uploads = {}
    /\ \/ /\ chosen[m] = Reset
          /\ Goto(m, "idle") /\ Unchosen(m)
          /\ halfway' = FALSE /\ broken' = FALSE
       \/ /\ chosen[m] # Reset
          /\ Goto(m, "filling") /\ UNCHANGED <<chosen, halfway, broken>>
    /\ UNCHANGED <<disk, process, unseeded, base, target, snapshot, ideal, fresh, lost>>

\* shutil.copytree puts those of the archive in their place; a restore has ended.
CopyUpload(m) ==
    /\ pc[m] = "filling"
    /\ \E i \in chosen[m].uploads \ uploads : uploads' = uploads \cup {i}
    /\ UNCHANGED <<file, data, backup, process, unseeded, pc, base, target, chosen,
                   snapshot, history>>

\* Mutant: copytree has nothing to copy.
Fill_Forgets(m) ==
    /\ pc[m] = "filling"
    /\ Goto(m, "idle") /\ Unchosen(m)
    /\ halfway' = ~ chosen[m].clean /\ broken' = FALSE
    /\ UNCHANGED <<disk, process, unseeded, base, target, snapshot, ideal, fresh, lost>>

Fill(m) ==
    /\ pc[m] = "filling" /\ chosen[m].uploads \subseteq uploads
    /\ Goto(m, "idle") /\ Unchosen(m)
    /\ halfway' = ~ chosen[m].clean /\ broken' = FALSE
    /\ UNCHANGED <<disk, process, unseeded, base, target, snapshot, ideal, fresh, lost>>

-----------------------------------------------------------------------------
(* backup_system, in a thread *)

\* backup_to: a consistent copy of the database; what seeds it lacks, a restore of it
\* does not create. Bound: one archive is downloaded.
Snapshot ==
    /\ process = "serving" /\ pc[Backup] = "idle" /\ backup = None
    /\ file = "complete"
    /\ snapshot' = [data EXCEPT !.cut = @ \/ data.seeded < Seeds]
    /\ fresh' = [fresh EXCEPT ![Backup] = Quiet]
    /\ Goto(Backup, "copied")
    /\ UNCHANGED <<disk, process, unseeded, base, target, chosen,
                   ideal, lost, halfway, broken>>

\* The uploads are added, as they are by then, and the archive is sent.
Collect ==
    /\ pc[Backup] = "copied"
    /\ backup' = [kind |-> "kindred", data |-> snapshot, uploads |-> uploads,
                  clean |-> fresh[Backup] /\ ~ halfway]
    /\ snapshot' = Blank
    /\ fresh' = [fresh EXCEPT ![Backup] = FALSE]
    /\ Goto(Backup, "idle")
    /\ UNCHANGED <<file, data, uploads, process, unseeded, base, target, chosen,
                   ideal, lost, halfway, broken>>

-----------------------------------------------------------------------------
(* PATCH /api/settings, in a thread *)

\* get_settings; without tables it raises, and leaves an empty file.
ReadSection(p) ==
    /\ process = "serving" /\ pc[p] = "idle"
    /\ Touch
    /\ \/ /\ file = "complete"
          /\ base' = [base EXCEPT ![p] = data.section]
          /\ fresh' = [fresh EXCEPT ![p] = TRUE]
          /\ Goto(p, "merged")
       \/ file # "complete" /\ UNCHANGED <<pc, base, fresh>>
    /\ UNCHANGED <<data, uploads, backup, process, unseeded, target, chosen, snapshot,
                   ideal, lost, halfway, broken>>

\* set_setting opens its connection ...
Connect(p) ==
    /\ pc[p] = "merged"
    /\ Touch
    /\ Goto(p, "connected")
    /\ UNCHANGED <<data, uploads, backup, process, unseeded, base, target, chosen,
                   snapshot, history>>

\* ... and commits the section it has merged.
Commit(p) ==
    /\ pc[p] = "connected" /\ file = "complete"
    /\ data' = [data EXCEPT !.section = Merge(base[p], Patch[p])]
    /\ lost' = (lost \/ ~ fresh[p] \/ ~ Quiet \/ base[p] = Missing)
    /\ ideal' = IF lost' THEN Default ELSE Merge(ideal, Patch[p])
    /\ fresh' = [r \in DOMAIN fresh |-> fresh[r] /\ r = Backup]
    /\ base' = [base EXCEPT ![p] = Missing]
    /\ Goto(p, "ended")
    /\ UNCHANGED <<file, uploads, backup, process, unseeded, target, chosen, snapshot,
                   halfway, broken>>

\* Or it fails (the database is busy, or has no tables), or commits to a file that
\* has no name.
NoCommit(p) ==
    /\ pc[p] \in {"connected", "stranded"}
    /\ base' = [base EXCEPT ![p] = Missing]
    /\ fresh' = [fresh EXCEPT ![p] = FALSE]
    /\ Goto(p, "ended")
    /\ UNCHANGED <<disk, process, unseeded, target, chosen, snapshot,
                   ideal, lost, halfway, broken>>

-----------------------------------------------------------------------------
(* Characters and their avatars *)

\* upload_avatar: the character exists, and the body is awaited.
CheckCharacter(u) ==
    /\ process = "serving" /\ pc[u] = "idle" /\ LoopFreeFor(u)
    /\ \E i \in data.people \cap Pictured : target' = [target EXCEPT ![u] = i]
    /\ Goto(u, "reading")
    /\ UNCHANGED <<disk, process, unseeded, base, chosen, snapshot, history>>

\* The body is too large, or the client has gone; or the file is not written to its end,
\* or the character not told of it.
Reject(u) ==
    /\ pc[u] \in {"reading", "storing"} /\ LoopFreeFor(u)
    /\ target' = [target EXCEPT ![u] = 0]
    /\ Goto(u, "idle")
    /\ UNCHANGED <<disk, process, unseeded, base, chosen, snapshot, history>>

\* The body is there, and written under the character's id ...
SaveFile(u) ==
    /\ pc[u] = "reading" /\ LoopFreeFor(u)
    /\ uploads' = uploads \cup {target[u]}
    /\ Goto(u, "storing")
    /\ UNCHANGED <<file, data, backup, process, unseeded, base, target, chosen, snapshot,
                   history>>

\* ... and the character, if there is still one, is told.
SetAvatar(u) ==
    /\ pc[u] = "storing"
    /\ data' = [data EXCEPT !.avatars = @ \cup ({target[u]} \cap data.people)]
    /\ target' = [target EXCEPT ![u] = 0]
    /\ Goto(u, "idle")
    /\ UNCHANGED <<file, uploads, backup, process, unseeded, base, chosen, snapshot, history>>

\* create_character, in a thread: by itself, for a card that is imported, or for a copy
\* of a character, with whatever avatar_url it is given. A seeding that finds it creates
\* nothing. Bound: the seeds still to come have their ids.
CreateCharacter ==
    /\ process = "serving" /\ file = "complete"
    /\ data.last + unseeded < MaxId
    /\ data' = [WithCharacter(data) EXCEPT !.cut = @ \/ data.seeded < Seeds]
    /\ UNCHANGED <<file, uploads, backup, process, unseeded, pc, base, target, chosen,
                   snapshot, history>>

\* update_character, in a thread, with another avatar_url.
EditAvatar ==
    /\ process = "serving"
    /\ \E i \in data.avatars : data' = [data EXCEPT !.avatars = @ \ {i}]
    /\ UNCHANGED <<file, uploads, backup, process, unseeded, pc, base, target, chosen,
                   snapshot, history>>

\* delete_character, in a thread; its file stays. Bounds: those in Pictured, and a
\* table is emptied only when there are ids left to seed it again.
DeleteCharacter ==
    /\ process = "serving"
    /\ \E i \in data.people \cap Pictured :
          /\ data.people # {i} \/ data.last + Seeds <= MaxId
          /\ data' = [data EXCEPT !.people = @ \ {i}, !.avatars = @ \ {i}]
    /\ UNCHANGED <<file, uploads, backup, process, unseeded, pc, base, target, chosen,
                   snapshot, history>>

-----------------------------------------------------------------------------

Next ==
    \/ Boot \/ BootSeed \/ Serve \/ Crash
    \/ \E m \in Maintainer :
          \/ Begin(m) \/ Check(m) \/ Unlink(m)
          \/ Copy(m) \/ Copied(m) \/ ReplaceFails(m) \/ Schema(m)
          \/ Defaults(m) \/ Count(m) \/ Seed(m)
          \/ RemoveUpload(m) \/ Clear(m) \/ CopyUpload(m) \/ Fill(m)
    \/ Snapshot \/ Collect
    \/ \E p \in Patcher : ReadSection(p) \/ Connect(p) \/ Commit(p) \/ NoCommit(p)
    \/ \E u \in Uploader : CheckCharacter(u) \/ Reject(u) \/ SaveFile(u) \/ SetAvatar(u)
    \/ CreateCharacter \/ EditAvatar \/ DeleteCharacter

Spec == Init /\ [][Next]_vars

-----------------------------------------------------------------------------

Archive == {None, Newer, Reset} \cup
           [kind : {"kindred"}, data : Data, uploads : SUBSET (1..MaxId), clean : BOOLEAN]

\* Types; an avatar is a character's, ids are given in order, and one request at
\* most has the files in hand.
TypeOK ==
    /\ file \in {"absent", "blank", "torn", "newer", "complete"}
    /\ data \in Data
    /\ data.avatars \subseteq data.people /\ data.people \subseteq 1..data.last
    /\ uploads \subseteq 1..MaxId
    /\ backup \in Archive /\ \A m \in Maintainer : chosen[m] \in Archive
    /\ process \in {"down", "seeding", "serving"} /\ unseeded \in 0..Seeds
    /\ DOMAIN pc = Request
    /\ \A r, s \in Maintainer \cup Uploader : Busy(r) /\ Busy(s) => r = s
    /\ \A p \in Patcher : base[p] \in Section
    /\ \A u \in Uploader : target[u] \in 0..MaxId
    /\ snapshot \in Data
    /\ ideal \in Section
    /\ fresh \in [Patcher \cup {Backup} -> BOOLEAN]
    /\ lost \in BOOLEAN /\ halfway \in BOOLEAN /\ broken \in BOOLEAN

Settled == process = "serving" /\ Quiet /\ ~ broken

\* Whatever dies, fails or is refused on the way: a process that serves, and whose last
\* replacement of the database did not fail, has a complete one with every seed created
\* in it, unless seeding had to stop for good: with some seeds in the table (a crash or
\* a failure between two of them), because a character was created before them
\* (seed_characters), or in the database a backup was made of. A restart repairs
\* whatever else a failed replacement has left, and a backup of a newer build never
\* replaces a database (_validate_restorable_database).
CompleteWhileServing ==
    Settled => file = "complete" /\ (data.cut \/ data.seeded = Seeds)

\* As long as no patch was merged into a section that another patch, a reset or a
\* restore had replaced meanwhile, the section is what patches applied one after the
\* other make of the defaults or of the section restored; restarts change nothing.
SerialWhenApart == Settled /\ ~ lost => data.section = ideal

\* An uploaded avatar has its file for as long as the character refers to it, and so it
\* has in a backup taken while nothing was being replaced, through deletions, restores
\* and resets while the upload is awaited. Only a restore cut off between the database
\* and the uploads, or among the uploads, breaks it (upload_avatar, restore_system). An
\* avatar_url that came with a card or an edit need have no file
\* (docs/CHARACTER_CARDS.md:181).
AvatarsHaveFiles ==
    /\ Settled /\ ~ halfway => data.avatars \subseteq uploads
    /\ backup # None /\ backup.clean => backup.data.avatars \subseteq backup.uploads

=============================================================================
