---- MODULE Vault ----
(***************************************************************************)
(* Backups, restores and the license: /api/backup of app/routers/bills.py, *)
(* /api/maintenance of app/routers/maintenance.py, app/licensing.py.  The  *)
(* shop goes on selling while they run.  In SQLite's WAL mode the database *)
(* file lags behind the database until a checkpoint.                       *)
(***************************************************************************)
EXTENDS Integers, Sequences, FiniteSetsExt

CONSTANTS Workers,
          Kept,       \* MAX_BACKUPS, and the 10 of backup_now
          MaxWrites, MaxEntries, MaxInner  \* bounds

VARIABLES live,      \* the database: the writes it holds, whose license, whether it has tables
          disk,      \* the same of its main file, what copying the file yields
          shelf,     \* entries of backups/, in the order they were made; "gone" ones are deleted
          inner,     \* what each file of the folder backups/pre_restore holds
          told,      \* the entry the last /api/backup answered with ok
          written,   \* writes committed so far
          activated, \* this machine has a license
          worker,
          slipped,   \* history: writes committed between a restore's snapshot and its overwrite
          mishap     \* history: which of "copy", "license" and "scrub" something went wrong with

vars == <<live, disk, shelf, inner, told, written, activated, worker, slipped, mishap>>
others == <<told, written, activated, slipped>>

idle == [at |-> "idle", from |-> 0, copy |-> 0, saved |-> "none"]
Content == [data : SUBSET (1 .. MaxWrites), license : {"none", "own", "foreign"}, whole : BOOLEAN]
New == [data |-> {}, license |-> "none", whole |-> TRUE]
Empty == [New EXCEPT !.whole = FALSE]

Init == /\ live = New /\ disk = New
        /\ shelf = <<>> /\ inner = <<>>
        /\ told = 0 /\ written = 0 /\ activated = FALSE
        /\ worker = [w \in Workers |-> idle]
        /\ slipped = {} /\ mishap = {}

At(w, place) == worker[w].at = place
Done(w) == worker' = [worker EXCEPT ![w] = idle]
Someone(places) == \E w \in Workers : worker[w].at \in places
Fails(kind) == mishap' = mishap \cup {kind}
OfKind(kind) == {e \in DOMAIN shelf : shelf[e].kind = kind}
Entry(kind, content) == [kind |-> kind, content |-> content]
Room == Len(shelf) < MaxEntries
MakeEntry(kind, content) == shelf' = Append(shelf, Entry(kind, content))
Newest(n, entries) == {e \in entries : Cardinality({o \in entries : o > e}) < n}

\* any committed write of the shop
Write == /\ live.whole /\ written < MaxWrites
         /\ written' = written + 1
         /\ live' = [live EXCEPT !.data = @ \cup {written'}]
         /\ slipped' = IF Someone({"license", "overwrite"}) THEN slipped \cup {written'} ELSE slipped
         /\ UNCHANGED <<disk, shelf, inner, told, activated, worker, mishap>>

\* SQLite, when it likes
Checkpoint == /\ disk /= live /\ disk' = live
              /\ UNCHANGED <<live, shelf, inner, others, worker, mishap>>

Activate == /\ live.whole /\ ~activated
            /\ live' = [live EXCEPT !.license = "own"]
            /\ activated' = TRUE
            /\ mishap' = IF \E w \in Workers : ~At(w, "idle") THEN mishap \cup {"license"} ELSE mishap
            /\ UNCHANGED <<disk, shelf, inner, told, written, worker, slipped>>

----
(***************************************************************************)
(* Backups.                                                                *)
(***************************************************************************)
\* /api/backup/upload: a verified database, from another licensed machine
UploadBackup ==
    /\ Room /\ MakeEntry("upload", [New EXCEPT !.license = "foreign"])
    /\ UNCHANGED <<live, disk, inner, others, worker, mishap>>

\* entries of backups/ by name, and how many names come after that of entry e
Place == [gone |-> 0, full |-> 1, file |-> 2, folder |-> 3, safety |-> 4, upload |-> 5]
After(book, e) ==
    LET later(o) == \/ Place[book[o].kind] > Place[book[e].kind]
                    \/ book[o].kind = book[e].kind /\ o > e
    IN  Cardinality({o \in DOMAIN book : later(o)})
            + (IF inner /= <<>> /\ Place[book[e].kind] < Place.folder THEN 1 ELSE 0)

\* /api/backup copies the main file into a directory; then the entries last by name
\* are kept and the other directories deleted, the one just made not excepted
BackupNow ==
    LET book == Append(shelf, Entry("full", disk))
        over == {e \in DOMAIN book : book[e].kind \notin {"file", "gone"} /\ After(book, e) >= Kept}
        folderOver == inner /= <<>> /\ Cardinality(OfKind("safety") \cup OfKind("upload")) >= Kept
    IN  /\ live.whole /\ Room
        /\ shelf' = [e \in DOMAIN book |-> IF e \in over THEN Entry("gone", Empty) ELSE book[e]]
        /\ inner' = IF folderOver THEN <<>> ELSE inner
        /\ told' = Len(book)
        /\ mishap' = IF over \cap OfKind("safety") /= {} \/ folderOver
                     THEN mishap \cup {"copy"} ELSE mishap
        /\ UNCHANGED <<live, disk, written, activated, worker, slipped>>

\* create_backup: VACUUM INTO a file ...
BackupSnapshot(w) ==
    /\ At(w, "idle") /\ live.whole /\ Room
    /\ MakeEntry("file", live)
    /\ worker' = [worker EXCEPT ![w] = [idle EXCEPT !.at = "scrub", !.from = Len(shelf) + 1]]
    /\ UNCHANGED <<live, disk, inner, others, mishap>>

\* ... scrub its license rows: a failure is logged and swallowed ...
BackupScrub(w, ok) ==
    /\ At(w, "scrub")
    /\ worker' = [worker EXCEPT ![w].at = "prune"]
    /\ IF ok THEN shelf' = [shelf EXCEPT ![worker[w].from].content.license = "none"] /\ UNCHANGED mishap
             ELSE shelf' = shelf /\ Fails("scrub")
    /\ UNCHANGED <<live, disk, inner, others>>

\* ... and delete the oldest files
BackupPrune(w) ==
    /\ At(w, "prune") /\ Done(w)
    /\ shelf' = [e \in DOMAIN shelf |-> IF e \in OfKind("file") \ Newest(Kept, OfKind("file"))
                                        THEN Entry("gone", Empty) ELSE shelf[e]]
    /\ UNCHANGED <<live, disk, inner, others, mishap>>

----
(***************************************************************************)
(* Restores.  /api/backup/restore takes directories: it saves the license, *)
(* copies the main file to a safety directory and overwrites;              *)
(* /api/maintenance/restore takes files: a snapshot, the license, and the  *)
(* overwrite.  Both put the saved license back.                            *)
(***************************************************************************)
Overlap(w) == IF Someone({"reapply"}) THEN {"license"} ELSE {}

RestoreDirectory(w, e, ok) ==
    /\ At(w, "idle") /\ live.whole
    /\ shelf[e].kind \in {"full", "upload", "safety"} /\ shelf[e].content.whole
    /\ worker' = [worker EXCEPT ![w] = [idle EXCEPT !.at = "safety", !.from = e,
                                                    !.saved = IF ok THEN live.license ELSE "none"]]
    /\ mishap' = mishap \cup Overlap(w) \cup (IF ok THEN {} ELSE {"license"})
    /\ UNCHANGED <<live, disk, shelf, inner, others>>

RestoreFile(w, e) ==
    /\ At(w, "idle") /\ live.whole
    /\ shelf[e].kind = "file"
    /\ worker' = [worker EXCEPT ![w] = [idle EXCEPT !.at = "snapshot", !.from = e]]
    /\ UNCHANGED <<live, disk, shelf, inner, others, mishap>>

SafetyCopy(w) ==
    /\ At(w, "safety") /\ Room
    /\ MakeEntry("safety", disk)
    /\ worker' = [worker EXCEPT ![w].at = "overwrite", ![w].copy = Len(shelf) + 1]
    /\ mishap' = IF disk.data = live.data THEN mishap ELSE mishap \cup {"copy"}
    /\ UNCHANGED <<live, disk, inner, others>>

\* the directory is named by the second: over the copy made in the same one
SafetyCopyAgain(w) == \E e \in Newest(1, OfKind("safety")) :
    /\ At(w, "safety") /\ Fails("copy")
    /\ shelf' = [shelf EXCEPT ![e].content = disk]
    /\ worker' = [worker EXCEPT ![w].at = "overwrite", ![w].copy = e]
    /\ UNCHANGED <<live, disk, inner, others>>

\* the copy failed: answered with 500, and its directory is removed, with the copy
\* that another restore made in the same second
SafetyFails(w) ==
    /\ At(w, "safety") /\ Done(w)
    /\ \/ UNCHANGED <<shelf, mishap>>
       \/ \E e \in Newest(1, OfKind("safety")) :
              shelf' = [shelf EXCEPT ![e] = Entry("gone", Empty)] /\ Fails("copy")
    /\ UNCHANGED <<live, disk, inner, others>>

\* by the backup API, into a file named by the second; a failure is only logged
RestoreSnapshot(w) ==
    /\ At(w, "snapshot") /\ Len(inner) < MaxInner
    /\ worker' = [worker EXCEPT ![w].at = "license"]
    /\ \/ inner' = Append(inner, live.data) /\ UNCHANGED mishap
       \/ inner' = inner /\ Fails("copy")
       \/ /\ inner /= <<>> /\ Fails("copy")
          /\ inner' = [inner EXCEPT ![Len(inner)] = live.data]
    /\ UNCHANGED <<live, disk, shelf, others>>

\* local_license_settings
RestoreLicense(w, ok) ==
    /\ At(w, "license")
    /\ worker' = [worker EXCEPT ![w].at = "overwrite", ![w].saved = IF ok THEN live.license ELSE "none"]
    /\ mishap' = mishap \cup Overlap(w) \cup (IF ok THEN {} ELSE {"license"})
    /\ UNCHANGED <<live, disk, shelf, inner, others>>

\* SQLite's backup API is all or nothing; a source deleted meanwhile is opened anew, empty
RestoreOverwrite(w) ==
    /\ At(w, "overwrite")
    /\ live' = shelf[worker[w].from].content
    /\ worker' = [worker EXCEPT ![w].at = "reapply"]
    /\ IF live'.whole THEN UNCHANGED mishap ELSE Fails("license")
    /\ UNCHANGED <<disk, shelf, inner, others>>

\* a file restore that fails leaves the database alone; a directory restore copies
\* the safety copy over the main file, and the WAL beside it may win
RestoreFails(w) ==
    /\ At(w, "overwrite") /\ Done(w)
    /\ IF worker[w].copy = 0 THEN UNCHANGED <<live, disk, mishap>>
       ELSE /\ live' \in {live, shelf[worker[w].from].content, shelf[worker[w].copy].content}
            /\ disk' = shelf[worker[w].copy].content
            /\ mishap' = mishap \cup {"copy", "license"}
    /\ UNCHANGED <<shelf, inner, others>>

\* Faulty variant: the saved rows are set on top of what the backup brought.
ReapplyOnTop(w) ==
    /\ At(w, "reapply") /\ Done(w)
    /\ \/ /\ live.whole /\ UNCHANGED mishap
          /\ live' = [live EXCEPT !.license = IF worker[w].saved = "none" THEN @ ELSE worker[w].saved]
       \/ UNCHANGED live /\ Fails("license")
    /\ UNCHANGED <<disk, shelf, inner, others>>

\* reapply_license_settings: every license row goes, the saved ones return; a
\* failure is logged and swallowed
Reapply(w) ==
    /\ At(w, "reapply") /\ Done(w)
    /\ \/ live.whole /\ live' = [live EXCEPT !.license = worker[w].saved] /\ UNCHANGED mishap
       \/ UNCHANGED live /\ Fails("license")
    /\ UNCHANGED <<disk, shelf, inner, others>>

\* the process stops, perhaps half way, and boots: init creates the tables again
Boot == /\ worker' = [w \in Workers |-> idle]
        /\ live' = [live EXCEPT !.whole = TRUE]
        /\ mishap' = mishap \cup (IF Someone({"reapply"}) THEN {"license"} ELSE {})
                            \cup (IF Someone({"scrub"}) THEN {"scrub"} ELSE {})
        /\ UNCHANGED <<disk, shelf, inner, others>>

Next == \/ Write \/ Checkpoint \/ Activate \/ UploadBackup \/ BackupNow \/ Boot
        \/ \E w \in Workers :
              \/ BackupSnapshot(w) \/ BackupPrune(w)
              \/ \E ok \in BOOLEAN : \/ BackupScrub(w, ok) \/ RestoreLicense(w, ok)
                                     \/ \E e \in DOMAIN shelf : RestoreDirectory(w, e, ok)
              \/ \E e \in DOMAIN shelf : RestoreFile(w, e)
              \/ SafetyCopy(w) \/ SafetyCopyAgain(w) \/ SafetyFails(w) \/ RestoreSnapshot(w)
              \/ RestoreOverwrite(w) \/ RestoreFails(w) \/ Reapply(w)

Spec == Init /\ [][Next]_vars

\* Databases and their copies hold writes that were committed.
TypeOK ==
    /\ {live, disk} \subseteq Content
    /\ shelf \in Seq([kind : {"upload", "safety", "file", "full", "gone"}, content : Content])
    /\ \A i \in DOMAIN inner : inner[i] \subseteq 1 .. written
    /\ told \in 0 .. Len(shelf)

Copies == (UNION {inner[i] : i \in DOMAIN inner})
              \cup (UNION {shelf[e].content.data : e \in OfKind("safety")})

\* Restores, whatever overlaps them: a committed write is in the database or in a
\* copy taken before a restore, unless it was committed while a restore ran or the
\* copy failed, lagged behind, was overwritten or was pruned.  With no restore under
\* way the database carries this machine's license and no other, and so does no file
\* of create_backup, unless the step that sees to it failed, was cut off or
\* overlapped another request.
RestoreLosesNothing ==
    /\ "copy" \notin mishap =>
          1 .. written \ slipped \subseteq live.data \cup Copies
    /\ "license" \notin mishap /\ ~Someone({"reapply"}) =>
          live.license = IF activated THEN "own" ELSE "none"
    /\ "scrub" \notin mishap => \A e \in OfKind("file") :
          shelf[e].content.license = "none" \/ \E w \in Workers : At(w, "scrub") /\ worker[w].from = e

\* The backup that /api/backup has just answered with ok is on disk.
LatestBackupKept == told > 0 => shelf[told].kind = "full"
====
