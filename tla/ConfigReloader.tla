--------------------------- MODULE ConfigReloader ---------------------------
(***************************************************************************)
(* The sidecar of pkg/natsreloader that tells a NATS server to reload when*)
(* a configuration file changes, the files, and the server.  File 1 is the*)
(* main configuration; what it includes depends on its content.  The      *)
(* reloader follows the files by inotify watches, one per file, or, when   *)
(* inotify is exhausted, by polling digests.                               *)
(*                                                                         *)
(* A watch belongs to the inode: it ends when the file is removed, replaced*)
(* or moved away.  A content is a member of Versions and its own digest.   *)
(***************************************************************************)
EXTENDS Naturals, Sequences, FiniteSets

CONSTANTS
    NumFiles, Versions,
    Includes,    \* the files a main configuration of a version includes
    Modes,       \* "watch" and/or "poll": what the node's inotify allows
    Moves,       \* whether users move a file away (mv) before writing it anew
    MaxRetries,  \* --max-retries
    MaxEdits,    \* bound: changes of files
    MaxCrashes   \* bound: crashes of the server and of the reloader

Files == 1..NumFiles
None == "none"   \* a file that is not there, a digest not recorded

ASSUME ReloaderAssumption ==
    /\ {NumFiles, MaxRetries, MaxEdits, MaxCrashes} \subseteq Nat /\ NumFiles > 0
    /\ None \notin Versions /\ Includes \in [Versions -> SUBSET Files]
    /\ Modes \subseteq {"watch", "poll"} /\ Modes # {} /\ Moves \in BOOLEAN

VARIABLES
    disk,      \* content of each file
    edits, crashes,
    up,        \* the server runs (its pid file names a live process)
    loaded,    \* content of each file as the server last read it
    hup,       \* a signal waits for the server
    pc, mode,  \* of the reloader
    files,     \* WatchedFiles
    watched,   \* files with a live inotify watch
    queue,     \* inotify events
    cache,     \* lastConfigAppliedCache
    updated,   \* updatedFiles is not empty
    deleted,   \* deletedFiles
    ticker,    \* tickerRunning
    attempts,  \* of reload
    signals,   \* history: signals sent
    ahead,     \* history: files the server read before the cache had them
    skipped,   \* history: files whose changed digest was not looked at
    blind,     \* history: digests preloaded that the server has not read
    rejected,  \* history: the server refused its last reload
    moved      \* history: files that were moved away while watched

diskVars == <<disk, edits, crashes>>
serverVars == <<up, loaded, hup, rejected>>
watchVars == <<watched, queue>>
loopVars == <<cache, updated, deleted, ticker, attempts>>
vars == <<diskVars, serverVars, pc, mode, files, watchVars, loopVars, signals,
          ahead, skipped, blind, moved>>

Init ==
    /\ disk \in [Files -> Versions] /\ edits = 0 /\ crashes = 0
    /\ up = TRUE /\ loaded = disk /\ hup = FALSE
    /\ pc = "start" /\ mode = "watch" /\ files = {} /\ watched = {} /\ queue = <<>>
    /\ cache = [f \in Files |-> None] /\ updated = FALSE /\ deleted = {}
    /\ ticker = FALSE /\ attempts = 0
    /\ signals = 0 /\ ahead = {} /\ skipped = {} /\ blind = FALSE /\ rejected = FALSE
    /\ moved = {}
-----------------------------------------------------------------------------
(* Starting. *)

\* getServerFiles; a missing include is an error.
ServerFiles == {1} \cup (IF disk[1] = None THEN {} ELSE Includes[disk[1]])
AllPresent == \A f \in ServerFiles : disk[f] # None

\* The process ends; its container starts it again.
Exit ==
    /\ pc' = "start" /\ mode' = "watch" /\ files' = {} /\ watched' = {}
    /\ queue' = <<>> /\ cache' = [f \in Files |-> None] /\ updated' = FALSE
    /\ deleted' = {} /\ ticker' = FALSE /\ attempts' = 0
    /\ ahead' = {} /\ skipped' = {} /\ blind' = FALSE /\ moved' = {}
    /\ UNCHANGED <<diskVars, serverVars, signals>>

\* waitForProcess finds the server, or the process ends after its retries.
FindServer ==
    /\ pc = "start" /\ up
    /\ mode' \in Modes /\ pc' = "watch"
    /\ UNCHANGED <<diskVars, serverVars, files, watchVars, loopVars, signals,
                   ahead, skipped, blind, moved>>

\* The files are looked up, and watched; then their digests are taken.  When a
\* watch is refused for want of inotify resources, polling looks them up again.
Watch ==
    /\ pc = "watch" /\ AllPresent
    /\ files' = ServerFiles
    /\ watched' = IF mode = "watch" THEN ServerFiles ELSE {}
    /\ pc' = "preload" \/ (mode = "poll" /\ pc' = "fallback")
    /\ UNCHANGED <<diskVars, serverVars, mode, queue, loopVars, signals,
                   ahead, skipped, blind, moved>>

\* runPollingMode parses the files known by now and adds what they include.
Fallback ==
    /\ pc = "fallback" /\ AllPresent /\ \A f \in files : disk[f] # None
    /\ files' = files \cup ServerFiles /\ pc' = "preload"
    /\ UNCHANGED <<diskVars, serverVars, mode, watchVars, loopVars, signals,
                   ahead, skipped, blind, moved>>

Unsynced(fs) == {f \in fs : disk[f] # None /\ loaded[f] # disk[f]}

Preload ==
    /\ pc = "preload" /\ \A f \in files : disk[f] # None
    /\ cache' = [f \in Files |-> IF f \in files THEN disk[f] ELSE None]
    /\ blind' = (~hup /\ Unsynced(files) # {})
    /\ ahead' = {} /\ pc' = "select"
    /\ UNCHANGED <<diskVars, serverVars, mode, files, watchVars, updated, deleted,
                   ticker, attempts, signals, skipped, moved>>

StartFails ==
    /\ \/ pc \in {"watch", "fallback"} /\ ~AllPresent
       \/ pc \in {"preload", "fallback"} /\ \E f \in files : disk[f] = None
    /\ Exit
-----------------------------------------------------------------------------
(* The event loop of Run. *)

Changed(f) == disk[f] # None /\ cache[f] # disk[f]

\* Mutant: the digest of a changed file is not recorded.
RecordNothing(f) ==
    updated' = (updated \/ Changed(f)) /\ UNCHANGED <<cache, ahead, skipped>>

\* One file of a batch counts as updated: the others are not looked at.
Record(f) ==
    IF Changed(f) /\ ~updated
    THEN /\ cache' = [cache EXCEPT ![f] = disk[f]]
         /\ updated' = TRUE /\ ahead' = ahead \ {f} /\ skipped' = skipped \ {f}
    ELSE /\ skipped' = IF Changed(f) THEN skipped \cup {f} ELSE skipped
         /\ UNCHANGED <<cache, updated, ahead>>

\* handleEvent takes the next event of the batch; only Remove counts as a
\* removal, any other event of a file that is not there is dropped.
HandleEvent ==
    /\ pc \in {"select", "drain"} /\ mode = "watch" /\ queue # <<>>
    /\ LET e == Head(queue) IN
       IF e.op = "remove"
       THEN deleted' = deleted \cup {e.file} /\ UNCHANGED <<cache, updated, ahead, skipped>>
       ELSE Record(e.file) /\ UNCHANGED deleted
    /\ queue' = Tail(queue) /\ pc' = "drain"
    /\ UNCHANGED <<diskVars, serverVars, mode, files, watched, ticker, attempts,
                   signals, blind, moved>>

\* Mutant: the ticker is not started for a batch that triggers a reload.
EndBatchReloading ==
    /\ pc = "drain"
    /\ ticker' = (ticker \/ ~updated)
    /\ pc' = IF updated THEN "reload" ELSE "select"
    /\ UNCHANGED <<diskVars, serverVars, mode, files, watchVars, cache, updated,
                   deleted, attempts, signals, ahead, skipped, blind, moved>>

\* The channel has no event ready: the batch ends, maybe before its time.
EndBatch ==
    /\ pc = "drain"
    /\ ticker' = TRUE
    /\ pc' = IF updated THEN "reload" ELSE "select"
    /\ UNCHANGED <<diskVars, serverVars, mode, files, watchVars, cache, updated,
                   deleted, attempts, signals, ahead, skipped, blind, moved>>

\* Mutant: a file that is back is watched again, its content not looked at.
TickOnlyWatches ==
    /\ pc = "select" /\ mode = "watch" /\ ticker
    /\ watched' = watched \cup {f \in deleted : disk[f] # None}
    /\ deleted' = deleted \ watched'
    /\ ticker' = (deleted' # {})
    /\ UNCHANGED <<diskVars, serverVars, pc, mode, files, queue, cache, updated,
                   attempts, signals, ahead, skipped, blind, moved>>

\* handleDeletedFiles: files that are back are watched again, the first one
\* with a new content is recorded.
Tick ==
    /\ pc = "select" /\ mode = "watch" /\ ticker
    /\ LET back == {f \in deleted : disk[f] # None}
           new == {f \in back : Changed(f)}
       IN
       /\ watched' = watched \cup back
       /\ deleted' = deleted \ back
       /\ ticker' = (deleted' # {})
       /\ IF new = {} THEN UNCHANGED <<cache, ahead, skipped>>
          ELSE LET f == CHOOSE x \in new : \A y \in new : x <= y
               IN /\ cache' = [cache EXCEPT ![f] = disk[f]]
                  /\ ahead' = ahead \ {f} /\ skipped' = (skipped \cup new) \ {f}
       /\ updated' = (new # {})
       /\ pc' = IF new # {} THEN "reload" ELSE "select"
    /\ UNCHANGED <<diskVars, serverVars, mode, files, queue, attempts, signals,
                   blind, moved>>

\* pollForChanges looks at every file; one that is gone counts as a change.
Poll ==
    /\ pc = "select" /\ mode = "poll"
    /\ cache' = [f \in Files |-> IF f \in files THEN disk[f] ELSE None]
    /\ updated' = (cache' # cache)
    /\ ahead' = {f \in ahead : cache'[f] = cache[f]}
    /\ pc' = IF cache' # cache THEN "reload" ELSE "select"
    /\ UNCHANGED <<diskVars, serverVars, mode, files, watchVars, deleted, ticker,
                   attempts, signals, skipped, blind, moved>>
-----------------------------------------------------------------------------
(* reload. *)

Signal ==
    /\ pc = "reload" /\ up
    /\ hup' = TRUE /\ blind' = FALSE /\ signals' = signals + 1
    /\ pc' = "select" /\ updated' = FALSE /\ attempts' = 0
    /\ UNCHANGED <<diskVars, up, loaded, rejected, mode, files, watchVars, cache,
                   deleted, ticker, ahead, skipped, moved>>

\* The bound is looked at before attempts is counted.
ReloadFails ==
    /\ pc = "reload" /\ ~up
    /\ IF attempts > MaxRetries THEN Exit
       ELSE /\ attempts' = attempts + 1
            /\ UNCHANGED <<diskVars, serverVars, pc, mode, files, watchVars, cache,
                           updated, deleted, ticker, signals, ahead, skipped, blind, moved>>

ReloaderCrash ==
    /\ crashes < MaxCrashes /\ pc # "start"
    /\ crashes' = crashes + 1
    /\ pc' = "start" /\ mode' = "watch" /\ files' = {} /\ watched' = {}
    /\ queue' = <<>> /\ cache' = [f \in Files |-> None] /\ updated' = FALSE
    /\ deleted' = {} /\ ticker' = FALSE /\ attempts' = 0
    /\ ahead' = {} /\ skipped' = {} /\ blind' = FALSE /\ moved' = {}
    /\ UNCHANGED <<disk, edits, serverVars, signals>>
-----------------------------------------------------------------------------
(* The server: it reads the files when it starts and on a signal, and keeps *)
(* what it has when one of them is missing.                                 *)

Reads ==
    /\ loaded' = disk /\ rejected' = FALSE
    /\ ahead' = {f \in files : cache[f] # disk[f]}

ServerReload ==
    /\ up /\ hup /\ hup' = FALSE
    /\ \/ AllPresent /\ Reads
       \/ ~AllPresent /\ rejected' = TRUE /\ UNCHANGED <<loaded, ahead>>
    /\ UNCHANGED <<diskVars, up, pc, mode, files, watchVars, loopVars, signals,
                   skipped, blind, moved>>

ServerStart ==
    /\ ~up /\ AllPresent /\ up' = TRUE /\ Reads /\ blind' = FALSE
    /\ UNCHANGED <<diskVars, hup, pc, mode, files, watchVars, loopVars, signals,
                   skipped, moved>>

ServerCrash ==
    /\ up /\ crashes < MaxCrashes
    /\ crashes' = crashes + 1 /\ up' = FALSE /\ hup' = FALSE
    /\ UNCHANGED <<disk, edits, loaded, rejected, pc, mode, files, watchVars,
                   loopVars, signals, ahead, skipped, blind, moved>>
-----------------------------------------------------------------------------
(* The files. *)

Events(f, ops) ==
    queue' = IF f \in watched
             THEN queue \o [i \in 1..Len(ops) |-> [file |-> f, op |-> ops[i]]]
             ELSE queue

Edit(f, v) ==
    /\ edits < MaxEdits /\ edits' = edits + 1
    /\ disk' = [disk EXCEPT ![f] = v]
    /\ UNCHANGED <<crashes, serverVars, pc, mode, files, loopVars, signals,
                   ahead, skipped, blind>>

\* Written in place, or created where there was none.
Overwrite(f) ==
    /\ \E v \in Versions \ {disk[f]} : Edit(f, v)
    /\ Events(f, <<"write">>) /\ UNCHANGED <<watched, moved>>

\* A file put in its place, as the swap of a ConfigMap volume does.
Replace(f) ==
    /\ disk[f] # None
    /\ \E v \in Versions \ {disk[f]} : Edit(f, v)
    /\ Events(f, <<"write", "remove">>)
    /\ watched' = watched \ {f} /\ UNCHANGED moved

Remove(f) ==
    /\ disk[f] # None /\ Edit(f, None)
    /\ Events(f, <<"remove">>)
    /\ watched' = watched \ {f} /\ UNCHANGED moved

MoveAway(f) ==
    /\ Moves /\ disk[f] # None /\ Edit(f, None)
    /\ Events(f, <<"rename">>)
    /\ watched' = watched \ {f} /\ moved' = moved \cup ({f} \cap watched)
-----------------------------------------------------------------------------
Reloader ==
    \/ FindServer \/ Watch \/ Fallback \/ Preload \/ StartFails
    \/ HandleEvent \/ EndBatch \/ Tick \/ Poll \/ Signal \/ ReloadFails

Environment ==
    \/ ServerReload \/ ServerStart \/ ServerCrash \/ ReloaderCrash
    \/ \E f \in Files : Overwrite(f) \/ Replace(f) \/ Remove(f) \/ MoveAway(f)

Next == Reloader \/ Environment

\* The processes go on, the server is restarted and takes its signals.
Fairness == WF_vars(Reloader) /\ WF_vars(ServerReload) /\ WF_vars(ServerStart)

Spec == Init /\ [][Next]_vars /\ Fairness
-----------------------------------------------------------------------------
(* Properties. *)

\* A watch that ended is not forgotten: its removal is still to be handled, or
\* the file is among the deleted ones and the ticker runs, or is started when
\* the batch ends.  Files moved away are the exception: Rename is no Remove.
Followed ==
    \A f \in files \ watched :
        \/ f \in moved
        \/ \E i \in DOMAIN queue : queue[i] = [file |-> f, op |-> "remove"]
        \/ f \in deleted /\ (ticker \/ pc = "drain")
WatchesFollowFiles ==
    mode = "watch" /\ pc \in {"preload", "select", "drain", "reload"} => Followed

\* No reload storm: every signal is paid for by an edit of its own, however
\* events are batched, digests skipped and files re-watched.
NoReloadStorm == signals <= edits

\* The server runs what is on disk, as far as the reloader watches it.
InSync == (\E f \in ServerFiles : disk[f] = None) \/ Unsynced(files) = {}

\* How a change may stay unknown: the reloader preloaded digests that the
\* server had not read; the server refused a reload while an include was
\* missing; a file was moved away; or the server read a file before its digest
\* was taken - also because another file of the batch counted as updated
\* (natsreloader.go:198) - and the file went back to the digest in the cache.
Excused ==
    \/ blind \/ rejected \/ moved # {}
    \/ \E f \in ahead : cache[f] = disk[f]

\* Once edits and crashes stop, the server comes to run what is on disk, but
\* for the four holes above.
ConfigReaches == <>[](InSync \/ Excused)
=============================================================================
