---------------------------- MODULE ChatHistory ----------------------------
(***************************************************************************)
(* The server-side conversation history: internal/chathistory/store.go and *)
(* the recording sessions of the HTTP surfaces that write to it            *)
(* (internal/responsehistory/session.go and, with the same logic,          *)
(* internal/httpapi/openai/chat/chat_history.go).                          *)
(*                                                                         *)
(* The store keeps every entry in memory and on disk as one detail file    *)
(* per entry and one index file.  An operation changes the memory and then *)
(* saves, both under one mutex; a save is a sequence of file operations,   *)
(* each of which may fail, and the process may die between two of them.    *)
(* A file is replaced atomically (temporary file, fsync, rename).          *)
(***************************************************************************)
EXTENDS Integers, FiniteSets

CONSTANTS
  Sessions,       \* the recorded requests
  Limits,         \* the retention limits an administrator may set, 0 = disabled
  InitialLimit,   \* the limit a fresh store starts with (DefaultLimit)
  Resolution,     \* revisions (nanoseconds) per CreatedAt unit (milliseconds)
  MaxEntries,     \* bound: entries ever created
  MaxClock,       \* bound: store operations that draw a revision
  MaxFailures,    \* bound: file operations that fail
  MaxCrashes,     \* bound: crashes of the process
  CrashesInSave   \* whether a crash may hit a save half way, or only a free mutex

ASSUME HistoryAssumption ==
  /\ "earlier" \notin Sessions
  /\ Limits \subseteq Nat /\ 0 \in Limits
  /\ InitialLimit \in Limits \ {0}
  /\ Resolution \in Nat \ {0}
  /\ {MaxEntries, MaxClock, MaxFailures, MaxCrashes} \subseteq Nat
  /\ MaxEntries >= 2 /\ MaxClock >= 2   \* an old file has up to two entries
  /\ CrashesInSave \in BOOLEAN

VARIABLES
  process,   \* "up", "down", or "latched": up with s.err set, every call refused
  limit, revision, details, dirty, deleted,   \* the Store's fields
  saving,    \* the save that holds the mutex: its operation and the files left to do
  files,     \* the detail files on disk
  index,     \* the index file on disk, or NoIndex
  session,   \* the recording session of each request
  clock, lastId, failures, crashes,           \* time.Now, uuid, and the bounds
  acked,     \* history: the entries whose write was reported as saved
  removed    \* history: the ids that Delete, Clear or the limit took out

memory == <<limit, revision, details, dirty, deleted>>
disk == <<files, index>>
history == <<acked, removed>>
vars == <<process, memory, saving, disk, session, clock, lastId, failures, crashes, history>>

Ids == 1..MaxEntries
Entry == [id : Ids, rev : 1..MaxClock, created : 0..MaxClock,
          status : {"streaming", "done"}, owner : Sessions \cup {"earlier"}]
NoSave == [op |-> "none", remove |-> {}, write |-> {}, target |-> 0]
NoIndex == [limit |-> -1, revision |-> -1, items |-> {}, legacy |-> FALSE]

IdsOf(entries) == {e.id : e \in entries}
Without(entries, ids) == {e \in entries : e.id \notin ids}
Named(entries, i) == CHOOSE e \in entries : e.id = i

-----------------------------------------------------------------------------
(* The store's helpers.                                                     *)

\* The order of the list: newest creation first, then newest revision.
Precedes(a, b) == \/ a.created > b.created
                  \/ a.created = b.created /\ a.rev > b.rev

\* The entries that do not fit the limit l (0 keeps them all).
Overflow(entries, l) ==
  IF l = 0 THEN {}
  ELSE {e \in entries : Cardinality({o \in entries : Precedes(o, e)}) >= l}

\* Seed of a mutant: nextRevisionLocked hands out the stored revision again.
nextRevision_Kept == revision

nextRevision == IF clock + 1 <= revision THEN revision + 1 ELSE clock + 1

\* The marks of markDetailDirtyLocked and markDetailDeletedLocked: a written
\* entry is no longer deleted, a dropped or trimmed one is.
MarkedDeleted(written, dropped, over) == (deleted \ written) \cup dropped \cup over
MarkedDirty(written, dropped, over) == (dirty \cup written) \ (dropped \cup over)

\* The memory an operation leaves, its entries trimmed to the limit by
\* rebuildIndexLocked, and the save that it then runs under the mutex.
Commit(op, entries, l, written, dropped, target) ==
  LET over == IdsOf(Overflow(entries, l))
  IN /\ limit' = l
     /\ revision' = nextRevision /\ clock' = clock + 1
     /\ details' = Without(entries, over)
     /\ dirty' = MarkedDirty(written, dropped, over)
     /\ deleted' = MarkedDeleted(written, dropped, over)
     /\ removed' = removed \cup dropped \cup over
     /\ saving' = [op |-> op, remove |-> deleted', write |-> dirty', target |-> target]
     /\ UNCHANGED <<process, disk, failures, crashes, acked>>

\* The mutex is free, the store is not latched and the bounds allow one more.
Free == process = "up" /\ saving = NoSave /\ clock < MaxClock

Start(s) ==
  LET e == [id |-> lastId + 1, rev |-> nextRevision,
            created |-> (clock + 1) \div Resolution,
            status |-> "streaming", owner |-> s]
  IN /\ lastId < MaxEntries
     /\ lastId' = lastId + 1
     /\ Commit("start", details \cup {e}, limit, {e.id}, {}, e.id)

Update(i, status) ==
  LET e == [Named(details, i) EXCEPT !.rev = nextRevision, !.status = status]
  IN /\ Commit("update", Without(details, {i}) \cup {e}, limit, {i}, {}, i)
     /\ UNCHANGED lastId

-----------------------------------------------------------------------------
(* The recording session of a request.                                      *)

Enabled == process = "up" /\ limit # 0

\* The request asks Enabled() and starts its entry; with the store disabled,
\* latched or gone it is answered without being recorded.
Open(s) ==
  /\ session[s].pc = "new" /\ Free
  /\ IF Enabled
     THEN Start(s) /\ session' = [session EXCEPT ![s].pc = "open", ![s].entry = lastId + 1]
     ELSE session' = [session EXCEPT ![s].pc = "closed"] /\ UNCHANGED <<process, memory, saving, disk,
            clock, lastId, failures, crashes, history>>

OpenLatched(s) ==
  /\ session[s].pc = "new" /\ process = "latched"
  /\ session' = [session EXCEPT ![s].pc = "closed"]
  /\ UNCHANGED <<process, memory, saving, disk, clock, lastId, failures, crashes, history>>

After(status) == IF status = "done" THEN "closed" ELSE "open"

\* Progress, Success, Error or stopped: an update of the session's entry.  When
\* its save fails the session only logs it and goes on.
Record(s, status) ==
  /\ session[s].pc = "open" /\ Free
  /\ session[s].entry \in IdsOf(details)
  /\ Update(session[s].entry, status)
  /\ session' = [session EXCEPT ![s].pc = After(status)]

\* The entry is not found any more (deleted, cleared or trimmed meanwhile).
RecordMissing(s, status) ==
  /\ session[s].pc = "open" /\ Free
  /\ session[s].entry \notin IdsOf(details)
  /\ session' = [session EXCEPT ![s].pc = "recreate", ![s].pending = status]
  /\ UNCHANGED <<process, memory, saving, disk, clock, lastId, failures, crashes, history>>

\* Seed of a mutant: a session takes a failed save for a missing entry.
Recreating_AnyError(s) == session[s].pc \in {"recreate", "open"} /\ dirty # {}

\* handlePersistError recreates an entry for a missing one only.
Recreating(s) == session[s].pc = "recreate"

\* retryMissingEntry starts a new entry; a disabled store ends the recording.
Recreate(s) ==
  /\ Recreating(s) /\ Free
  /\ limit # 0
  /\ Start(s)
  /\ session' = [session EXCEPT ![s].pc = "again", ![s].entry = lastId + 1]

RecreateDisabled(s) ==
  /\ session[s].pc = "recreate" /\ Free
  /\ limit = 0
  /\ session' = [session EXCEPT ![s].pc = "closed"]
  /\ UNCHANGED <<process, memory, saving, disk, clock, lastId, failures, crashes, history>>

\* The update is tried once more, on the new entry; missing again ends it.
RecordAgain(s) ==
  /\ session[s].pc = "again" /\ Free
  /\ IF session[s].entry \in IdsOf(details)
     THEN /\ Update(session[s].entry, session[s].pending)
          /\ session' = [session EXCEPT ![s].pc = After(session[s].pending)]
     ELSE /\ session' = [session EXCEPT ![s].pc = "closed"]
          /\ UNCHANGED <<process, memory, saving, disk, clock, lastId, failures, crashes, history>>

-----------------------------------------------------------------------------
(* The administrator's operations.                                          *)

Delete(i) ==
  /\ Free /\ i \in IdsOf(details)
  /\ Commit("delete", Without(details, {i}), limit, {}, {i}, 0)
  /\ UNCHANGED <<lastId, session>>

Clear ==
  /\ Free
  /\ Commit("clear", {}, limit, {}, IdsOf(details), 0)
  /\ UNCHANGED <<lastId, session>>

SetLimit(l) ==
  /\ Free
  /\ Commit("limit", details, l, {}, {}, 0)
  /\ UNCHANGED <<lastId, session>>

-----------------------------------------------------------------------------
(* The save, one file operation at a time, and the process around it.       *)

\* A stale detail file is removed first; one that is not there is no error.
SaveRemoves(i) ==
  /\ process = "up" /\ i \in saving.remove
  /\ files' = Without(files, {i})
  /\ saving' = [saving EXCEPT !.remove = @ \ {i}]
  /\ UNCHANGED <<process, memory, index, session, clock, lastId, failures, crashes, history>>

\* Then every changed detail is written.
SaveWrites(i) ==
  /\ process = "up" /\ saving.remove = {} /\ i \in saving.write
  /\ files' = Without(files, {i}) \cup {Named(details, i)}
  /\ saving' = [saving EXCEPT !.write = @ \ {i}]
  /\ UNCHANGED <<process, memory, index, session, clock, lastId, failures, crashes, history>>

DetailsSaved == saving.remove = {} /\ saving.write = {}

\* Seed of a mutant: the marks are dropped before the save has gone through.
MarksAfterFailure_Cleared == dirty' = {} /\ deleted' = {}

\* A failed save returns early and keeps every mark for the next one.
MarksAfterFailure == UNCHANGED <<dirty, deleted>>

\* The entry the operation wrote is reported as saved.
Acknowledge ==
  acked' = IF saving.target \in IdsOf(details)
           THEN Without(acked, {saving.target}) \cup {Named(details, saving.target)}
           ELSE acked

\* Last the index is written, the marks are dropped and the caller is answered.
SaveIndex ==
  /\ process = "up" /\ saving.op # "none" /\ DetailsSaved
  /\ index' = [limit |-> limit, revision |-> revision, items |-> details, legacy |-> FALSE]
  /\ dirty' = {} /\ deleted' = {} /\ saving' = NoSave
  /\ Acknowledge
  /\ UNCHANGED <<process, limit, revision, details, files, session, clock, lastId,
                 failures, crashes, removed>>

\* Any of the file operations fails: the save returns, nothing is undone.
SaveFails ==
  /\ process = "up" /\ saving.op # "none" /\ failures < MaxFailures
  /\ failures' = failures + 1
  /\ saving' = NoSave
  /\ MarksAfterFailure
  /\ UNCHANGED <<process, limit, revision, details, disk, session, clock, lastId, crashes, history>>

\* The process dies with its memory and its requests, between any two steps.
Crash ==
  /\ process # "down" /\ crashes < MaxCrashes
  /\ CrashesInSave \/ saving = NoSave
  /\ process' = "down" /\ crashes' = crashes + 1
  /\ limit' = InitialLimit /\ revision' = 0 /\ details' = {} /\ dirty' = {} /\ deleted' = {}
  /\ saving' = NoSave
  /\ session' = [s \in Sessions |-> IF session[s].pc = "new" THEN session[s]
                                    ELSE [session[s] EXCEPT !.pc = "closed"]]
  /\ UNCHANGED <<disk, clock, lastId, failures, history>>

\* New and loadLocked: the index says which details to read; one that cannot be
\* read latches the store.  The index is then saved back, which changes it only
\* where the details are newer, and whose failure is only logged.
Restart ==
  /\ process = "down" /\ ~index.legacy
  /\ LET named == IdsOf(index.items)
         read == {f \in files : f.id \in named}
     IN IF named \subseteq IdsOf(files)
        THEN /\ process' = "up" /\ details' = read
             /\ limit' = IF index = NoIndex THEN InitialLimit ELSE index.limit
             /\ revision' = IF index = NoIndex THEN 0 ELSE index.revision
             /\ \/ index' = [limit |-> limit', revision |-> revision', items |-> read, legacy |-> FALSE]
                   /\ UNCHANGED failures
                \/ failures < MaxFailures /\ failures' = failures + 1 /\ UNCHANGED index
        ELSE process' = "latched" /\ UNCHANGED <<details, limit, revision, index, failures>>
  /\ UNCHANGED <<dirty, deleted, saving, files, session, clock, lastId, crashes, history>>

\* Seed of a mutant: the entries taken from an old file are not marked.
LegacyDirty_Unmarked(kept) == {}

LegacyDirty(kept) == IdsOf(kept)

\* A file of the old format has the entries themselves.  They are taken over,
\* all marked as changed, and saved in the new format; if that fails the old
\* file stays until a later save.
LoadLegacy ==
  /\ process = "down" /\ index.legacy
  /\ LET over == Overflow(index.items, index.limit)
         kept == index.items \ over
     IN /\ process' = "up" /\ limit' = index.limit
        /\ revision' = CHOOSE r \in {e.rev : e \in index.items} : \A e \in index.items : e.rev <= r
        /\ details' = kept /\ dirty' = LegacyDirty(kept) /\ deleted' = IdsOf(over)
        /\ removed' = removed \cup IdsOf(over)
        /\ saving' = [op |-> "load", remove |-> deleted', write |-> dirty', target |-> 0]
  /\ UNCHANGED <<disk, session, clock, lastId, failures, crashes, acked>>

-----------------------------------------------------------------------------
(* The directory is fresh, its first index file perhaps not written, or has *)
(* a file of the old format.                                                *)
FreshDirectory ==
  /\ process = "up" /\ limit = InitialLimit
  /\ index \in {NoIndex, [limit |-> InitialLimit, revision |-> 0, items |-> {}, legacy |-> FALSE]}
  /\ clock = 0 /\ lastId = 0 /\ acked = {}

LegacyFile(n) ==
  /\ process = "down" /\ limit = InitialLimit
  /\ acked = {[id |-> i, rev |-> i, created |-> 0, status |-> "done", owner |-> "earlier"] : i \in 1..n}
  /\ \E l \in Limits : index = [limit |-> l, revision |-> 0, items |-> acked, legacy |-> TRUE]
  /\ clock = n /\ lastId = n

Init ==
  /\ FreshDirectory \/ \E n \in 1..2 : LegacyFile(n)
  /\ revision = 0 /\ details = {} /\ dirty = {} /\ deleted = {}
  /\ saving = NoSave /\ files = {}
  /\ session = [s \in Sessions |-> [pc |-> "new", entry |-> 0, pending |-> "streaming"]]
  /\ failures = 0 /\ crashes = 0 /\ removed = {}

Request(s) ==
  \/ Open(s)
  \/ OpenLatched(s)
  \/ \E status \in {"streaming", "done"} : Record(s, status)
  \/ \E status \in {"streaming", "done"} : RecordMissing(s, status)
  \/ Recreate(s)
  \/ RecreateDisabled(s)
  \/ RecordAgain(s)

Admin == (\E i \in Ids : Delete(i)) \/ Clear \/ (\E l \in Limits : SetLimit(l))

Save == (\E i \in Ids : SaveRemoves(i) \/ SaveWrites(i)) \/ SaveIndex \/ SaveFails

Next == (\E s \in Sessions : Request(s)) \/ Admin \/ Save \/ Crash \/ Restart \/ LoadLegacy

Spec == Init /\ [][Next]_vars

-----------------------------------------------------------------------------
(* The fields of the store, the save in progress and the files.             *)
TypeOK ==
  /\ process \in {"up", "down", "latched"}
  /\ limit \in Limits /\ revision \in 0..MaxClock /\ clock \in 0..MaxClock
  /\ details \subseteq Entry /\ files \subseteq Entry
  /\ {dirty, deleted, removed} \subseteq SUBSET Ids /\ dirty \cap deleted = {}
  /\ saving.remove \subseteq deleted /\ saving.write \subseteq dirty
  /\ dirty \subseteq IdsOf(details) /\ deleted \cap IdsOf(details) = {}
  /\ index # NoIndex => index.limit \in Limits /\ index.items \subseteq Entry
  /\ \A s \in Sessions : /\ session[s].pc \in {"new", "open", "recreate", "again", "closed"}
                          /\ session[s].entry \in 0..MaxEntries

\* Whatever the disk does not yet have of the memory is marked for the next
\* save, however many saves failed half way: no entry is silently left out of
\* the files, and no file of an entry that is gone is silently left behind.
NothingForgotten ==
  /\ TypeOK
  /\ \A e \in details : e.id \in dirty \/ e \in files
  /\ crashes = 0 => IdsOf(files) \subseteq IdsOf(details) \cup deleted

\* A request is never shown twice in the list, even when its entry was
\* deleted or trimmed under it and recreated while saves failed.
OneEntryPerRequest ==
  \A a, b \in details : a.owner = b.owner /\ a.owner \in Sessions => a = b

\* The revision is the ETag of the list (ListETag, answered with 304): a step
\* of a running store that changes the list or the limit changes it.
TagNamesList ==
  [][process = "up" /\ process' = "up" /\ <<details, limit>>' # <<details, limit>>
       => revision' # revision]_vars

\* An update that was reported as saved, with an old file every entry of it,
\* survives failures and crashes, in the middle of a migration too: unless its
\* entry was taken out since, the index names it and its file, or the old file,
\* is at least as new.  Nor does the index ever run ahead of the details: every
\* entry it names was taken out since, or has a file at least as new as its
\* summary.
OnFile(e) == \E f \in IF index.legacy THEN index.items ELSE files : f.id = e.id /\ f.rev >= e.rev
AckedIsDurable ==
  /\ \A a \in acked : a.id \notin removed => a.id \in IdsOf(index.items) /\ OnFile(a)
  /\ \A e \in index.items : e.id \in removed \/ OnFile(e)

=============================================================================
