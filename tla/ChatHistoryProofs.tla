--------------------------- MODULE ChatHistoryProofs ---------------------------
(***************************************************************************)
(* Proofs about ChatHistory, for any sessions, limits and bounds: nothing  *)
(* is forgotten by failing saves, no request is shown twice, what was      *)
(* reported as saved survives crashes, and the revision names the list.    *)
(***************************************************************************)
EXTENDS ChatHistory, TLAPS

Owners == Sessions \cup {"earlier"}
Pcs == {"new", "open", "recreate", "again", "closed"}
Session == [pc : Pcs, entry : 0 .. MaxEntries, pending : {"streaming", "done"}]
SaveRecord == [op : {"none", "start", "update", "delete", "clear", "limit", "load"},
               remove : SUBSET Ids, write : SUBSET Ids, target : 0 .. MaxEntries]
IndexFile == [limit : Limits, revision : 0 .. MaxClock, items : SUBSET Entry, legacy : BOOLEAN]

Types ==
    /\ process \in {"up", "down", "latched"}
    /\ limit \in Limits /\ revision \in 0 .. MaxClock /\ clock \in 0 .. MaxClock
    /\ revision <= clock /\ lastId \in 0 .. MaxEntries
    /\ details \in SUBSET Entry /\ files \in SUBSET Entry /\ acked \in SUBSET Entry
    /\ dirty \in SUBSET Ids /\ deleted \in SUBSET Ids /\ removed \in SUBSET Ids
    /\ saving \in SaveRecord /\ (saving.op = "none" => saving = NoSave)
    /\ index = NoIndex \/ index \in IndexFile
    /\ failures \in Nat /\ crashes \in Nat
    /\ session \in [Sessions -> Session]

(* An entry is known by its id, which also says whose it is.               *)
Unique(entries) == \A e, f \in entries : e.id = f.id => e = f
OnePerOwner(entries) == \A e, f \in entries : e.owner = f.owner /\ e.owner \in Sessions => e = f
SameOwners(E, F) == \A e \in E, f \in F : e.id = f.id => e.owner = f.owner

KnownEntries ==
    /\ \A e \in details \cup files \cup index.items \cup acked : e.id <= lastId /\ e.rev <= clock
    /\ index.revision <= clock
    /\ Unique(details) /\ Unique(files) /\ Unique(index.items)
    /\ OnePerOwner(details) /\ OnePerOwner(index.items)
    /\ SameOwners(details, files) /\ SameOwners(details, index.items)
    /\ SameOwners(files, index.items)

(* The marks of the memory, and what the save under way has still to do.   *)
MarksInv ==
    /\ dirty \cap deleted = {} /\ dirty \subseteq IdsOf(details)
    /\ deleted \cap IdsOf(details) = {} /\ deleted \subseteq removed
    /\ saving.remove \subseteq deleted /\ saving.write \subseteq dirty
    /\ \A e \in details : e.id \in dirty \/ e \in files
    /\ crashes = 0 => IdsOf(files) \subseteq IdsOf(details) \cup deleted
    /\ saving.op # "none" =>
         /\ process = "up"
         /\ \A e \in details : e.id \in saving.write \/ e \in files
         /\ IdsOf(files) \cap deleted \subseteq saving.remove

(* A store that does not run has no memory, and until the first crash it   *)
(* has only the old file.                                                  *)
AwayInv ==
    process # "up" =>
      /\ details = {} /\ dirty = {} /\ deleted = {} /\ saving = NoSave
      /\ crashes = 0 => index.legacy = TRUE /\ files = {}

(* What is on disk is not newer than the memory, but for what a migration  *)
(* wrote before it was cut short and has still to write again.             *)
NewerInMemory ==
    \A f \in files, e \in details :
        f.id = e.id => f.rev <= e.rev \/ (index.legacy = TRUE /\ e.id \in dirty)

AckedInMemory ==
    process = "up" =>
      \A a \in acked : a.id \notin removed => \E e \in details : e.id = a.id /\ e.rev >= a.rev

LegacyInv ==
    index.legacy = TRUE =>
      /\ acked \subseteq index.items
      /\ \E r \in {e.rev : e \in index.items} : \A e \in index.items : e.rev <= r

StoreInv == Types /\ KnownEntries /\ MarksInv /\ AwayInv /\ NewerInMemory /\ AckedInMemory
            /\ LegacyInv /\ AckedIsDurable

(* The entry of a session that runs is the only one of its request.        *)
OwnsOneEntry(s) ==
    /\ session[s].entry <= lastId
    /\ session[s].pc = "new" =>
         \A e \in details \cup files \cup index.items : e.owner # s
    /\ session[s].pc \in {"open", "recreate", "again"} =>
         /\ process = "up"
         /\ \A e \in details : e.owner = s => e.id = session[s].entry
    /\ session[s].pc = "recreate" => session[s].entry \notin IdsOf(details)

SessionInv == \A s \in Sessions : OwnsOneEntry(s)

HistoryInv == StoreInv /\ SessionInv

-----------------------------------------------------------------------------
(* What an operation commits.                                              *)

LEMMA EntryFields ==
  ASSUME NEW e \in Entry
  PROVE  e.id \in Ids /\ e.rev \in Nat /\ e.created \in Nat /\ e.owner \in Owners
BY HistoryAssumption DEF Entry, Owners

LEMMA NextRevision ==
  ASSUME Types
  PROVE  nextRevision = clock + 1
BY HistoryAssumption DEF nextRevision, Types

(* An operation leaves the entries it did not write as they were, and      *)
(* drops what it drops; the limit then trims some.                         *)
Proper(entries, written, dropped) ==
    /\ entries \in SUBSET Entry /\ Unique(entries) /\ OnePerOwner(entries)
    /\ SameOwners(entries, files) /\ SameOwners(entries, index.items)
    /\ \A e \in entries : IF e.id \in written THEN e.rev = clock + 1 ELSE e \in details
    /\ \A e \in entries : e.id <= lastId'
    /\ written \subseteq IdsOf(entries) /\ dropped \in SUBSET Ids
    /\ dropped \cap IdsOf(entries) = {}
    /\ IdsOf(details) \subseteq IdsOf(entries) \cup dropped

LEMMA CommitStep ==
  ASSUME StoreInv, Free, NEW op \in {"start", "update", "delete", "clear", "limit"},
         NEW entries, NEW l \in Limits, NEW written, NEW dropped, NEW target \in 0 .. MaxEntries,
         Commit(op, entries, l, written, dropped, target), Proper(entries, written, dropped),
         lastId' \in lastId .. MaxEntries, session' \in [Sessions -> Session]
  PROVE  StoreInv' /\ details' \subseteq entries /\ UNCHANGED <<process, files, index>>
<1>0. /\ Types /\ KnownEntries /\ MarksInv /\ AwayInv /\ NewerInMemory /\ AckedInMemory
      /\ LegacyInv /\ AckedIsDurable
      /\ process = "up" /\ saving = NoSave /\ clock < MaxClock /\ nextRevision = clock + 1
  BY NextRevision DEF StoreInv, Free
<1>a. clock \in Nat /\ MaxClock \in Nat /\ MaxEntries \in Nat /\ lastId \in Nat
  BY <1>0, HistoryAssumption DEF Types
<1>1. PICK over : over = IdsOf(Overflow(entries, l))
  OBVIOUS
<1>2. entries \in SUBSET Entry /\ over \subseteq IdsOf(entries) /\ over \in SUBSET Ids
      /\ written \in SUBSET Ids /\ dropped \in SUBSET Ids
  <2>1. entries \in SUBSET Entry /\ written \subseteq IdsOf(entries) /\ dropped \in SUBSET Ids
    BY DEF Proper
  <2>2. IdsOf(entries) \in SUBSET Ids
    BY <2>1, EntryFields DEF IdsOf
  <2>3. over \subseteq IdsOf(entries)
    BY <1>1 DEF IdsOf, Overflow
  <2> QED BY <2>1, <2>2, <2>3
<1>3. /\ limit' = l /\ revision' = clock + 1 /\ clock' = clock + 1
      /\ details' = {e \in entries : e.id \notin over}
      /\ dirty' = (dirty \cup written) \ (dropped \cup over)
      /\ deleted' = (deleted \ written) \cup dropped \cup over
      /\ removed' = removed \cup dropped \cup over
      /\ saving' = [op |-> op, remove |-> deleted', write |-> dirty', target |-> target]
      /\ UNCHANGED <<process, files, index, failures, crashes, acked>>
  BY <1>0, <1>1 DEF Commit, Without, MarkedDirty, MarkedDeleted, disk
<1>4. details' \subseteq entries
  BY <1>3
<1>5. Types'
  <2>1. details' \in SUBSET Entry /\ dirty' \in SUBSET Ids /\ deleted' \in SUBSET Ids /\ removed' \in SUBSET Ids
    BY <1>0, <1>2, <1>3, <1>4 DEF Types
  <2>2. saving' \in SaveRecord /\ saving'.op # "none"
    BY <1>3, <2>1 DEF SaveRecord
  <2>3. /\ revision' \in 0 .. MaxClock /\ clock' \in 0 .. MaxClock /\ revision' <= clock'
        /\ lastId' \in 0 .. MaxEntries
    BY <1>0, <1>a, <1>3
  <2> QED BY <1>0, <1>3, <2>1, <2>2, <2>3 DEF Types
<1>6. KnownEntries'
  <2>1. \A e \in entries : e.id <= lastId' /\ e.rev <= clock'
    <3> TAKE e \in entries
    <3>1. e.rev \in Nat /\ e.id <= lastId' /\ (e.rev = clock + 1 \/ e \in details)
      BY <1>2, EntryFields DEF Proper
    <3> QED BY <1>0, <1>a, <1>3, <3>1 DEF KnownEntries
  <2>2. \A e \in files \cup index.items \cup acked : e.id <= lastId' /\ e.rev <= clock'
    <3> TAKE e \in files \cup index.items \cup acked
    <3>1. e \in Entry
      BY <1>0 DEF Types, IndexFile, NoIndex
    <3>2. e.rev \in Nat /\ e.id \in Nat /\ e.id <= lastId /\ e.rev <= clock
      BY <1>0, <3>1, EntryFields DEF KnownEntries, Ids
    <3> QED BY <1>a, <1>3, <3>2
  <2>3. Unique(entries) /\ OnePerOwner(entries) /\ SameOwners(entries, files)
        /\ SameOwners(entries, index.items)
    BY DEF Proper
  <2>4. Unique(details') /\ OnePerOwner(details') /\ SameOwners(details', files)
        /\ SameOwners(details', index.items)
    BY <1>4, <2>3 DEF Unique, OnePerOwner, SameOwners
  <2>5. index.revision <= clock'
    <3>1. index.revision \in Int /\ index.revision <= clock
      BY <1>0, HistoryAssumption DEF Types, IndexFile, NoIndex, KnownEntries
    <3> QED BY <1>a, <1>3, <3>1
  <2> QED BY <1>0, <1>3, <1>4, <2>1, <2>2, <2>4, <2>5
      DEF KnownEntries, Unique, OnePerOwner, SameOwners
<1>7. MarksInv'
  <2>1. dirty' \cap deleted' = {} /\ deleted' \subseteq removed'
    BY <1>0, <1>3 DEF MarksInv
  <2>2. IdsOf(details') = IdsOf(entries) \ over
    BY <1>3 DEF IdsOf
  <2>3. dirty \subseteq IdsOf(entries) \cup dropped /\ deleted \cap IdsOf(details) = {}
    BY <1>0 DEF MarksInv, Proper
  <2>4. dirty' \subseteq IdsOf(details')
    BY <1>3, <2>2, <2>3 DEF Proper
  <2>5. deleted' \cap IdsOf(details') = {}
    <3>1. IdsOf(entries) \subseteq IdsOf(details) \cup written
      BY DEF Proper, IdsOf
    <3> QED BY <1>3, <2>2, <2>3, <3>1 DEF Proper
  <2>6. \A e \in details' : e.id \in dirty' \/ e \in files
    <3> TAKE e \in details'
    <3>1. e \in entries /\ e.id \notin over /\ e.id \notin dropped
      BY <1>3 DEF Proper, IdsOf
    <3>2. e.id \in written \/ e \in details
      BY <3>1 DEF Proper
    <3> QED BY <1>0, <1>3, <3>1, <3>2 DEF MarksInv
  <2>7. crashes = 0 => IdsOf(files) \subseteq IdsOf(details') \cup deleted'
    <3> HAVE crashes = 0
    <3>1. IdsOf(files) \subseteq IdsOf(details) \cup deleted
      BY <1>0 DEF MarksInv
    <3>2. IdsOf(details) \cup deleted \subseteq IdsOf(entries) \cup dropped \cup deleted
      BY DEF Proper
    <3>3. written \subseteq IdsOf(entries)
      BY DEF Proper
    <3> QED BY <1>3, <2>2, <3>1, <3>2, <3>3
  <2>8. saving'.remove = deleted' /\ saving'.write = dirty'
    BY <1>3
  <2> QED BY <1>0, <1>3, <2>1, <2>4, <2>5, <2>6, <2>7, <2>8 DEF MarksInv
<1>8. AwayInv'
  BY <1>0, <1>3 DEF AwayInv
<1>9. NewerInMemory'
  <2> SUFFICES ASSUME NEW f \in files, NEW e \in details', f.id = e.id
               PROVE  f.rev <= e.rev \/ (index.legacy = TRUE /\ e.id \in dirty')
    BY <1>3 DEF NewerInMemory
  <2>1. e \in entries /\ e.id \notin over /\ e.id \notin dropped
    BY <1>3 DEF Proper, IdsOf
  <2>2. f.rev \in Nat /\ f.rev <= clock
    BY <1>0, EntryFields DEF Types, KnownEntries
  <2>3. CASE e.id \in written
    BY <1>a, <2>1, <2>2, <2>3 DEF Proper
  <2>4. CASE e.id \notin written
    <3>1. e \in details
      BY <2>1, <2>4 DEF Proper
    <3> QED BY <1>0, <1>3, <2>1, <3>1 DEF NewerInMemory
  <2> QED BY <2>3, <2>4
<1>b. AckedInMemory'
  <2> SUFFICES ASSUME NEW a \in acked, a.id \notin removed'
               PROVE  \E e \in details' : e.id = a.id /\ e.rev >= a.rev
    BY <1>3 DEF AckedInMemory
  <2>1. a.rev \in Nat /\ a.rev <= clock
    BY <1>0, EntryFields DEF Types, KnownEntries
  <2>2. PICK e \in details : e.id = a.id /\ e.rev >= a.rev
    BY <1>0, <1>3 DEF AckedInMemory
  <2>3. e.id \notin dropped /\ e.id \notin over
    BY <1>3, <2>2
  <2>4. e.id \in IdsOf(entries)
    BY <2>3 DEF Proper, IdsOf
  <2>5. PICK d \in entries : d.id = e.id
    BY <2>4 DEF IdsOf
  <2>6. d \in details'
    BY <1>3, <2>3, <2>5
  <2>7. CASE d.id \in written
    <3>1. d.rev = clock + 1
      BY <2>5, <2>7 DEF Proper
    <3> QED BY <1>a, <2>1, <2>2, <2>5, <2>6, <3>1
  <2>8. CASE d.id \notin written
    <3>1. d \in details
      BY <2>5, <2>8 DEF Proper
    <3>2. d = e
      BY <1>0, <2>5, <3>1 DEF KnownEntries, Unique
    <3> QED BY <2>2, <2>6, <3>2
  <2> QED BY <2>7, <2>8
<1>c. LegacyInv'
  BY <1>0, <1>3 DEF LegacyInv
<1>d. AckedIsDurable'
  <2>1. removed \subseteq removed'
    BY <1>3
  <2> QED BY <1>0, <1>3, <2>1 DEF AckedIsDurable, OnFile
<1> QED BY <1>3, <1>4, <1>5, <1>6, <1>7, <1>8, <1>9, <1>b, <1>c, <1>d DEF StoreInv

-----------------------------------------------------------------------------
(* The requests.                                                           *)

LEMMA Quotient ==
  ASSUME NEW n \in Nat, NEW r \in Nat \ {0}
  PROVE  n \div r \in 0 .. n
OBVIOUS

(* A session that does not run in this step keeps its entry.               *)
LEMMA OthersKeepTheirs ==
  ASSUME HistoryInv, UNCHANGED <<process, files, index>>, lastId' \in Nat, lastId <= lastId',
         NEW s \in Sessions, session'[s] = session[s],
         \A e \in details' : \/ \E d \in details : d.id = e.id /\ d.owner = e.owner
                             \/ e.owner # s /\ e.id = lastId + 1
  PROVE  OwnsOneEntry(s)'
<1>1. OwnsOneEntry(s) /\ session[s].entry \in Nat /\ lastId \in Nat
  BY HistoryAssumption DEF HistoryInv, StoreInv, Types, Session, SessionInv
<1>2. session[s].entry <= lastId'
  BY <1>1 DEF OwnsOneEntry
<1>3. session[s].entry # lastId + 1
  BY <1>1 DEF OwnsOneEntry
<1>4. session[s].pc = "new" => \A e \in details' \cup files \cup index.items : e.owner # s
  BY <1>1 DEF OwnsOneEntry
<1>5. session[s].pc \in {"open", "recreate", "again"} =>
        \A e \in details' : e.owner = s => e.id = session[s].entry
  BY <1>1 DEF OwnsOneEntry
<1>6. session[s].pc = "recreate" => session[s].entry \notin IdsOf(details')
  BY <1>1, <1>3 DEF OwnsOneEntry, IdsOf
<1> QED BY <1>1, <1>2, <1>4, <1>5, <1>6 DEF OwnsOneEntry

LEMMA StartStep ==
  ASSUME HistoryInv, Free, NEW s \in Sessions, Start(s), \A e \in details : e.owner # s,
         session' \in [Sessions -> Session]
  PROVE  /\ StoreInv' /\ UNCHANGED <<process, files, index>>
         /\ lastId' = lastId + 1 /\ lastId + 1 \in 1 .. MaxEntries
         /\ \A e \in details' : e \in details \/ (e.id = lastId + 1 /\ e.owner = s)
<1>0. /\ StoreInv /\ Types /\ KnownEntries /\ nextRevision = clock + 1
      /\ clock \in Nat /\ clock < MaxClock /\ lastId \in Nat /\ lastId < MaxEntries
      /\ MaxClock \in Nat /\ MaxEntries \in Nat /\ Resolution \in Nat \ {0}
  BY HistoryAssumption, NextRevision DEF HistoryInv, StoreInv, Types, Free, Start
<1>1. PICK e : e = [id |-> lastId + 1, rev |-> nextRevision, created |-> (clock + 1) \div Resolution,
                    status |-> "streaming", owner |-> s]
  OBVIOUS
<1>2. (clock + 1) \div Resolution \in 0 .. MaxClock
  <2>1. (clock + 1) \div Resolution \in 0 .. clock + 1
    BY <1>0, Quotient
  <2> QED BY <1>0, <2>1
<1>3. e \in Entry /\ e.id = lastId + 1 /\ e.rev = clock + 1 /\ e.owner = s
  BY <1>0, <1>1, <1>2 DEF Entry, Ids
<1>4. lastId' = lastId + 1 /\ Commit("start", details \cup {e}, limit, {e.id}, {}, e.id)
  BY <1>1 DEF Start
<1>5. \A f \in details \cup files \cup index.items : f.id # e.id /\ f.id <= lastId
  <2> TAKE f \in details \cup files \cup index.items
  <2>1. f \in Entry
    BY <1>0 DEF Types, IndexFile, NoIndex
  <2> QED BY <1>0, <1>3, <2>1, EntryFields DEF KnownEntries, Ids
<1>6. Proper(details \cup {e}, {e.id}, {})
  <2>1. details \cup {e} \in SUBSET Entry
    BY <1>0, <1>3 DEF Types
  <2>2. Unique(details \cup {e}) /\ OnePerOwner(details \cup {e})
    BY <1>0, <1>3, <1>5 DEF KnownEntries, Unique, OnePerOwner
  <2>3. SameOwners(details \cup {e}, files) /\ SameOwners(details \cup {e}, index.items)
    BY <1>0, <1>5 DEF KnownEntries, SameOwners
  <2>4. \A f \in details \cup {e} : f.id <= lastId'
    BY <1>0, <1>3, <1>4, <1>5, EntryFields DEF Types, Ids
  <2>5. \A f \in details \cup {e} : IF f.id \in {e.id} THEN f.rev = clock + 1 ELSE f \in details
    BY <1>3, <1>5
  <2> QED BY <2>1, <2>2, <2>3, <2>4, <2>5 DEF Proper, IdsOf
<1>7. limit \in Limits /\ e.id \in 0 .. MaxEntries /\ lastId' \in lastId .. MaxEntries
  BY <1>0, <1>3, <1>4 DEF Types
<1>8. StoreInv' /\ details' \subseteq details \cup {e} /\ UNCHANGED <<process, files, index>>
  BY <1>0, <1>4, <1>6, <1>7, CommitStep
<1> QED BY <1>0, <1>3, <1>4, <1>8

LEMMA UpdateStep ==
  ASSUME HistoryInv, Free, NEW i \in IdsOf(details), NEW status \in {"streaming", "done"},
         Update(i, status), lastId' = lastId, session' \in [Sessions -> Session]
  PROVE  /\ StoreInv' /\ UNCHANGED <<process, files, index>>
         /\ \A e \in details' : \E d \in details : d.id = e.id /\ d.owner = e.owner
<1>0. /\ StoreInv /\ Types /\ KnownEntries /\ nextRevision = clock + 1
      /\ clock \in Nat /\ clock < MaxClock /\ lastId \in Nat /\ lastId <= MaxEntries
      /\ MaxClock \in Nat /\ MaxEntries \in Nat
  BY HistoryAssumption, NextRevision DEF HistoryInv, StoreInv, Types, Free
<1>1. PICK d \in details : d = Named(details, i) /\ d.id = i
  <2>1. \E d \in details : d.id = i
    BY DEF IdsOf
  <2>2. Named(details, i) \in details /\ Named(details, i).id = i
    BY <2>1 DEF Named
  <2> QED BY <2>2
<1>2. PICK e : e = [d EXCEPT !.rev = nextRevision, !.status = status]
  OBVIOUS
<1>3. d \in Entry
  BY <1>0, <1>1 DEF Types
<1>4. e \in Entry /\ e.id = i /\ e.rev = clock + 1 /\ e.owner = d.owner
  <2>1. nextRevision \in 1 .. MaxClock
    BY <1>0
  <2>2. e \in Entry
    BY <1>2, <1>3, <2>1 DEF Entry
  <2>3. e.id = d.id /\ e.owner = d.owner /\ e.rev = nextRevision
    BY <1>2, <1>3 DEF Entry
  <2> QED BY <1>0, <1>1, <2>2, <2>3
<1>5. Commit("update", Without(details, {i}) \cup {e}, limit, {i}, {}, i)
  BY <1>1, <1>2 DEF Update
<1>6. PICK others : others = Without(details, {i})
  OBVIOUS
<1>7. others = {f \in details : f # d} /\ (\A f \in others : f.id # i)
  BY <1>0, <1>1, <1>6 DEF Without, KnownEntries, Unique
<1>8. Proper(others \cup {e}, {i}, {})
  <2>1. others \cup {e} \in SUBSET Entry
    BY <1>0, <1>4, <1>7 DEF Types
  <2>2. Unique(others \cup {e})
    BY <1>0, <1>4, <1>7 DEF KnownEntries, Unique
  <2>3. OnePerOwner(others \cup {e})
    BY <1>0, <1>1, <1>4, <1>7 DEF KnownEntries, OnePerOwner
  <2>4. SameOwners(others \cup {e}, files) /\ SameOwners(others \cup {e}, index.items)
    BY <1>0, <1>1, <1>4, <1>7 DEF KnownEntries, SameOwners
  <2>5. \A f \in others \cup {e} : f.id <= lastId'
    BY <1>0, <1>1, <1>4, <1>7 DEF KnownEntries
  <2>6. \A f \in others \cup {e} : IF f.id \in {i} THEN f.rev = clock + 1 ELSE f \in details
    BY <1>4, <1>7
  <2>7. IdsOf(details) \subseteq IdsOf(others \cup {e})
    BY <1>1, <1>4, <1>7 DEF IdsOf
  <2>8. {i} \subseteq IdsOf(others \cup {e})
    BY <1>4 DEF IdsOf
  <2> QED BY <2>1, <2>2, <2>3, <2>4, <2>5, <2>6, <2>7, <2>8 DEF Proper
<1>9. limit \in Limits /\ i \in 0 .. MaxEntries /\ lastId' \in lastId .. MaxEntries
  BY <1>0, <1>1, <1>3, EntryFields DEF Types, Ids
<1>a. StoreInv' /\ details' \subseteq others \cup {e} /\ UNCHANGED <<process, files, index>>
  BY <1>0, <1>5, <1>6, <1>8, <1>9, CommitStep
<1> QED BY <1>1, <1>4, <1>7, <1>a

LEMMA StoreStays ==
  ASSUME StoreInv, UNCHANGED <<process, memory, saving, disk, clock, lastId, failures, crashes, history>>,
         session' \in [Sessions -> Session]
  PROVE  StoreInv'
<1>1. UNCHANGED <<process, limit, revision, details, dirty, deleted, saving, files, index, clock,
                  lastId, failures, crashes, acked, removed>>
  BY DEF memory, disk, history
<1>2. Types'
  BY <1>1 DEF StoreInv, Types
<1>3. KnownEntries' /\ MarksInv' /\ AwayInv'
  BY <1>1 DEF StoreInv, KnownEntries, SameOwners, MarksInv, AwayInv
<1>4. NewerInMemory' /\ AckedInMemory' /\ LegacyInv' /\ AckedIsDurable'
  BY <1>1 DEF StoreInv, NewerInMemory, AckedInMemory, LegacyInv, AckedIsDurable, OnFile
<1> QED BY <1>2, <1>3, <1>4 DEF StoreInv

(* A step of session s to another state, on its entry or another one.      *)
Moves(s, pc, entry, pending) ==
    session' = [session EXCEPT ![s].pc = pc, ![s].entry = entry, ![s].pending = pending]

LEMMA MovesType ==
  ASSUME Types, NEW s \in Sessions, NEW pc \in Pcs, NEW entry \in 0 .. MaxEntries,
         NEW pending \in {"streaming", "done"}, Moves(s, pc, entry, pending)
  PROVE  /\ session' \in [Sessions -> Session]
         /\ session'[s].pc = pc /\ session'[s].entry = entry
         /\ \A o \in Sessions \ {s} : session'[o] = session[o]
<1>0. session \in [Sessions -> Session] /\ session[s] \in Session
  BY DEF Types
<1>1. [session[s] EXCEPT !.pc = pc, !.entry = entry, !.pending = pending] \in Session
  BY <1>0 DEF Session
<1>2. session' = [session EXCEPT ![s] = [session[s] EXCEPT !.pc = pc, !.entry = entry, !.pending = pending]]
  BY <1>0 DEF Moves, Session
<1> QED BY <1>0, <1>1, <1>2 DEF Session

(* The store has not changed, and the session of this step has ended or    *)
(* finds its entry missing.                                                *)
LEMMA QuietStep ==
  ASSUME HistoryInv, NEW s \in Sessions, NEW pc \in {"closed", "recreate"},
         NEW pending \in {"streaming", "done"}, Moves(s, pc, session[s].entry, pending),
         pc = "recreate" => session[s].pc = "open" /\ session[s].entry \notin IdsOf(details),
         UNCHANGED <<process, memory, saving, disk, clock, lastId, failures, crashes, history>>
  PROVE  HistoryInv'
<1>0. StoreInv /\ Types /\ session[s].entry \in 0 .. MaxEntries /\ pc \in Pcs /\ lastId \in Nat
  BY HistoryAssumption DEF HistoryInv, StoreInv, Types, Session, Pcs
<1>1. /\ session' \in [Sessions -> Session] /\ session'[s].pc = pc
      /\ session'[s].entry = session[s].entry
      /\ \A o \in Sessions \ {s} : session'[o] = session[o]
  BY <1>0, MovesType
<1>2. StoreInv'
  BY <1>0, <1>1, StoreStays
<1>3. UNCHANGED <<process, files, index, details, lastId>>
  BY DEF memory, disk
<1>4. OwnsOneEntry(s)'
  BY <1>1, <1>3 DEF HistoryInv, SessionInv, OwnsOneEntry, IdsOf
<1>5. ASSUME NEW o \in Sessions \ {s} PROVE OwnsOneEntry(o)'
  <2>1. UNCHANGED <<process, files, index>> /\ lastId' \in Nat /\ lastId <= lastId'
        /\ session'[o] = session[o] /\ o # s
    BY <1>0, <1>1, <1>3
  <2>2. \A e \in details' : \/ \E d \in details : d.id = e.id /\ d.owner = e.owner
                            \/ e.owner # o /\ e.id = lastId + 1
    BY <1>0, <1>1, <1>3, <2>1
  <2> QED BY <2>1, <2>2, OthersKeepTheirs
<1>6. SessionInv'
  BY <1>4, <1>5 DEF SessionInv
<1> QED BY <1>2, <1>6 DEF HistoryInv

(* A session starts an entry, its first or one for the missing one.        *)
LEMMA StartsStep ==
  ASSUME HistoryInv, Free, NEW s \in Sessions, Start(s), \A e \in details : e.owner # s,
         NEW pc \in {"open", "again"}, NEW pending \in {"streaming", "done"},
         Moves(s, pc, lastId + 1, pending)
  PROVE  HistoryInv'
<1>0. StoreInv /\ Types /\ lastId \in Nat /\ lastId + 1 \in 0 .. MaxEntries /\ pc \in Pcs
      /\ process = "up"
  BY HistoryAssumption DEF HistoryInv, StoreInv, Types, Start, Pcs, Free
<1>1. /\ session' \in [Sessions -> Session] /\ session'[s].pc = pc
      /\ session'[s].entry = lastId + 1
      /\ \A o \in Sessions \ {s} : session'[o] = session[o]
  BY <1>0, MovesType
<1>2. /\ StoreInv' /\ UNCHANGED <<process, files, index>> /\ lastId' = lastId + 1
      /\ \A e \in details' : e \in details \/ (e.id = lastId + 1 /\ e.owner = s)
  BY <1>1, StartStep
<1>3. OwnsOneEntry(s)'
  BY <1>0, <1>1, <1>2 DEF OwnsOneEntry
<1>4. ASSUME NEW o \in Sessions \ {s} PROVE OwnsOneEntry(o)'
  <2>1. UNCHANGED <<process, files, index>> /\ lastId' \in Nat /\ lastId <= lastId'
        /\ session'[o] = session[o] /\ o # s
    BY <1>0, <1>1, <1>2, <1>4
  <2>2. \A e \in details' : \/ \E d \in details : d.id = e.id /\ d.owner = e.owner
                            \/ e.owner # o /\ e.id = lastId + 1
    BY <1>0, <1>1, <1>2, <1>4, <2>1
  <2> QED BY <2>1, <2>2, OthersKeepTheirs
<1>5. SessionInv'
  BY <1>3, <1>4 DEF SessionInv
<1> QED BY <1>2, <1>5 DEF HistoryInv

(* A session updates its entry.                                            *)
LEMMA UpdatesStep ==
  ASSUME HistoryInv, Free, NEW s \in Sessions, NEW status \in {"streaming", "done"},
         session[s].pc \in {"open", "again"}, session[s].entry \in IdsOf(details),
         Update(session[s].entry, status), Moves(s, After(status), session[s].entry, session[s].pending)
  PROVE  HistoryInv'
<1>0. /\ StoreInv /\ Types /\ session[s].entry \in 0 .. MaxEntries /\ lastId \in Nat
      /\ After(status) \in {"open", "closed"} /\ After(status) \in Pcs
      /\ session[s].pending \in {"streaming", "done"}
  BY HistoryAssumption DEF HistoryInv, StoreInv, Types, Session, Pcs, After
<1>1. /\ session' \in [Sessions -> Session] /\ session'[s].pc = After(status)
      /\ session'[s].entry = session[s].entry
      /\ \A o \in Sessions \ {s} : session'[o] = session[o]
  BY <1>0, MovesType
<1>2. lastId' = lastId
  BY DEF Update
<1>3. /\ StoreInv' /\ UNCHANGED <<process, files, index>>
      /\ \A e \in details' : \E d \in details : d.id = e.id /\ d.owner = e.owner
  BY <1>1, <1>2, UpdateStep
<1>4. OwnsOneEntry(s)'
  BY <1>0, <1>1, <1>2, <1>3 DEF HistoryInv, SessionInv, OwnsOneEntry
<1>5. ASSUME NEW o \in Sessions \ {s} PROVE OwnsOneEntry(o)'
  <2>1. UNCHANGED <<process, files, index>> /\ lastId' \in Nat /\ lastId <= lastId'
        /\ session'[o] = session[o] /\ o # s
    BY <1>0, <1>1, <1>2, <1>3
  <2>2. \A e \in details' : \/ \E d \in details : d.id = e.id /\ d.owner = e.owner
                            \/ e.owner # o /\ e.id = lastId + 1
    BY <1>0, <1>1, <1>2, <1>3, <2>1
  <2> QED BY <2>1, <2>2, OthersKeepTheirs
<1>6. SessionInv'
  BY <1>4, <1>5 DEF SessionInv
<1> QED BY <1>3, <1>6 DEF HistoryInv

LEMMA RequestStep ==
  ASSUME HistoryInv, NEW s \in Sessions, Request(s)
  PROVE  HistoryInv'
<1>0. /\ session \in [Sessions -> Session] /\ session[s] \in Session
      /\ session[s].pending \in {"streaming", "done"}
  BY DEF HistoryInv, StoreInv, Types, Session
<1>a. OwnsOneEntry(s)
  BY DEF HistoryInv, SessionInv
<1>b. ASSUME NEW pc, session' = [session EXCEPT ![s].pc = pc]
      PROVE  Moves(s, pc, session[s].entry, session[s].pending)
  BY <1>0, <1>b DEF Moves, Session
<1>c. ASSUME NEW pc, NEW entry, session' = [session EXCEPT ![s].pc = pc, ![s].entry = entry]
      PROVE  Moves(s, pc, entry, session[s].pending)
  BY <1>0, <1>c DEF Moves, Session
<1>d. ASSUME NEW pc, NEW pending, session' = [session EXCEPT ![s].pc = pc, ![s].pending = pending]
      PROVE  Moves(s, pc, session[s].entry, pending)
  BY <1>0, <1>d DEF Moves, Session
<1>1. CASE Open(s)
  <2>1. CASE Enabled
    <3>1. Start(s) /\ Free /\ Moves(s, "open", lastId + 1, session[s].pending)
      BY <1>1, <1>c, <2>1 DEF Open
    <3>2. \A e \in details : e.owner # s
      BY <1>1, <1>a DEF Open, OwnsOneEntry
    <3> QED BY <1>0, <3>1, <3>2, StartsStep
  <2>2. CASE ~Enabled
    BY <1>0, <1>1, <1>b, <2>2, QuietStep DEF Open
  <2> QED BY <2>1, <2>2
<1>2. CASE OpenLatched(s)
  BY <1>0, <1>2, <1>b, QuietStep DEF OpenLatched
<1>3. ASSUME NEW status \in {"streaming", "done"}, Record(s, status) PROVE HistoryInv'
  BY <1>0, <1>3, <1>b, UpdatesStep DEF Record
<1>4. ASSUME NEW status \in {"streaming", "done"}, RecordMissing(s, status) PROVE HistoryInv'
  BY <1>0, <1>4, <1>d, QuietStep DEF RecordMissing
<1>5. CASE Recreate(s)
  <2>1. Start(s) /\ Free /\ Moves(s, "again", lastId + 1, session[s].pending)
    BY <1>5, <1>c DEF Recreate
  <2>2. \A e \in details : e.owner # s
    BY <1>5, <1>a DEF Recreate, Recreating, OwnsOneEntry, IdsOf
  <2> QED BY <1>0, <2>1, <2>2, StartsStep
<1>6. CASE RecreateDisabled(s)
  BY <1>0, <1>6, <1>b, QuietStep DEF RecreateDisabled
<1>7. CASE RecordAgain(s)
  <2>1. CASE session[s].entry \in IdsOf(details)
    BY <1>0, <1>7, <1>b, <2>1, UpdatesStep DEF RecordAgain
  <2>2. CASE session[s].entry \notin IdsOf(details)
    BY <1>0, <1>7, <1>b, <2>2, QuietStep DEF RecordAgain
  <2> QED BY <2>1, <2>2
<1> QED BY <1>1, <1>2, <1>3, <1>4, <1>5, <1>6, <1>7 DEF Request

-----------------------------------------------------------------------------
(* The administrator.                                                      *)

LEMMA AdminStep ==
  ASSUME HistoryInv, Admin
  PROVE  HistoryInv'
<1>0. /\ StoreInv /\ Types /\ KnownEntries /\ lastId \in Nat /\ MaxEntries \in Nat /\ lastId <= MaxEntries
      /\ session \in [Sessions -> Session] /\ limit \in Limits
  BY HistoryAssumption DEF HistoryInv, StoreInv, Types
<1>1. PICK op \in {"delete", "clear", "limit"}, entries \in {es \in SUBSET details : TRUE},
           l \in Limits, dropped \in SUBSET IdsOf(details) :
        /\ Free /\ Commit(op, entries, l, {}, dropped, 0) /\ UNCHANGED <<lastId, session>>
        /\ entries = Without(details, dropped)
  <2>1. ASSUME NEW i \in Ids, Delete(i)
        PROVE  \E op \in {"delete", "clear", "limit"}, entries \in {es \in SUBSET details : TRUE},
                  l \in Limits, dropped \in SUBSET IdsOf(details) :
                 /\ Free /\ Commit(op, entries, l, {}, dropped, 0) /\ UNCHANGED <<lastId, session>>
                 /\ entries = Without(details, dropped)
    <3>1. Without(details, {i}) \in {es \in SUBSET details : TRUE} /\ {i} \in SUBSET IdsOf(details)
      BY <2>1 DEF Delete, Without
    <3> QED BY <1>0, <2>1, <3>1 DEF Delete
  <2>2. CASE Clear
    <3>1. Without(details, IdsOf(details)) = {} /\ {} \in {es \in SUBSET details : TRUE}
      BY DEF Without, IdsOf
    <3> QED BY <1>0, <2>2, <3>1 DEF Clear
  <2>3. ASSUME NEW l \in Limits, SetLimit(l)
        PROVE  \E op \in {"delete", "clear", "limit"}, entries \in {es \in SUBSET details : TRUE},
                  m \in Limits, dropped \in SUBSET IdsOf(details) :
                 /\ Free /\ Commit(op, entries, m, {}, dropped, 0) /\ UNCHANGED <<lastId, session>>
                 /\ entries = Without(details, dropped)
    <3>1. Without(details, {}) = details /\ details \in {es \in SUBSET details : TRUE}
      BY DEF Without
    <3> QED BY <2>3, <3>1 DEF SetLimit
  <2> QED BY <2>1, <2>2, <2>3 DEF Admin
<1>2. Proper(entries, {}, dropped)
  <2>1. entries \subseteq details /\ dropped \cap IdsOf(entries) = {}
        /\ IdsOf(details) \subseteq IdsOf(entries) \cup dropped
    BY <1>1 DEF Without, IdsOf
  <2>2. entries \in SUBSET Entry /\ dropped \in SUBSET Ids
    BY <1>0, <1>1, EntryFields DEF Types, IdsOf
  <2>3. Unique(entries) /\ OnePerOwner(entries) /\ SameOwners(entries, files)
        /\ SameOwners(entries, index.items)
    BY <1>0, <2>1 DEF KnownEntries, Unique, OnePerOwner, SameOwners
  <2>4. \A e \in entries : e.id <= lastId'
    BY <1>0, <1>1, <2>1 DEF KnownEntries
  <2> QED BY <2>1, <2>2, <2>3, <2>4 DEF Proper
<1>3. StoreInv' /\ details' \subseteq entries /\ UNCHANGED <<process, files, index>>
  <2>1. lastId' \in lastId .. MaxEntries /\ 0 \in 0 .. MaxEntries /\ session' \in [Sessions -> Session]
    BY <1>0, <1>1
  <2>2. op \in {"start", "update", "delete", "clear", "limit"}
    OBVIOUS
  <2> QED BY <1>0, <1>1, <1>2, <2>1, <2>2, CommitStep
<1>4. ASSUME NEW o \in Sessions PROVE OwnsOneEntry(o)'
  <2>1. UNCHANGED <<process, files, index>> /\ lastId' \in Nat /\ lastId <= lastId'
        /\ session'[o] = session[o]
    BY <1>0, <1>1, <1>3
  <2>2. \A e \in details' : \/ \E d \in details : d.id = e.id /\ d.owner = e.owner
                            \/ e.owner # o /\ e.id = lastId + 1
    BY <1>1, <1>3
  <2> QED BY <2>1, <2>2, OthersKeepTheirs
<1>5. SessionInv'
  BY <1>4 DEF SessionInv
<1> QED BY <1>3, <1>5 DEF HistoryInv

-----------------------------------------------------------------------------
(* The save.                                                               *)

(* Where no entry gets a new owner, the sessions have theirs as before.    *)
LEMMA SessionsStay ==
  ASSUME HistoryInv, UNCHANGED <<process, details, lastId, session>>,
         \A e \in files' \cup index'.items :
            \E d \in details \cup files \cup index.items : d.owner = e.owner
  PROVE  SessionInv'
<1>1. ASSUME NEW s \in Sessions PROVE OwnsOneEntry(s)'
  BY <1>1 DEF HistoryInv, SessionInv, OwnsOneEntry
<1> QED BY <1>1 DEF SessionInv

LEMMA SaveRemovesStep ==
  ASSUME HistoryInv, NEW i \in Ids, SaveRemoves(i)
  PROVE  HistoryInv'
<1>0. /\ Types /\ KnownEntries /\ MarksInv /\ AwayInv /\ NewerInMemory /\ AckedInMemory
      /\ LegacyInv /\ AckedIsDurable /\ process = "up" /\ i \in deleted
      /\ saving \in SaveRecord
  BY DEF HistoryInv, StoreInv, SaveRemoves, MarksInv, Types
<1>1. /\ UNCHANGED <<process, limit, revision, details, dirty, deleted, index, session, clock, lastId,
                     failures, crashes, acked, removed>>
      /\ files' = {f \in files : f.id # i}
      /\ saving' = [saving EXCEPT !.remove = @ \ {i}]
  BY DEF SaveRemoves, memory, history, Without
<1>2. /\ saving' \in SaveRecord /\ saving'.op = saving.op /\ saving'.write = saving.write
      /\ saving'.remove = saving.remove \ {i}
  BY <1>0, <1>1 DEF SaveRecord
<1>3. saving.op # "none"
  <2>1. saving # NoSave
    BY DEF SaveRemoves, NoSave
  <2> QED BY <1>0, <2>1 DEF Types
<1>4. Types'
  BY <1>0, <1>1, <1>2, <1>3 DEF Types
<1>5. KnownEntries'
  <2>1. files' \subseteq files
    BY <1>1
  <2> QED BY <1>0, <1>1, <2>1 DEF KnownEntries, Unique, SameOwners
<1>6. \A e \in details : e.id # i
  BY <1>0 DEF MarksInv, IdsOf
<1>7. MarksInv'
  <2>1. \A e \in details : e \in files => e \in files'
    BY <1>1, <1>6
  <2>2. IdsOf(files') = IdsOf(files) \ {i}
    BY <1>1 DEF IdsOf
  <2> QED BY <1>0, <1>1, <1>2, <2>1, <2>2 DEF MarksInv
<1>8. AwayInv' /\ AckedInMemory' /\ LegacyInv' /\ NewerInMemory'
  BY <1>0, <1>1 DEF AwayInv, AckedInMemory, LegacyInv, NewerInMemory
<1>9. AckedIsDurable'
  <2>1. i \in removed
    BY <1>0 DEF MarksInv
  <2>2. ASSUME NEW e, OnFile(e), e.id \notin removed PROVE OnFile(e)'
    BY <1>1, <2>1, <2>2 DEF OnFile
  <2>3. ASSUME NEW a \in acked, a.id \notin removed PROVE a.id \in IdsOf(index.items) /\ OnFile(a)'
    BY <1>0, <2>2, <2>3 DEF AckedIsDurable
  <2>4. ASSUME NEW e \in index.items, e.id \notin removed PROVE OnFile(e)'
    BY <1>0, <2>2, <2>4 DEF AckedIsDurable
  <2> QED BY <1>1, <2>3, <2>4 DEF AckedIsDurable
<1>a. SessionInv'
  BY <1>1, SessionsStay
<1> QED BY <1>4, <1>5, <1>7, <1>8, <1>9, <1>a DEF HistoryInv, StoreInv

LEMMA SaveWritesStep ==
  ASSUME HistoryInv, NEW i \in Ids, SaveWrites(i)
  PROVE  HistoryInv'
<1>0. /\ Types /\ KnownEntries /\ MarksInv /\ AwayInv /\ NewerInMemory /\ AckedInMemory
      /\ LegacyInv /\ AckedIsDurable /\ process = "up" /\ i \in saving.write
      /\ saving \in SaveRecord
  BY DEF HistoryInv, StoreInv, SaveWrites, Types
<1>1. PICK d \in details : d = Named(details, i) /\ d.id = i
  <2>1. \E d \in details : d.id = i
    BY <1>0 DEF MarksInv, IdsOf
  <2> QED BY <2>1 DEF Named
<1>2. /\ UNCHANGED <<process, limit, revision, details, dirty, deleted, index, session, clock, lastId,
                     failures, crashes, acked, removed>>
      /\ files' = {f \in files : f.id # i} \cup {d}
      /\ saving' = [saving EXCEPT !.write = @ \ {i}]
  BY <1>1 DEF SaveWrites, memory, history, Without
<1>3. /\ saving' \in SaveRecord /\ saving'.op = saving.op /\ saving'.write = saving.write \ {i}
      /\ saving'.remove = saving.remove
  BY <1>0, <1>2 DEF SaveRecord
<1>4. saving.op # "none"
  <2>1. saving # NoSave
    BY <1>0 DEF NoSave
  <2> QED BY <1>0, <2>1 DEF Types
<1>5. Types'
  <2>1. files' \in SUBSET Entry
    BY <1>0, <1>2 DEF Types
  <2> QED BY <1>0, <1>2, <1>3, <1>4, <2>1 DEF Types
<1>6. KnownEntries'
  <2>1. files' \subseteq files \cup {d}
    BY <1>2
  <2>2. Unique(files')
    BY <1>0, <1>1, <1>2 DEF KnownEntries, Unique
  <2>3. SameOwners(details, files') /\ SameOwners(files', index.items)
    BY <1>0, <1>1, <2>1 DEF KnownEntries, SameOwners, Unique
  <2> QED BY <1>0, <1>1, <1>2, <2>1, <2>2, <2>3 DEF KnownEntries
<1>7. MarksInv'
  <2>1. \A e \in details : e \in files \/ e.id = i => e \in files'
    BY <1>0, <1>1, <1>2 DEF KnownEntries, Unique
  <2>2. IdsOf(files') \subseteq IdsOf(files) \cup {i} /\ i \notin deleted /\ i \in IdsOf(details)
    BY <1>0, <1>1, <1>2 DEF MarksInv, IdsOf
  <2> QED BY <1>0, <1>2, <1>3, <2>1, <2>2 DEF MarksInv
<1>8. NewerInMemory'
  <2> SUFFICES ASSUME NEW f \in files', NEW e \in details, f.id = e.id
               PROVE  f.rev <= e.rev \/ (index.legacy = TRUE /\ e.id \in dirty)
    BY <1>2 DEF NewerInMemory
  <2>1. CASE f \in files
    BY <1>0, <2>1 DEF NewerInMemory
  <2>2. CASE f = d
    <3>1. e = d /\ d.rev \in Nat
      BY <1>0, <2>2, EntryFields DEF KnownEntries, Unique, Types
    <3> QED BY <2>2, <3>1
  <2> QED BY <1>2, <2>1, <2>2
<1>9. AwayInv' /\ AckedInMemory' /\ LegacyInv'
  BY <1>0, <1>2 DEF AwayInv, AckedInMemory, LegacyInv
<1>a. AckedIsDurable'
  <2>1. ASSUME NEW e \in Entry, OnFile(e) PROVE OnFile(e)'
    <3>1. CASE index.legacy = TRUE
      BY <1>2, <2>1, <3>1 DEF OnFile
    <3>2. CASE index.legacy = FALSE
      <4>1. PICK f \in files : f.id = e.id /\ f.rev >= e.rev
        BY <2>1, <3>2 DEF OnFile
      <4>2. CASE f.id # i
        BY <1>2, <3>2, <4>1, <4>2 DEF OnFile
      <4>3. CASE f.id = i
        <5>1. f.rev <= d.rev
          BY <1>0, <1>1, <3>2, <4>3 DEF NewerInMemory
        <5>2. f.rev \in Nat /\ d.rev \in Nat /\ e.rev \in Nat
          BY <1>0, EntryFields DEF Types
        <5>3. d.id = e.id /\ d.rev >= e.rev
          BY <1>1, <4>1, <4>3, <5>1, <5>2
        <5> QED BY <1>2, <3>2, <5>3 DEF OnFile
      <4> QED BY <4>2, <4>3
    <3>3. index.legacy = TRUE \/ index.legacy = FALSE
      <4>1. CASE index = NoIndex
        BY <4>1 DEF NoIndex
      <4>2. CASE index \in IndexFile
        BY <4>2 DEF IndexFile
      <4> QED BY <1>0, <4>1, <4>2 DEF Types
    <3> QED BY <3>1, <3>2, <3>3
  <2>2. acked \subseteq Entry /\ index.items \subseteq Entry
    BY <1>0 DEF Types, IndexFile, NoIndex
  <2>3. \A a \in acked : a.id \notin removed => a.id \in IdsOf(index.items) /\ OnFile(a)'
    BY <1>0, <2>1, <2>2 DEF AckedIsDurable
  <2>4. \A e \in index.items : e.id \in removed \/ OnFile(e)'
    BY <1>0, <2>1, <2>2 DEF AckedIsDurable
  <2> QED BY <1>2, <2>3, <2>4 DEF AckedIsDurable
<1>b. SessionInv'
  BY <1>1, <1>2, SessionsStay
<1> QED BY <1>5, <1>6, <1>7, <1>8, <1>9, <1>a, <1>b DEF HistoryInv, StoreInv

LEMMA SaveIndexStep ==
  ASSUME HistoryInv, SaveIndex
  PROVE  HistoryInv'
<1>0. /\ Types /\ KnownEntries /\ MarksInv /\ AwayInv /\ NewerInMemory /\ AckedInMemory
      /\ LegacyInv /\ AckedIsDurable /\ process = "up"
  BY DEF HistoryInv, StoreInv, SaveIndex
<1>1. /\ UNCHANGED <<process, limit, revision, details, files, session, clock, lastId, failures, crashes,
                     removed>>
      /\ index' = [limit |-> limit, revision |-> revision, items |-> details, legacy |-> FALSE]
      /\ dirty' = {} /\ deleted' = {} /\ saving' = NoSave /\ Acknowledge
  BY DEF SaveIndex
<1>2. details \subseteq files /\ IdsOf(files) \cap deleted = {}
  <2>1. saving.op # "none" /\ saving.remove = {} /\ saving.write = {}
    BY DEF SaveIndex, DetailsSaved
  <2> QED BY <1>0, <2>1 DEF MarksInv
<1>3. acked' \subseteq acked \cup details
  <2>1. CASE saving.target \in IdsOf(details)
    <3>1. \E d \in details : d.id = saving.target
      BY <2>1 DEF IdsOf
    <3>2. Named(details, saving.target) \in details
      BY <3>1 DEF Named
    <3> QED BY <1>1, <2>1, <3>2 DEF Acknowledge, Without
  <2>2. CASE saving.target \notin IdsOf(details)
    BY <1>1, <2>2 DEF Acknowledge
  <2> QED BY <2>1, <2>2
<1>4. index'.items = details /\ index'.legacy = FALSE /\ index'.revision = revision
      /\ saving'.op = "none" /\ saving'.remove = {} /\ saving'.write = {}
  BY <1>1 DEF NoSave
<1>5. Types'
  <2>1. index' \in IndexFile
    BY <1>0, <1>1 DEF Types, IndexFile
  <2>2. saving' \in SaveRecord
    BY <1>0, <1>1, HistoryAssumption DEF SaveRecord, NoSave
  <2>3. acked' \in SUBSET Entry
    BY <1>0, <1>3 DEF Types
  <2> QED BY <1>0, <1>1, <2>1, <2>2, <2>3 DEF Types
<1>6. KnownEntries'
  <2>1. \A e \in details \cup files \cup acked' : e.id <= lastId /\ e.rev <= clock
    BY <1>0, <1>3 DEF KnownEntries
  <2>2. revision <= clock
    BY <1>0 DEF Types
  <2>3. SameOwners(details, details) /\ SameOwners(files, details)
    BY <1>0 DEF KnownEntries, SameOwners, Unique
  <2> QED BY <1>0, <1>1, <1>4, <2>1, <2>2, <2>3 DEF KnownEntries
<1>7. MarksInv'
  BY <1>0, <1>1, <1>2, <1>4 DEF MarksInv
<1>8. AwayInv' /\ LegacyInv'
  BY <1>0, <1>1, <1>4 DEF AwayInv, LegacyInv
<1>9. NewerInMemory'
  <2> SUFFICES ASSUME NEW f \in files, NEW e \in details, f.id = e.id PROVE f.rev <= e.rev
    BY <1>1 DEF NewerInMemory
  <2>1. f = e /\ f.rev \in Nat
    BY <1>0, <1>2, EntryFields DEF KnownEntries, Unique, Types
  <2> QED BY <2>1
<1>a. \A a \in acked' : a.id \notin removed => \E e \in details : e.id = a.id /\ e.rev >= a.rev
  <2> SUFFICES ASSUME NEW a \in acked', a.id \notin removed
               PROVE  \E e \in details : e.id = a.id /\ e.rev >= a.rev
    OBVIOUS
  <2>1. CASE a \in details
    <3>1. a.rev \in Nat
      BY <1>0, <2>1, EntryFields DEF Types
    <3> QED BY <2>1, <3>1
  <2>2. CASE a \in acked
    BY <1>0, <2>2 DEF AckedInMemory
  <2> QED BY <1>3, <2>1, <2>2
<1>b. AckedInMemory'
  BY <1>1, <1>a DEF AckedInMemory
<1>c. AckedIsDurable'
  <2>1. ASSUME NEW a, NEW e \in details, e.id = a.id, e.rev >= a.rev PROVE OnFile(a)'
    BY <1>1, <1>2, <1>4, <2>1 DEF OnFile
  <2>2. \A a \in acked' : a.id \notin removed => a.id \in IdsOf(details) /\ OnFile(a)'
    BY <1>a, <2>1 DEF IdsOf
  <2>3. \A e \in details : OnFile(e)'
    <3> TAKE e \in details
    <3>1. e.rev \in Nat
      BY <1>0, EntryFields DEF Types
    <3> QED BY <2>1, <3>1
  <2> QED BY <1>1, <1>4, <2>2, <2>3 DEF AckedIsDurable
<1>d. SessionInv'
  BY <1>1, <1>4, SessionsStay
<1> QED BY <1>5, <1>6, <1>7, <1>8, <1>9, <1>b, <1>c, <1>d DEF HistoryInv, StoreInv

LEMMA SaveFailsStep ==
  ASSUME HistoryInv, SaveFails
  PROVE  HistoryInv'
<1>0. /\ Types /\ KnownEntries /\ MarksInv /\ AwayInv /\ NewerInMemory /\ AckedInMemory
      /\ LegacyInv /\ AckedIsDurable
  BY DEF HistoryInv, StoreInv
<1>1. /\ UNCHANGED <<process, limit, revision, details, dirty, deleted, files, index, session, clock,
                     lastId, crashes, acked, removed>>
      /\ failures' = failures + 1 /\ saving' = NoSave
  BY DEF SaveFails, MarksAfterFailure, disk, history
<1>2. saving' \in SaveRecord /\ saving'.op = "none" /\ saving'.remove = {} /\ saving'.write = {}
  BY <1>1, HistoryAssumption DEF NoSave, SaveRecord
<1>3. Types'
  BY <1>0, <1>1, <1>2 DEF Types
<1>4. KnownEntries' /\ MarksInv' /\ AwayInv'
  BY <1>0, <1>1, <1>2 DEF KnownEntries, SameOwners, MarksInv, AwayInv
<1>5. NewerInMemory' /\ AckedInMemory' /\ LegacyInv' /\ AckedIsDurable'
  BY <1>0, <1>1 DEF NewerInMemory, AckedInMemory, LegacyInv, AckedIsDurable, OnFile
<1>6. SessionInv'
  BY <1>1, SessionsStay
<1> QED BY <1>3, <1>4, <1>5, <1>6 DEF HistoryInv, StoreInv

-----------------------------------------------------------------------------
(* The process.                                                            *)

LEMMA CrashStep ==
  ASSUME HistoryInv, Crash
  PROVE  HistoryInv'
<1>0. /\ Types /\ KnownEntries /\ MarksInv /\ LegacyInv /\ AckedIsDurable
      /\ session \in [Sessions -> Session]
  BY DEF HistoryInv, StoreInv, Types
<1>1. /\ process' = "down" /\ crashes' = crashes + 1
      /\ limit' = InitialLimit /\ revision' = 0 /\ details' = {} /\ dirty' = {} /\ deleted' = {}
      /\ saving' = NoSave
      /\ session' = [s \in Sessions |-> IF session[s].pc = "new" THEN session[s]
                                         ELSE [session[s] EXCEPT !.pc = "closed"]]
      /\ UNCHANGED <<files, index, clock, lastId, failures, acked, removed>>
  BY DEF Crash, disk, history
<1>2. saving' \in SaveRecord /\ saving'.op = "none" /\ saving'.remove = {} /\ saving'.write = {}
  BY <1>1, HistoryAssumption DEF NoSave, SaveRecord
<1>3. \A s \in Sessions : /\ session'[s] \in Session /\ session'[s].entry = session[s].entry
                          /\ session'[s].pc \in {"new", "closed"}
                          /\ session'[s].pc = "new" => session[s].pc = "new"
  <2> TAKE s \in Sessions
  <2>1. session[s] \in Session
    BY <1>0
  <2>2. CASE session[s].pc = "new"
    BY <1>1, <2>1, <2>2
  <2>3. CASE session[s].pc # "new"
    <3>1. session'[s] = [session[s] EXCEPT !.pc = "closed"]
      BY <1>1, <2>3
    <3> QED BY <2>1, <3>1 DEF Session, Pcs
  <2> QED BY <2>2, <2>3
<1>4. Types'
  <2>1. session' \in [Sessions -> Session]
    BY <1>1, <1>3
  <2>2. limit' \in Limits /\ revision' \in 0 .. MaxClock /\ revision' <= clock' /\ crashes' \in Nat
    BY <1>0, <1>1, HistoryAssumption DEF Types
  <2> QED BY <1>0, <1>1, <1>2, <2>1, <2>2 DEF Types
<1>5. KnownEntries'
  <2>1. Unique({}) /\ OnePerOwner({}) /\ SameOwners({}, files) /\ SameOwners({}, index.items)
    BY DEF Unique, OnePerOwner, SameOwners
  <2> QED BY <1>0, <1>1, <2>1 DEF KnownEntries
<1>6. MarksInv' /\ AwayInv'
  <2>1. crashes' # 0
    BY <1>0, <1>1 DEF Types
  <2> QED BY <1>1, <1>2, <2>1 DEF MarksInv, AwayInv, IdsOf
<1>7. NewerInMemory' /\ AckedInMemory' /\ LegacyInv' /\ AckedIsDurable'
  BY <1>0, <1>1 DEF NewerInMemory, AckedInMemory, LegacyInv, AckedIsDurable, OnFile
<1>8. SessionInv'
  <2>1. ASSUME NEW s \in Sessions PROVE OwnsOneEntry(s)'
    BY <1>1, <1>3 DEF HistoryInv, SessionInv, OwnsOneEntry
  <2> QED BY <2>1 DEF SessionInv
<1> QED BY <1>4, <1>5, <1>6, <1>7, <1>8 DEF HistoryInv, StoreInv

LEMMA RestartStep ==
  ASSUME HistoryInv, Restart
  PROVE  HistoryInv'
<1>0. /\ Types /\ KnownEntries /\ MarksInv /\ AwayInv /\ NewerInMemory /\ AckedInMemory
      /\ LegacyInv /\ AckedIsDurable /\ process = "down" /\ index.legacy # TRUE
      /\ details = {} /\ dirty = {} /\ deleted = {} /\ saving = NoSave /\ crashes # 0
  BY DEF HistoryInv, StoreInv, Restart, AwayInv
<1>1. PICK read : read = {f \in files : f.id \in IdsOf(index.items)}
  OBVIOUS
<1>2. UNCHANGED <<dirty, deleted, saving, files, session, clock, lastId, crashes, acked, removed>>
  BY DEF Restart, history
<1>a. saving'.op = "none" /\ saving'.remove = {} /\ saving'.write = {}
  BY <1>0, <1>2 DEF NoSave
<1>3. CASE process' = "latched" /\ UNCHANGED <<details, limit, revision, index, failures>>
  <2>1. Types' /\ KnownEntries' /\ MarksInv' /\ AwayInv'
    BY <1>0, <1>2, <1>3, <1>a DEF Types, KnownEntries, SameOwners, MarksInv, AwayInv
  <2>2. NewerInMemory' /\ AckedInMemory' /\ LegacyInv' /\ AckedIsDurable'
    BY <1>0, <1>2, <1>3 DEF NewerInMemory, AckedInMemory, LegacyInv, AckedIsDurable, OnFile
  <2>3. ASSUME NEW s \in Sessions PROVE OwnsOneEntry(s)'
    BY <1>0, <1>2, <1>3 DEF HistoryInv, SessionInv, OwnsOneEntry
  <2>4. SessionInv'
    BY <2>3 DEF SessionInv
  <2> QED BY <2>1, <2>2, <2>4 DEF HistoryInv, StoreInv
<1>4. CASE /\ process' = "up" /\ details' = read
           /\ limit' = IF index = NoIndex THEN InitialLimit ELSE index.limit
           /\ revision' = IF index = NoIndex THEN 0 ELSE index.revision
           /\ \/ index' = [limit |-> limit', revision |-> revision', items |-> read, legacy |-> FALSE]
                 /\ UNCHANGED failures
              \/ failures' = failures + 1 /\ UNCHANGED index
  <2>1. read \subseteq files /\ read \subseteq Entry /\ IdsOf(read) \subseteq IdsOf(index.items)
    BY <1>0, <1>1 DEF Types, IdsOf
  <2>2. index'.items \in {read, index.items} /\ index'.legacy # TRUE
        /\ index'.revision \in {revision', index.revision}
    <3>1. CASE index' = index
      BY <1>0, <3>1
    <3>2. CASE index' = [limit |-> limit', revision |-> revision', items |-> read, legacy |-> FALSE]
      BY <3>2
    <3> QED BY <1>4, <3>1, <3>2
  <2>3. limit' \in Limits /\ revision' \in 0 .. MaxClock /\ revision' <= clock /\ index.revision <= clock
    BY <1>0, <1>4, HistoryAssumption DEF Types, IndexFile, KnownEntries
  <2>4. Types'
    <3>1. index' = NoIndex \/ index' \in IndexFile
      <4>1. CASE index' = index
        BY <1>0, <4>1 DEF Types, NoIndex, IndexFile
      <4>2. CASE index' = [limit |-> limit', revision |-> revision', items |-> read, legacy |-> FALSE]
        BY <2>1, <2>3, <4>2 DEF IndexFile
      <4> QED BY <1>4, <4>1, <4>2
    <3> QED BY <1>0, <1>2, <1>4, <2>1, <2>3, <3>1 DEF Types
  <2>5. KnownEntries'
    <3>1. Unique(read) /\ SameOwners(read, files) /\ SameOwners(read, index.items)
      BY <1>0, <2>1 DEF KnownEntries, Unique, SameOwners
    <3>2. OnePerOwner(read)
      <4> SUFFICES ASSUME NEW f \in read, NEW g \in read, f.owner = g.owner, f.owner \in Sessions
                   PROVE  f = g
        BY DEF OnePerOwner
      <4>1. PICK x \in index.items : x.id = f.id
        BY <1>1 DEF IdsOf
      <4>2. PICK y \in index.items : y.id = g.id
        BY <1>1 DEF IdsOf
      <4>3. x.owner = f.owner /\ y.owner = g.owner
        BY <3>1, <4>1, <4>2 DEF SameOwners
      <4>4. x = y
        BY <1>0, <4>3 DEF KnownEntries, OnePerOwner
      <4> QED BY <3>1, <4>1, <4>2, <4>4 DEF Unique
    <3>3. SameOwners(read, read) /\ SameOwners(files, read)
      BY <3>1, <2>1, <1>0 DEF Unique, SameOwners, KnownEntries
    <3>4. \A e \in read \cup files \cup index'.items \cup acked : e.id <= lastId /\ e.rev <= clock
      BY <1>0, <2>1, <2>2 DEF KnownEntries
    <3>5. index'.revision <= clock
      BY <2>2, <2>3
    <3>6. Unique(index'.items) /\ OnePerOwner(index'.items) /\ SameOwners(read, index'.items)
          /\ SameOwners(files, index'.items)
      BY <1>0, <2>2, <3>1, <3>2, <3>3 DEF KnownEntries
    <3> QED BY <1>0, <1>2, <1>4, <3>1, <3>2, <3>4, <3>5, <3>6 DEF KnownEntries
  <2>6. MarksInv' /\ AwayInv'
    BY <1>0, <1>2, <1>4, <1>a, <2>1 DEF MarksInv, AwayInv
  <2>7. NewerInMemory'
    <3> SUFFICES ASSUME NEW f \in files, NEW e \in read, f.id = e.id PROVE f.rev <= e.rev
      BY <1>2, <1>4 DEF NewerInMemory
    <3>1. f = e /\ f.rev \in Nat
      BY <1>0, <2>1, EntryFields DEF KnownEntries, Unique, Types
    <3> QED BY <3>1
  <2>8. \A a \in acked : a.id \notin removed => \E e \in read : e.id = a.id /\ e.rev >= a.rev
    <3> SUFFICES ASSUME NEW a \in acked, a.id \notin removed
                 PROVE  \E e \in read : e.id = a.id /\ e.rev >= a.rev
      OBVIOUS
    <3>1. a.id \in IdsOf(index.items) /\ OnFile(a)
      BY <1>0 DEF AckedIsDurable
    <3>2. PICK f \in files : f.id = a.id /\ f.rev >= a.rev
      BY <1>0, <3>1 DEF OnFile
    <3> QED BY <1>1, <3>1, <3>2
  <2>9. AckedInMemory' /\ LegacyInv'
    BY <1>2, <1>4, <2>2, <2>8 DEF AckedInMemory, LegacyInv
  <2>a. AckedIsDurable'
    <3>1. ASSUME NEW a, NEW e \in files, e.id = a.id, e.rev >= a.rev PROVE OnFile(a)'
      BY <1>2, <2>2, <3>1 DEF OnFile
    <3>2. ASSUME NEW e \in read PROVE OnFile(e)'
      <4>1. e \in files /\ e.rev \in Nat
        BY <2>1, EntryFields
      <4> QED BY <3>1, <4>1
    <3>3. ASSUME NEW a \in acked, a.id \notin removed PROVE a.id \in IdsOf(index'.items) /\ OnFile(a)'
      <4>1. PICK e \in read : e.id = a.id /\ e.rev >= a.rev
        BY <2>8, <3>3
      <4>2. OnFile(a)'
        BY <2>1, <3>1, <4>1
      <4>3. a.id \in IdsOf(read) /\ a.id \in IdsOf(index.items)
        BY <2>1, <4>1 DEF IdsOf
      <4> QED BY <2>2, <4>2, <4>3
    <3>4. ASSUME NEW e \in index'.items, e.id \notin removed PROVE OnFile(e)'
      <4>1. CASE e \in read
        BY <3>2, <4>1
      <4>2. CASE e \in index.items
        <5>1. OnFile(e)
          BY <1>0, <3>4, <4>2 DEF AckedIsDurable
        <5> QED BY <1>0, <3>1, <5>1 DEF OnFile
      <4> QED BY <2>2, <3>4, <4>1, <4>2
    <3> QED BY <1>2, <3>3, <3>4 DEF AckedIsDurable
  <2>b. SessionInv'
    <3>1. ASSUME NEW s \in Sessions PROVE OwnsOneEntry(s)'
      <4>1. OwnsOneEntry(s) /\ session'[s] = session[s] /\ lastId' = lastId
        BY <1>2 DEF HistoryInv, SessionInv
      <4>2. session[s].pc \notin {"open", "recreate", "again"}
        BY <1>0, <4>1 DEF OwnsOneEntry
      <4>3. \A e \in read \cup files \cup index'.items : e \in files \cup index.items
        BY <2>1, <2>2
      <4> QED BY <1>2, <1>4, <4>1, <4>2, <4>3 DEF OwnsOneEntry
    <3> QED BY <3>1 DEF SessionInv
  <2> QED BY <2>4, <2>5, <2>6, <2>7, <2>9, <2>a, <2>b DEF HistoryInv, StoreInv
<1> QED BY <1>1, <1>3, <1>4 DEF Restart

LEMMA LoadLegacyStep ==
  ASSUME HistoryInv, LoadLegacy
  PROVE  HistoryInv'
<1>0. /\ Types /\ KnownEntries /\ MarksInv /\ AwayInv /\ NewerInMemory /\ AckedInMemory
      /\ LegacyInv /\ AckedIsDurable /\ process = "down" /\ index.legacy = TRUE
      /\ details = {} /\ dirty = {} /\ deleted = {}
  <2>1. index.legacy
    BY DEF LoadLegacy
  <2>2. CASE index = NoIndex
    BY <2>1, <2>2 DEF NoIndex
  <2>3. CASE index \in IndexFile
    BY <2>1, <2>3 DEF HistoryInv, StoreInv, LoadLegacy, AwayInv, IndexFile
  <2> QED BY <2>2, <2>3 DEF HistoryInv, StoreInv, Types
<1>1. PICK over : over = Overflow(index.items, index.limit)
  OBVIOUS
<1>2. PICK kept : kept = index.items \ over
  OBVIOUS
<1>3. over \subseteq index.items
  BY <1>1 DEF Overflow
<1>4. index \in IndexFile
  BY <1>0 DEF Types, NoIndex
<1>5. /\ process' = "up" /\ limit' = index.limit
      /\ revision' = CHOOSE r \in {e.rev : e \in index.items} : \A e \in index.items : e.rev <= r
      /\ details' = kept /\ dirty' = IdsOf(kept) /\ deleted' = IdsOf(over)
      /\ removed' = removed \cup IdsOf(over)
      /\ saving' = [op |-> "load", remove |-> deleted', write |-> dirty', target |-> 0]
      /\ UNCHANGED <<files, index, session, clock, lastId, failures, crashes, acked>>
  BY <1>1, <1>2 DEF LoadLegacy, LegacyDirty, disk
<1>6. index.items \subseteq Entry /\ kept \subseteq Entry /\ IdsOf(kept) \in SUBSET Ids
      /\ IdsOf(over) \in SUBSET Ids
  BY <1>2, <1>3, <1>4, EntryFields DEF IndexFile, IdsOf
<1>7. revision' \in 0 .. MaxClock /\ revision' <= clock
  <2>1. \E r \in {e.rev : e \in index.items} : \A e \in index.items : e.rev <= r
    BY <1>0 DEF LegacyInv
  <2>2. revision' \in {e.rev : e \in index.items}
    BY <1>5, <2>1
  <2>3. PICK e \in index.items : revision' = e.rev
    BY <2>2
  <2>4. e.rev \in Nat /\ e.rev <= clock /\ clock \in 0 .. MaxClock
    BY <1>0, <1>6, EntryFields DEF KnownEntries, Types
  <2> QED BY <2>3, <2>4, HistoryAssumption
<1>8. saving' \in SaveRecord /\ saving'.op = "load" /\ saving'.remove = deleted' /\ saving'.write = dirty'
  BY <1>5, <1>6, HistoryAssumption DEF SaveRecord
<1>9. Types'
  BY <1>0, <1>4, <1>5, <1>6, <1>7, <1>8 DEF Types, IndexFile
<1>a. KnownEntries'
  <2>1. kept \subseteq index.items
    BY <1>2
  <2>2. Unique(kept) /\ OnePerOwner(kept) /\ SameOwners(kept, files) /\ SameOwners(kept, index.items)
    BY <1>0, <2>1 DEF KnownEntries, Unique, OnePerOwner, SameOwners
  <2> QED BY <1>0, <1>5, <2>1, <2>2 DEF KnownEntries
<1>b. MarksInv'
  <2>1. IdsOf(kept) \cap IdsOf(over) = {}
    BY <1>0, <1>2, <1>3 DEF KnownEntries, Unique, IdsOf
  <2>2. crashes = 0 => IdsOf(files) = {}
    BY <1>0 DEF AwayInv, IdsOf
  <2>3. \A e \in kept : e.id \in IdsOf(kept)
    BY DEF IdsOf
  <2> QED BY <1>5, <1>8, <2>1, <2>2, <2>3 DEF MarksInv
<1>c. AwayInv' /\ LegacyInv'
  BY <1>0, <1>5 DEF AwayInv, LegacyInv
<1>d. NewerInMemory'
  <2>1. \A e \in kept : e.id \in IdsOf(kept)
    BY DEF IdsOf
  <2> QED BY <1>0, <1>5, <2>1 DEF NewerInMemory
<1>e. AckedInMemory'
  <2> SUFFICES ASSUME NEW a \in acked, a.id \notin removed'
               PROVE  \E e \in kept : e.id = a.id /\ e.rev >= a.rev
    BY <1>5 DEF AckedInMemory
  <2>1. a \in index.items /\ a.id \notin IdsOf(over) /\ a.rev \in Nat
    BY <1>0, <1>5, <1>6, EntryFields DEF LegacyInv
  <2>2. a \in kept
    BY <1>2, <2>1 DEF IdsOf
  <2> QED BY <2>1, <2>2
<1>f. AckedIsDurable'
  BY <1>0, <1>5 DEF AckedIsDurable, OnFile
<1>g. SessionInv'
  <2>1. ASSUME NEW s \in Sessions PROVE OwnsOneEntry(s)'
    <3>1. OwnsOneEntry(s) /\ session'[s] = session[s] /\ lastId' = lastId
      BY <1>5 DEF HistoryInv, SessionInv
    <3>2. session[s].pc \notin {"open", "recreate", "again"}
      BY <1>0, <3>1 DEF OwnsOneEntry
    <3> QED BY <1>2, <1>5, <3>1, <3>2 DEF OwnsOneEntry
  <2> QED BY <2>1 DEF SessionInv
<1> QED BY <1>9, <1>a, <1>b, <1>c, <1>d, <1>e, <1>f, <1>g DEF HistoryInv, StoreInv

-----------------------------------------------------------------------------
(* The theorems.                                                           *)

LEMMA HistoryInit == Init => HistoryInv
<1> SUFFICES ASSUME Init PROVE HistoryInv
  OBVIOUS
<1>0. /\ MaxEntries \in Nat /\ MaxClock \in Nat /\ MaxEntries >= 2 /\ MaxClock >= 2
      /\ InitialLimit \in Limits /\ "earlier" \notin Sessions
  BY HistoryAssumption
<1>1. /\ limit = InitialLimit /\ revision = 0 /\ details = {} /\ dirty = {} /\ deleted = {}
      /\ saving = NoSave /\ files = {} /\ failures = 0 /\ crashes = 0 /\ removed = {}
      /\ session = [s \in Sessions |-> [pc |-> "new", entry |-> 0, pending |-> "streaming"]]
  BY DEF Init, FreshDirectory, LegacyFile
<1>2. session \in [Sessions -> Session] /\ \A s \in Sessions : session[s].entry = 0
  BY <1>0, <1>1 DEF Session, Pcs
<1>3. saving \in SaveRecord /\ saving.op = "none" /\ saving.remove = {} /\ saving.write = {}
  BY <1>0, <1>1 DEF SaveRecord, NoSave
<1>4. \A E : Unique({}) /\ OnePerOwner({}) /\ SameOwners({}, E)
  BY DEF Unique, OnePerOwner, SameOwners
<1>5. /\ process \in {"up", "down", "latched"} /\ clock \in 0 .. MaxClock /\ lastId \in 0 .. MaxEntries
      /\ index = NoIndex \/ index \in IndexFile
      /\ index.revision <= clock /\ acked = index.items /\ acked \in SUBSET Entry
      /\ \A e \in acked : e.id <= lastId /\ e.rev <= clock /\ e.owner = "earlier"
      /\ Unique(acked)
      /\ process = "up" => acked = {} /\ index.legacy = FALSE
      /\ process # "up" => index.legacy = TRUE
                            /\ \E r \in {e.rev : e \in acked} : \A e \in acked : e.rev <= r
  <2>1. CASE FreshDirectory
    <3>1. /\ index = NoIndex \/ index \in IndexFile
          /\ index.items = {} /\ index.legacy = FALSE /\ index.revision <= 0
      <4>1. CASE index = NoIndex
        BY <4>1 DEF NoIndex
      <4>2. CASE index = [limit |-> InitialLimit, revision |-> 0, items |-> {}, legacy |-> FALSE]
        BY <1>0, <4>2 DEF IndexFile
      <4> QED BY <2>1, <4>1, <4>2 DEF FreshDirectory
    <3>2. process = "up" /\ clock = 0 /\ lastId = 0 /\ acked = {}
      BY <2>1 DEF FreshDirectory
    <3> QED BY <1>0, <1>4, <3>1, <3>2
  <2>2. ASSUME NEW n \in 1 .. 2, LegacyFile(n)
        PROVE  /\ process = "down" /\ clock = n /\ lastId = n
               /\ index \in IndexFile /\ index.legacy = TRUE /\ index.revision = 0
               /\ acked = index.items /\ acked \in SUBSET Entry
               /\ \A e \in acked : e.id <= n /\ e.rev <= n /\ e.owner = "earlier"
               /\ Unique(acked)
               /\ \E r \in {e.rev : e \in acked} : \A e \in acked : e.rev <= r
    <3> DEFINE old(i) == [id |-> i, rev |-> i, created |-> 0, status |-> "done", owner |-> "earlier"]
    <3>1. process = "down" /\ clock = n /\ lastId = n /\ acked = {old(i) : i \in 1 .. n}
      BY <2>2 DEF LegacyFile
    <3>2. PICK l \in Limits : index = [limit |-> l, revision |-> 0, items |-> acked, legacy |-> TRUE]
      BY <2>2 DEF LegacyFile
    <3>3. \A i \in 1 .. n : old(i) \in Entry
      BY <1>0 DEF Entry, Ids
    <3>4. \A e \in acked : \E i \in 1 .. n : e = old(i) /\ e.id = i /\ e.rev = i /\ e.owner = "earlier"
      BY <3>1
    <3>5. old(n) \in acked /\ old(n).rev = n
      BY <3>1
    <3> HIDE DEF old
    <3>6. acked \in SUBSET Entry /\ Unique(acked)
      BY <3>3, <3>4 DEF Unique
    <3>7. \A e \in acked : e.id <= n /\ e.rev <= n /\ e.owner = "earlier"
      BY <3>4
    <3>8. \E r \in {e.rev : e \in acked} : \A e \in acked : e.rev <= r
      BY <3>5, <3>7
    <3>9. index \in IndexFile /\ index.legacy = TRUE /\ index.revision = 0 /\ acked = index.items
      BY <1>0, <3>2, <3>6 DEF IndexFile
    <3> QED BY <3>1, <3>6, <3>7, <3>8, <3>9
  <2>3. CASE \E n \in 1 .. 2 : LegacyFile(n)
    <3>1. PICK n \in 1 .. 2 : LegacyFile(n)
      BY <2>3
    <3>2. n \in 0 .. MaxClock /\ n \in 0 .. MaxEntries
      BY <1>0
    <3>3. n <= MaxClock /\ n <= MaxEntries /\ n \in Nat /\ 0 <= n
      BY <1>0
    <3> QED BY <2>2, <3>1, <3>2, <3>3
  <2> QED BY <2>1, <2>3 DEF Init
<1>6. Types
  BY <1>0, <1>1, <1>2, <1>3, <1>5 DEF Types
<1>7. KnownEntries
  <2>1. OnePerOwner(acked)
    BY <1>0, <1>5 DEF OnePerOwner
  <2> QED BY <1>1, <1>4, <1>5, <2>1 DEF KnownEntries
<1>8. MarksInv /\ AwayInv
  BY <1>1, <1>3, <1>5 DEF MarksInv, AwayInv, IdsOf
<1>9. NewerInMemory /\ AckedInMemory
  BY <1>1, <1>5 DEF NewerInMemory, AckedInMemory
<1>a. LegacyInv
  <2>1. process = "up" => index.legacy # TRUE
    BY <1>5
  <2> QED BY <1>5, <2>1 DEF LegacyInv
<1>b. AckedIsDurable
  <2>1. CASE process = "up"
    BY <1>5, <2>1 DEF AckedIsDurable
  <2>2. CASE process # "up"
    <3>1. ASSUME NEW a \in acked PROVE a.id \in IdsOf(index.items) /\ OnFile(a)
      <4>1. a \in index.items /\ a.rev \in Nat /\ index.legacy = TRUE
        BY <1>5, <2>2, EntryFields
      <4> QED BY <4>1 DEF IdsOf, OnFile
    <3> QED BY <1>5, <3>1 DEF AckedIsDurable
  <2> QED BY <2>1, <2>2
<1>c. SessionInv
  <2>1. ASSUME NEW s \in Sessions PROVE OwnsOneEntry(s)
    <3>1. session[s].pc = "new" /\ session[s].entry = 0 /\ 0 <= lastId
      BY <1>0, <1>1, <1>5
    <3>2. \A e \in details \cup files \cup index.items : e.owner # s
      BY <1>0, <1>1, <1>5
    <3> QED BY <3>1, <3>2 DEF OwnsOneEntry
  <2> QED BY <2>1 DEF SessionInv
<1> QED BY <1>6, <1>7, <1>8, <1>9, <1>a, <1>b, <1>c DEF HistoryInv, StoreInv

LEMMA HistoryStep == HistoryInv /\ [Next]_vars => HistoryInv'
<1> SUFFICES ASSUME HistoryInv, [Next]_vars PROVE HistoryInv'
  OBVIOUS
<1>1. CASE UNCHANGED vars
  <2>1. UNCHANGED <<process, memory, saving, disk, clock, lastId, failures, crashes, history>>
        /\ session' = session
    BY <1>1 DEF vars
  <2>2. StoreInv'
    BY <2>1, StoreStays DEF HistoryInv, StoreInv, Types
  <2>3. SessionInv'
    BY <2>1, SessionsStay DEF memory, disk
  <2> QED BY <2>2, <2>3 DEF HistoryInv
<1>2. CASE Save
  BY <1>2, SaveRemovesStep, SaveWritesStep, SaveIndexStep, SaveFailsStep DEF Save
<1> QED BY <1>1, <1>2, RequestStep, AdminStep, CrashStep, RestartStep, LoadLegacyStep DEF Next

LEMMA HistoryGives ==
  HistoryInv => NothingForgotten /\ OneEntryPerRequest /\ AckedIsDurable
<1> SUFFICES ASSUME HistoryInv PROVE NothingForgotten /\ OneEntryPerRequest /\ AckedIsDurable
  OBVIOUS
<1>0. Types /\ KnownEntries /\ MarksInv /\ AckedIsDurable
  BY DEF HistoryInv, StoreInv
<1>1. TypeOK
  <2>1. {dirty, deleted, removed} \subseteq SUBSET Ids
    BY <1>0 DEF Types
  <2>2. index # NoIndex => index.limit \in Limits /\ index.items \subseteq Entry
    BY <1>0 DEF Types, IndexFile
  <2>3. \A s \in Sessions : /\ session[s].pc \in {"new", "open", "recreate", "again", "closed"}
                            /\ session[s].entry \in 0 .. MaxEntries
    BY <1>0 DEF Types, Session, Pcs
  <2> QED BY <1>0, <2>1, <2>2, <2>3 DEF TypeOK, Types, MarksInv
<1>2. NothingForgotten
  BY <1>0, <1>1 DEF NothingForgotten, MarksInv
<1>3. OneEntryPerRequest
  BY <1>0 DEF OneEntryPerRequest, KnownEntries, OnePerOwner
<1> QED BY <1>0, <1>2, <1>3

(* However many saves fail half way and however often the process dies,    *)
(* what the disk lacks of the memory is marked for the next save.          *)
THEOREM FailingSavesForgetNothing == Spec => []NothingForgotten
BY HistoryInit, HistoryStep, HistoryGives, PTL DEF Spec

(* A request whose entry was deleted or trimmed under it and recreated is  *)
(* in the list once at most, also after crashes and restarts.              *)
THEOREM NoRequestIsListedTwice == Spec => []OneEntryPerRequest
BY HistoryInit, HistoryStep, HistoryGives, PTL DEF Spec

(* What was reported as saved, or came with an old file, is on disk until  *)
(* it is taken out, at every step of every save and migration, and the     *)
(* index is never ahead of the detail files.                               *)
THEOREM SavedEntriesSurvive == Spec => []AckedIsDurable
BY HistoryInit, HistoryStep, HistoryGives, PTL DEF Spec

LEMMA NewRevision ==
  HistoryInv /\ [Next]_vars =>
    (process = "up" /\ process' = "up" /\ <<details, limit>>' # <<details, limit>>
       => revision' # revision)
<1> SUFFICES ASSUME HistoryInv, [Next]_vars, process = "up", process' = "up",
                    <<details, limit>>' # <<details, limit>>
             PROVE  revision' # revision
  OBVIOUS
<1>0. nextRevision = clock + 1 /\ revision <= clock /\ revision \in Nat /\ clock \in Nat
  BY HistoryAssumption, NextRevision DEF HistoryInv, StoreInv, Types
<1>1. ASSUME NEW op, NEW entries, NEW l, NEW written, NEW dropped, NEW target,
             Commit(op, entries, l, written, dropped, target)
      PROVE  revision' # revision
  BY <1>0, <1>1 DEF Commit
<1>2. ASSUME NEW s \in Sessions, Request(s) PROVE revision' # revision
  <2>1. Start(s) \/ (\E i, status : Update(i, status)) \/ UNCHANGED memory
    BY <1>2 DEF Request, Open, OpenLatched, Record, RecordMissing, Recreate, RecreateDisabled, RecordAgain
  <2>2. UNCHANGED memory => UNCHANGED <<details, limit>>
    BY DEF memory
  <2>3. Start(s) => revision' # revision
    BY <1>0 DEF Start, Commit
  <2>4. ASSUME NEW i, NEW status, Update(i, status) PROVE revision' # revision
    BY <1>1, <2>4 DEF Update
  <2> QED BY <2>1, <2>2, <2>3, <2>4
<1>3. ASSUME Admin PROVE revision' # revision
  BY <1>1, <1>3 DEF Admin, Delete, Clear, SetLimit
<1>4. ASSUME Save \/ UNCHANGED vars PROVE UNCHANGED <<details, limit>>
  BY <1>4 DEF Save, SaveRemoves, SaveWrites, SaveIndex, SaveFails, memory, vars
<1>5. ASSUME Crash PROVE process' = "down"
  BY <1>5 DEF Crash
<1>6. ~Restart /\ ~LoadLegacy
  BY DEF Restart, LoadLegacy
<1> QED BY <1>2, <1>3, <1>4, <1>5, <1>6 DEF Next

(* A step of a running store that changes the list or the limit gives it a *)
(* new revision, so that a client that has the old one is not told that    *)
(* nothing changed.                                                        *)
THEOREM ChangesGetANewTag == Spec => TagNamesList
<1>1. HistoryInv /\ [Next]_vars =>
        [process = "up" /\ process' = "up" /\ <<details, limit>>' # <<details, limit>>
           => revision' # revision]_vars
  BY NewRevision
<1> QED BY <1>1, HistoryInit, HistoryStep, PTL DEF Spec, TagNamesList
=============================================================================
