------------------------------ MODULE DevCapture ------------------------------
(***************************************************************************)
(* Development captures and raw samples: the bounded, newest-first list of  *)
(* upstream bodies kept in memory (internal/devcapture), the chat requests  *)
(* that fill it, and the admin requests that make sample directories of it  *)
(* on disk (admin/rawsamples, internal/rawsample).  A body is kept as the   *)
(* number of its parts that were stored; time as a clock of whole seconds.  *)
(***************************************************************************)
EXTENDS Naturals, FiniteSets, Sequences, SequencesExt

CONSTANTS Chats,        \* chat requests
          Savers,       \* admin requests that make samples
          Names,        \* sample ids they may ask for
          Limit,        \* captures kept
          MaxBody,      \* parts kept of one body
          MaxCaptures, MaxClock, MaxCrashes   \* bounds of the instance

ASSUME CaptureAssumption ==
    /\ Limit \in Nat \ {0} /\ MaxBody \in Nat \ {0}
    /\ {MaxCaptures, MaxClock, MaxCrashes} \subseteq Nat

VARIABLES items,     \* Store.items, newest first
          open,      \* the wrapped bodies that are not closed
          chat,      \* [stage, session, call, round] of every chat request
          saver,     \* [stage, chat, before, by, entries, sample] of every admin request
          samples,   \* sample directories: name -> [by, files]
          clock, started, crashes,
          record     \* ghost: the list a saver would have if it began empty with its chat

memVars == <<items, open, chat, saver>>
budget == <<started, crashes>>
vars == <<memVars, samples, clock, budget, record>>

NoSession == <<>>
IDs(entries) == {entries[i].id : i \in DOMAIN entries}

(***************************************************************************)
(* The list.                                                                *)
(***************************************************************************)
Pushed(list, entry) == SubSeq(<<entry>> \o list, 1, IF Len(list) < Limit THEN Len(list) + 1 ELSE Limit)

(* What fits of a body is kept.                                             *)
Appended(b, parts) == [b EXCEPT !.body = IF parts < MaxBody THEN parts ELSE MaxBody]

(* A body is recorded at its end or when it is closed, once.                *)
Finalize_Twice(list, b) == Pushed(list, b)
Finalize(list, b) == IF b.final THEN list ELSE Pushed(list, b)

Capturing == {s \in Savers : saver[s].stage = "chatting"}
Records(entry) ==
    record' = [s \in Savers |-> IF s \in Capturing THEN Pushed(record[s], entry) ELSE record[s]]

(***************************************************************************)
(* Chat requests.                                                           *)
(***************************************************************************)
Current(c) == {b \in open : b.chat = c /\ b.id = <<c, chat[c].call, chat[c].round>>}

(* A call upstream that got a response: its body is wrapped.  An upload     *)
(* keeps its capture when it is repeated, and names no session.  The clock  *)
(* counts from the first call.                                              *)
Respond(c, label, session, call, round) ==
    /\ started < MaxCaptures
    /\ started' = started + 1
    /\ clock' \in clock .. IF started = 0 THEN clock ELSE MaxClock
    /\ open' = open \cup {[id |-> <<c, call, round>>, chat |-> c, label |-> label,
                           session |-> IF label = "upload" THEN NoSession ELSE session,
                           created |-> clock',
                           body |-> 0, final |-> FALSE]}
    /\ chat' = [chat EXCEPT ![c] = [stage |-> "reading", session |-> session,
                                    call |-> call, round |-> round]]
    /\ UNCHANGED <<items, saver, samples, crashes, record>>

NoChat == [stage |-> "none", session |-> NoSession, call |-> 0, round |-> 0]
(* Files go up before there is a session, and again, the files of the       *)
(* context, when the request has changed to another account.                *)
UploadFile(c) ==
    \/ /\ chat[c].stage \in {"none", "ready"}
       /\ Respond(c, "upload", chat[c].session, chat[c].call, 0)
    \/ /\ chat[c].stage \in {"reading", "between", "ending"} /\ chat[c].round > 0
       /\ Len(chat[c].session) = 1
       /\ Respond(c, "upload", Append(chat[c].session, c), chat[c].call + 1, 0)

(* A completion: the first one, a retry in its session, or one in the       *)
(* session of another account, which a request changes to once.  A retry    *)
(* may come before the pump of the attempt before has closed its body.      *)
CallCompletion(c) ==
    /\ chat[c].stage \notin {"over", "failed"}
    /\ chat[c].stage = "reading" => chat[c].round > 0
    /\ \E session \in {chat[c].session, Append(chat[c].session, c)} :
          /\ Len(session) \in 1 .. 2
          /\ Respond(c, "completion", session, chat[c].call + 1, 1)

(* The pump asks for the rest of an answer whose status says so.            *)
CallContinue(c) ==
    /\ chat[c].stage = "between"
    /\ Respond(c, "continue", chat[c].session, chat[c].call, chat[c].round + 1)

(* A body is read to its end and closed, or closed before; a status that    *)
(* asks for more was in it.                                                 *)
CloseBody(b, parts, toTheEnd) ==
    LET read == Appended(b, parts)
        c == b.chat
    IN  /\ items' = IF toTheEnd
                    THEN Finalize(Finalize(items, read), [read EXCEPT !.final = TRUE])
                    ELSE Finalize(items, read)
        /\ open' = open \ {b}
        /\ chat' = IF b \in Current(c) /\ chat[c].stage = "reading"
                   THEN [chat EXCEPT ![c].stage = IF b.label = "upload" THEN "ready"
                                                  ELSE IF toTheEnd /\ parts > 0 THEN "between"
                                                  ELSE "ending"]
                   ELSE chat
        /\ Records(read)
        /\ UNCHANGED <<saver, samples, clock, budget>>

(* The client has its answer, before or after the pump has closed.          *)
Answer(c) ==
    /\ chat[c].stage \in {"ready", "reading", "between", "ending"}
    /\ chat[c].stage = "reading" => chat[c].round > 0
    /\ chat' = [chat EXCEPT ![c] = [NoChat EXCEPT !.stage =
                                       IF chat[c].stage = "ready" /\ chat[c].session = NoSession
                                       THEN "failed" ELSE "over"]]
    /\ UNCHANGED <<items, open, saver, samples, clock, budget, record>>

ClearCaptures ==
    /\ items # <<>>
    /\ items' = <<>>
    /\ record' = [s \in Savers |-> IF s \in Capturing THEN <<>> ELSE record[s]]
    /\ UNCHANGED <<open, chat, saver, samples, clock, budget>>

(***************************************************************************)
(* Which captures make a sample.                                            *)
(***************************************************************************)
CollectNewCaptureEntries_All(before, after) ==
    Reverse(SelectSeq(after, LAMBDA e : e.body > 0))
CollectNewCaptureEntries(before, after) ==
    Reverse(SelectSeq(after, LAMBDA e : e.id \notin before /\ e.body > 0))

(* Captures of one session are a chain, in the order they were recorded     *)
(* within a second; the chain with the latest capture comes first.          *)
BySecond(s) == FlattenSeq([t \in 1 .. MaxClock + 1 |-> SelectSeq(s, LAMBDA e : e.created = t - 1)])
ChainKey(e) == IF e.session # NoSession THEN e.session ELSE <<e.id>>
LatestCreatedAt(chain) == Max({chain[i].created : i \in DOMAIN chain})
ChainsOf(ordered) ==
    LET keys == FoldLeft(LAMBDA ks, e : IF Contains(ks, ChainKey(e)) THEN ks
                                        ELSE Append(ks, ChainKey(e)), <<>>, ordered)
        Of(key) == SelectSeq(ordered, LAMBDA e : ChainKey(e) = key)
        At(t) == SelectSeq(keys, LAMBDA key : LatestCreatedAt(Of(key)) = MaxClock + 1 - t)
        byLatest == FlattenSeq([t \in 1 .. MaxClock + 1 |-> At(t)])
    IN  [i \in DOMAIN byLatest |-> Of(byLatest[i])]
BuildCaptureChains(snapshot) == ChainsOf(BySecond(Reverse(snapshot)))

(* A chain is chosen by its key, by one of its captures, or by what one of  *)
(* them contains; the question is only in the request of a completion.      *)
Selects(by, chain) ==
    \E i \in DOMAIN chain :
        CASE by.kind = "chain" -> ChainKey(chain[i]) = by.key
          [] by.kind = "capture" -> chain[i].id = by.id
          [] by.kind = "query" -> chain[i].label = "completion" /\ chain[i].chat = by.chat
ResolveCaptureChainSelection(chains, by) ==
    LET found == SelectSeq(chains, LAMBDA chain : Selects(by, chain))
    IN  IF found = <<>> THEN <<>> ELSE found[1]
Selections ==
    {[kind |-> "chain", key |-> ChainKey(items[i])] : i \in DOMAIN items}
      \cup {[kind |-> "capture", id |-> items[i].id] : i \in DOMAIN items}
      \cup {[kind |-> "query", chat |-> c] : c \in Chats}

(***************************************************************************)
(* Admin requests.                                                          *)
(***************************************************************************)
NoSample == [name |-> "", files |-> {}]
IdleSaver == [stage |-> "idle", chat |-> "", before |-> {}, by |-> "", entries |-> <<>>,
              sample |-> NoSample]
GoOn(s, stage, sample) ==
    /\ saver' = [saver EXCEPT ![s] = [IdleSaver EXCEPT !.stage = stage, !.sample = sample]]
    /\ record' = [record EXCEPT ![s] = <<>>]
SaverReplies(s) == GoOn(s, "over", NoSample)
Chosen(s, by, c, base, entries) ==
    /\ saver' = [saver EXCEPT ![s] = [@ EXCEPT !.stage = "name", !.before = {}, !.by = by, !.chat = c,
                                         !.entries = entries, !.sample.name = base]]
    /\ UNCHANGED record
Bytes(entries) == FoldLeft(LAMBDA n, e : n + e.body, 0, entries)

(* Nothing to decode, or no key of its own and none configured.             *)
RefuseRawSample(s) ==
    /\ saver[s].stage = "idle"
    /\ SaverReplies(s)
    /\ UNCHANGED <<items, open, chat, samples, clock, budget>>

(* One chat request of its own, between two looks at the list.              *)
CaptureRawSample(s, c) ==
    /\ saver[s].stage = "idle" /\ chat[c].stage = "none"
    /\ saver' = [saver EXCEPT ![s] = [@ EXCEPT !.stage = "chatting", !.chat = c, !.before = IDs(items)]]
    /\ chat' = [chat EXCEPT ![c].stage = "ready"]
    /\ UNCHANGED <<items, open, samples, clock, budget, record>>
CaptureEnds(s, base, status) ==
    LET entries == CollectNewCaptureEntries(saver[s].before, items)
    IN  /\ saver[s].stage = "chatting" /\ chat[saver[s].chat].stage \in {"over", "failed"}
        /\ chat[saver[s].chat].stage = "failed" => status = "error"
        /\ IF status = "error" \/ entries = <<>> THEN SaverReplies(s)
           ELSE Chosen(s, "capture", saver[s].chat, base, entries)
        /\ UNCHANGED <<items, open, chat, samples, clock, budget>>

SaveRawSampleFromCaptures(s, base) ==
    LET chains == BuildCaptureChains(items)
    IN  /\ saver[s].stage = "idle" /\ items # <<>>
        /\ \E found \in {[chain |-> ResolveCaptureChainSelection(chains, by),
                          asked |-> IF by.kind = "query" THEN by.chat ELSE ""] : by \in Selections} :
              IF found.chain = <<>> THEN SaverReplies(s)
              ELSE Chosen(s, "save", found.asked, base, found.chain)
        /\ UNCHANGED <<items, open, chat, samples, clock, budget>>

(***************************************************************************)
(* Persist: a free name is looked up, the files are written in a temporary  *)
(* directory nobody else has, and that is renamed, which fails on a name    *)
(* taken meanwhile.  Any step may fail.                                     *)
(***************************************************************************)
UniqueSampleID(base) ==
    <<base, Min({n \in 1 .. Cardinality(DOMAIN samples) + 1 : <<base, n>> \notin DOMAIN samples})>>

OnDisk(s) == [by |-> s, files |-> saver[s].sample.files]
NamesOnDisk(s) == DOMAIN samples \cup {saver[s].sample.name}
WriteFile(s, sample, stage) == GoOn(s, stage, sample) /\ UNCHANGED samples

WriteUpstream(s) ==
    /\ saver[s].stage = "name" /\ Bytes(saver[s].entries) > 0
    /\ WriteFile(s, [name |-> UniqueSampleID(saver[s].sample.name), files |-> {"upstream.stream.sse"}],
                 "upstream")
    /\ UNCHANGED <<items, open, chat, clock, budget>>
WriteMeta(s) ==
    /\ saver[s].stage = "upstream"
    /\ WriteFile(s, [saver[s].sample EXCEPT !.files = @ \cup {"meta.json"}], "meta")
    /\ UNCHANGED <<items, open, chat, clock, budget>>
PersistFails(s) ==
    /\ saver[s].stage \in {"name", "upstream", "meta"}
    /\ SaverReplies(s)
    /\ UNCHANGED <<items, open, chat, samples, clock, budget>>
Rename_Replaces(s) ==
    samples' = [n \in NamesOnDisk(s) |->
                  IF n = saver[s].sample.name THEN OnDisk(s) ELSE samples[n]]
Rename(s) ==
    samples' = [n \in NamesOnDisk(s) |->
                  IF n \in DOMAIN samples THEN samples[n] ELSE OnDisk(s)]
Promote(s) ==
    /\ saver[s].stage = "meta"
    /\ Rename(s)
    /\ SaverReplies(s)
    /\ UNCHANGED <<items, open, chat, clock, budget>>

(* The memory is lost, the directories stay; the instance records nothing   *)
(* after a crash.                                                           *)
Crash ==
    /\ crashes < MaxCrashes
    /\ crashes' = crashes + 1
    /\ items' = <<>> /\ open' = {}
    /\ chat' = [c \in Chats |-> [NoChat EXCEPT !.stage = IF chat[c].stage = "none" THEN "none" ELSE "failed"]]
    /\ saver' = [s \in Savers |-> [IdleSaver EXCEPT !.stage =
                                      IF saver[s].stage = "idle" THEN "idle" ELSE "over"]]
    /\ record' = [s \in Savers |-> <<>>]
    /\ started' = MaxCaptures
    /\ UNCHANGED <<samples, clock>>

Init ==
    /\ items = <<>> /\ open = {}
    /\ chat = [c \in Chats |-> NoChat]
    /\ saver = [s \in Savers |-> IdleSaver]
    /\ samples = <<>>
    /\ clock = 0 /\ started = 0 /\ crashes = 0
    /\ record = [s \in Savers |-> <<>>]
Next ==
    \/ \E c \in Chats :
          \/ UploadFile(c) \/ CallCompletion(c) \/ CallContinue(c)
          \/ Answer(c)
    \/ \E b \in open, parts \in {0, MaxBody + 1}, toTheEnd \in BOOLEAN : CloseBody(b, parts, toTheEnd)
    \/ ClearCaptures
    \/ \E s \in Savers :
          \/ RefuseRawSample(s) \/ \E c \in Chats : CaptureRawSample(s, c)
          \/ \E base \in Names :
                \/ \E status \in {"ok", "error"} : CaptureEnds(s, base, status)
                \/ SaveRawSampleFromCaptures(s, base)
          \/ WriteUpstream(s) \/ WriteMeta(s) \/ PersistFails(s) \/ Promote(s)
    \/ Crash
Spec == Init /\ [][Next]_vars

(***************************************************************************)
(* Properties.                                                              *)
(***************************************************************************)
(* The state has its shape; what was recorded keeps within the limits.      *)
TypeOK ==
    /\ Len(items) <= Limit
    /\ \A i \in DOMAIN items : items[i].body \in 0 .. MaxBody
    /\ \A c \in Chats : chat[c].stage \in {"none", "ready", "reading", "between", "ending", "over", "failed"}
    /\ \A s \in Savers : saver[s].stage \in {"idle", "chatting", "name", "upstream", "meta", "over"}
    /\ clock \in 0 .. MaxClock /\ started \in 0 .. MaxCaptures

(* No body is on the list twice, though its reader meets its end and closes *)
(* it; only an upload that is repeated has two entries of one id.           *)
CapturedOnce ==
    /\ TypeOK
    /\ \A i, j \in DOMAIN items :
          items[i].id = items[j].id /\ items[i].label # "upload" => i = j

(* A directory that has a sample's name has the whole sample, whichever     *)
(* write failed and wherever the process stopped.                           *)
SamplesAreWhole ==
    \A n \in DOMAIN samples : samples[n].files = {"upstream.stream.sse", "meta.json"}

(* No request replaces or removes a sample, the one that asked for the same *)
(* name at the same time included.                                          *)
SamplesStay ==
    [][\A n \in DOMAIN samples : n \in DOMAIN samples' /\ samples'[n] = samples[n]]_vars

(* What becomes a sample has the rounds of a call in the order they were    *)
(* asked for and none missing between two, whether they came in one second  *)
(* or more and whatever fell off the list; a saved chain is of one session. *)
RoundsInOrder ==
    \A s \in Savers :
        LET es == saver[s].entries
            SameCall(i, j) == es[i].chat = es[j].chat /\ es[i].id[2] = es[j].id[2]
        IN  /\ \A i, j \in DOMAIN es :
                  SameCall(i, j) /\ es[i].label # "upload" /\ i < j =>
                    /\ es[i].id[3] < es[j].id[3]
                    /\ \A r \in es[i].id[3] .. es[j].id[3] :
                          \E k \in DOMAIN es : SameCall(i, k) /\ es[k].id[3] = r
            /\ saver[s].by = "save" =>
                  \A i, j \in DOMAIN es : ChainKey(es[i]) = ChainKey(es[j])

(* A request that captures takes the bodies of its own chat, all of them    *)
(* that are still on the list and not empty, in their order; what it takes  *)
(* besides is what others recorded while its chat ran                       *)
(* (handler_raw_samples.go:145-159 compares two snapshots, not sessions).   *)
CaptureIsOwn ==
    \A s \in Savers :
        LET es == saver[s].entries
            Own(list) == SelectSeq(list, LAMBDA e : e.chat = saver[s].chat)
        IN  saver[s].by = "capture" =>
              /\ Reverse(Own(es)) = SelectSeq(Own(record[s]), LAMBDA e : e.body > 0)
              /\ \A i \in DOMAIN es : Contains(record[s], es[i])

(* What is saved for a query is of the chat that has it in its question,    *)
(* a completion of its among it.                                            *)
SavedIsAsked ==
    \A s \in Savers :
        LET es == saver[s].entries
        IN  saver[s].by = "save" /\ saver[s].chat \in Chats =>
              /\ \A i \in DOMAIN es : es[i].chat = saver[s].chat
              /\ \E i \in DOMAIN es : es[i].label = "completion"

(* A sample has the rounds of its chat, all that were on the list and in    *)
(* the order of the calls, and is whole on the disk.  A saved one has no    *)
(* other chat's; a captured one has what others recorded in the time of its *)
(* chat too, and nothing from before it.                                    *)
SamplesAreFaithful == RoundsInOrder /\ CaptureIsOwn /\ SavedIsAsked /\ SamplesAreWhole
===============================================================================
