--------------------------- MODULE DevCaptureProofs ---------------------------
(***************************************************************************)
(* Proofs about DevCapture, for any chats, sample requests, names, list    *)
(* limit and body limit: what was recorded is on the list once, a sample   *)
(* that has its name is whole, and no sample is replaced or removed.       *)
(***************************************************************************)
EXTENDS DevCapture, SequenceTheorems, TLAPS

(* A capture, open or recorded: its id is its chat, call and round.         *)
Capture == [id : Chats \X Nat \X Nat, chat : Chats,
            label : {"upload", "completion", "continue"}, session : Seq(Chats),
            created : Nat, body : 0 .. MaxBody, final : BOOLEAN]

ChatStages == {"none", "ready", "reading", "between", "ending", "over", "failed"}
SaverStages == {"idle", "chatting", "name", "upstream", "meta", "over"}
SaverFields == {"stage", "chat", "before", "by", "entries", "sample"}

Shape ==
    /\ items \in Seq(Capture) /\ Len(items) <= Limit
    /\ open \subseteq Capture
    /\ chat \in [Chats -> [stage : ChatStages, session : Seq(Chats), call : Nat, round : Nat]]
    /\ DOMAIN saver = Savers
    /\ \A s \in Savers : DOMAIN saver[s] = SaverFields /\ saver[s].stage \in SaverStages
    /\ clock \in 0 .. MaxClock /\ started \in 0 .. MaxCaptures

-----------------------------------------------------------------------------
(* The list.                                                               *)

(* A new capture comes first, the others move down, the last may fall off.  *)
LEMMA PushedProperties ==
  ASSUME NEW S, NEW list \in Seq(S), NEW e \in S, Len(list) <= Limit
  PROVE  /\ Pushed(list, e) \in Seq(S)
         /\ Len(Pushed(list, e)) <= Limit
         /\ Len(Pushed(list, e)) \in 1 .. Len(list) + 1
         /\ Pushed(list, e)[1] = e
         /\ \A i \in 2 .. Len(Pushed(list, e)) : Pushed(list, e)[i] = list[i - 1]
<1> DEFINE n == IF Len(list) < Limit THEN Len(list) + 1 ELSE Limit
<1> DEFINE all == <<e>> \o list
<1>1. Len(list) \in Nat /\ Limit \in Nat \ {0}
  BY LenProperties, CaptureAssumption
<1>2. n \in 1 .. Len(list) + 1 /\ n <= Limit
  BY <1>1
<1>3. <<e>> \in Seq(S) /\ Len(<<e>>) = 1 /\ <<e>>[1] = e
  OBVIOUS
<1>4. \A i \in 1 .. Len(list) + 1 : all[i] = IF i = 1 THEN e ELSE list[i - 1]
  BY <1>1, <1>3
<1>5. \A i \in 1 .. n : all[i] \in S
  BY <1>1, <1>2, <1>4, ElementOfSeq
<1>6. Pushed(list, e) = SubSeq(all, 1, n)
  BY DEF Pushed
<1> HIDE DEF n, all
<1>7. /\ SubSeq(all, 1, n) \in Seq(S)
      /\ Len(SubSeq(all, 1, n)) = n
      /\ \A i \in 1 .. n : SubSeq(all, 1, n)[i] = all[i]
  BY <1>1, <1>2, <1>5, SubSeqProperties
<1> QED
  BY <1>1, <1>2, <1>4, <1>6, <1>7

(* A body that is read to its end and then closed is recorded once.         *)
LEMMA ClosedOnce ==
  ASSUME Shape, NEW b \in open, b.final = FALSE, NEW parts \in {0, MaxBody + 1}, NEW toTheEnd \in BOOLEAN,
         CloseBody(b, parts, toTheEnd)
  PROVE  \E e \in Capture :
            /\ e = [b EXCEPT !.body = e.body]
            /\ items' = Pushed(items, e)
<1> DEFINE n == IF parts < MaxBody THEN parts ELSE MaxBody
<1> DEFINE read == [b EXCEPT !.body = n]
<1>1. b \in Capture /\ Appended(b, parts) = read
  BY DEF Shape, Appended
<1>2. n \in 0 .. MaxBody
  BY CaptureAssumption
<1> HIDE DEF n
<1>3. read \in Capture /\ read.body = n /\ read.final = b.final
  BY <1>1, <1>2 DEF Capture
<1>4. [read EXCEPT !.final = TRUE].final = TRUE
  BY <1>1 DEF Capture
<1>5. Finalize(items, read) = Pushed(items, read)
  BY <1>3 DEF Finalize
<1>6. items' = Pushed(items, read)
  BY <1>1, <1>4, <1>5, Zenon DEF CloseBody, Finalize
<1> QED BY <1>3, <1>6

-----------------------------------------------------------------------------
(* The shape of the state.                                                 *)

LEMMA ShapeInit == Init => Shape
<1> SUFFICES ASSUME Init PROVE Shape
  OBVIOUS
<1>1. items \in Seq(Capture) /\ Len(items) <= Limit
  BY CaptureAssumption, EmptySeq DEF Init
<1>2. NoChat \in [stage : ChatStages, session : Seq(Chats), call : Nat, round : Nat]
  BY EmptySeq DEF NoChat, NoSession, ChatStages
<1>3. DOMAIN IdleSaver = SaverFields /\ IdleSaver.stage \in SaverStages
  BY DEF IdleSaver, SaverFields, SaverStages
<1> QED
  BY <1>1, <1>2, <1>3, CaptureAssumption DEF Init, Shape

(* A response opens one body, of the id it was asked for with.              *)
LEMMA RespondShape ==
  ASSUME Shape, NEW c \in Chats, NEW label \in {"upload", "completion", "continue"},
         NEW session \in Seq(Chats), NEW call \in Nat, NEW round \in Nat,
         Respond(c, label, session, call, round)
  PROVE  Shape'
<1>1. clock' \in 0 .. MaxClock /\ started' \in 0 .. MaxCaptures /\ clock' \in Nat
  BY CaptureAssumption DEF Shape, Respond, budget
<1>2. [id |-> <<c, call, round>>, chat |-> c, label |-> label,
       session |-> IF label = "upload" THEN NoSession ELSE session,
       created |-> clock', body |-> 0, final |-> FALSE] \in Capture
  BY <1>1, CaptureAssumption, EmptySeq DEF Capture, NoSession
<1>3. open' \subseteq Capture
  BY <1>2 DEF Shape, Respond
<1>4. chat' \in [Chats -> [stage : ChatStages, session : Seq(Chats), call : Nat, round : Nat]]
  BY DEF Shape, Respond, ChatStages
<1> QED
  BY <1>1, <1>3, <1>4 DEF Shape, Respond

(* The list after a body is closed.                                         *)
LEMMA CloseShape ==
  ASSUME Shape, NEW b \in open, b.final = FALSE, NEW parts \in {0, MaxBody + 1},
         NEW toTheEnd \in BOOLEAN, CloseBody(b, parts, toTheEnd)
  PROVE  Shape'
<1>1. PICK e \in Capture : items' = Pushed(items, e)
  BY ClosedOnce
<1>2. items' \in Seq(Capture) /\ Len(items') <= Limit
  BY <1>1, PushedProperties DEF Shape
<1>3. b.chat \in Chats
  BY DEF Shape, Capture
<1>4. chat' \in [Chats -> [stage : ChatStages, session : Seq(Chats), call : Nat, round : Nat]]
  <2>1. \/ chat' = chat
        \/ \E stage \in ChatStages : chat' = [chat EXCEPT ![b.chat].stage = stage]
    BY DEF CloseBody, ChatStages
  <2> QED BY <1>3, <2>1 DEF Shape
<1> QED
  BY <1>2, <1>4 DEF Shape, CloseBody, budget

(* What a step of a sample request does to its record.                      *)
LEMMA SaverShape ==
  ASSUME Shape, NEW s \in Savers
  PROVE  /\ \A stage \in SaverStages : \A sample : GoOn(s, stage, sample) =>
              /\ saver'[s] = [IdleSaver EXCEPT !.stage = stage, !.sample = sample]
              /\ \A q \in Savers \ {s} : saver'[q] = saver[q]
              /\ DOMAIN saver' = Savers
              /\ DOMAIN saver'[s] = SaverFields /\ saver'[s].stage = stage
         /\ \A by, c, base, entries : Chosen(s, by, c, base, entries) =>
              /\ DOMAIN saver'[s].sample = DOMAIN saver[s].sample
              /\ \A q \in Savers \ {s} : saver'[q] = saver[q]
              /\ DOMAIN saver' = Savers
              /\ DOMAIN saver'[s] = SaverFields /\ saver'[s].stage = "name"
<1>1. ASSUME NEW new, saver' = [saver EXCEPT ![s] = new]
      PROVE  /\ saver'[s] = new /\ \A q \in Savers \ {s} : saver'[q] = saver[q]
             /\ DOMAIN saver' = Savers
  BY <1>1 DEF Shape
<1>2. ASSUME NEW stage \in SaverStages, NEW sample, GoOn(s, stage, sample)
      PROVE  /\ saver'[s] = [IdleSaver EXCEPT !.stage = stage, !.sample = sample]
             /\ \A q \in Savers \ {s} : saver'[q] = saver[q]
             /\ DOMAIN saver' = Savers
             /\ DOMAIN saver'[s] = SaverFields /\ saver'[s].stage = stage
  <2> DEFINE new == [IdleSaver EXCEPT !.stage = stage, !.sample = sample]
  <2>1. DOMAIN new = SaverFields /\ new.stage = stage
    BY DEF IdleSaver, SaverFields
  <2>2. saver' = [saver EXCEPT ![s] = new]
    BY <1>2 DEF GoOn, Shape
  <2> HIDE DEF new
  <2>3. saver'[s] = new /\ DOMAIN saver' = Savers /\ \A q \in Savers \ {s} : saver'[q] = saver[q]
    BY <1>1, <2>2
  <2> QED BY <2>1, <2>2, <2>3 DEF new
<1>3. ASSUME NEW by, NEW c, NEW base, NEW entries, Chosen(s, by, c, base, entries)
      PROVE  /\ DOMAIN saver'[s].sample = DOMAIN saver[s].sample
             /\ \A q \in Savers \ {s} : saver'[q] = saver[q]
             /\ DOMAIN saver' = Savers
             /\ DOMAIN saver'[s] = SaverFields /\ saver'[s].stage = "name"
  <2> DEFINE new == [saver[s] EXCEPT !.stage = "name", !.before = {}, !.by = by, !.chat = c,
                                     !.entries = entries, !.sample.name = base]
  <2>1. DOMAIN new = SaverFields /\ new.stage = "name"
    BY DEF Shape, SaverFields
  <2>4. DOMAIN new.sample = DOMAIN saver[s].sample
    BY DEF Shape, SaverFields
  <2>2. saver' = [saver EXCEPT ![s] = new]
    BY <1>3 DEF Chosen, Shape
  <2> HIDE DEF new
  <2>3. saver'[s] = new /\ DOMAIN saver' = Savers /\ \A q \in Savers \ {s} : saver'[q] = saver[q]
    BY <1>1, <2>2
  <2> QED BY <2>1, <2>2, <2>3, <2>4
<1> QED BY <1>2, <1>3

SaverStep(s) ==
    \/ RefuseRawSample(s)
    \/ \E base \in Names, status \in {"ok", "error"} : CaptureEnds(s, base, status)
    \/ \E base \in Names : SaveRawSampleFromCaptures(s, base)
    \/ WriteUpstream(s) \/ WriteMeta(s) \/ PersistFails(s) \/ Promote(s)

(* The steps of the system.                                                *)
LEMMA NextCases ==
  Next => \/ \E c \in Chats : UploadFile(c) \/ CallCompletion(c) \/ CallContinue(c) \/ Answer(c)
          \/ \E b \in open, parts \in {0, MaxBody + 1}, toTheEnd \in BOOLEAN : CloseBody(b, parts, toTheEnd)
          \/ ClearCaptures
          \/ \E s \in Savers : SaverStep(s)
          \/ \E s \in Savers, c \in Chats : CaptureRawSample(s, c)
          \/ Crash
BY DEF Next, SaverStep

(* All of them but the start of its chat either go on with a new record, or *)
(* have chosen what makes the sample.                                       *)
LEMMA SaverStepCases ==
  ASSUME NEW s \in Savers, SaverStep(s)
  PROVE  /\ UNCHANGED <<items, open, chat, clock, budget>>
         /\ \/ \E stage \in SaverStages : \E sample : GoOn(s, stage, sample)
            \/ \E by, c, base, entries : Chosen(s, by, c, base, entries)
<1>1. UNCHANGED <<items, open, chat, clock, budget>>
  BY DEF SaverStep, RefuseRawSample, CaptureEnds, SaveRawSampleFromCaptures, WriteUpstream,
         WriteMeta, PersistFails, Promote, budget
<1>2. \/ \E stage \in SaverStages : \E sample : GoOn(s, stage, sample)
      \/ \E by, c, base, entries : Chosen(s, by, c, base, entries)
  <2>1. \A stage \in SaverStages : \A sample : GoOn(s, stage, sample) => <1>2!1
    OBVIOUS
  <2>2. SaverReplies(s) => <1>2!1
    BY <2>1 DEF SaverReplies, SaverStages
  <2>3. WriteUpstream(s) \/ WriteMeta(s) => <1>2!1
    BY <2>1 DEF WriteUpstream, WriteMeta, WriteFile, SaverStages
  <2>4. \A base \in Names, status \in {"ok", "error"} : CaptureEnds(s, base, status) =>
          SaverReplies(s) \/ <1>2!2
    BY DEF CaptureEnds
  <2>5. \A base \in Names : SaveRawSampleFromCaptures(s, base) => SaverReplies(s) \/ <1>2!2
    BY DEF SaveRawSampleFromCaptures
  <2> QED
    BY <2>2, <2>3, <2>4, <2>5 DEF SaverStep, RefuseRawSample, PersistFails, Promote
<1> QED BY <1>1, <1>2

(* A request that captures takes a chat of its own.                         *)
LEMMA CaptureShape ==
  ASSUME Shape, NEW s \in Savers, NEW c \in Chats, CaptureRawSample(s, c)
  PROVE  /\ Shape'
         /\ saver'[s].stage = "chatting" /\ saver'[s].sample = saver[s].sample
         /\ \A q \in Savers \ {s} : saver'[q] = saver[q]
<1> DEFINE new == [saver[s] EXCEPT !.stage = "chatting", !.chat = c, !.before = IDs(items)]
<1>1. DOMAIN new = SaverFields /\ new.stage = "chatting" /\ new.sample = saver[s].sample
  BY DEF Shape, SaverFields
<1>2. saver' = [saver EXCEPT ![s] = new]
  BY DEF CaptureRawSample
<1> HIDE DEF new
<1>3. /\ saver'[s] = new /\ DOMAIN saver' = Savers
      /\ \A q \in Savers \ {s} : saver'[q] = saver[q]
  BY <1>2 DEF Shape
<1>4. chat' = [chat EXCEPT ![c].stage = "ready"]
  BY DEF CaptureRawSample
<1>5. chat' \in [Chats -> [stage : ChatStages, session : Seq(Chats), call : Nat, round : Nat]]
  BY <1>4 DEF Shape, ChatStages
<1>6. \A q \in Savers : DOMAIN saver'[q] = SaverFields /\ saver'[q].stage \in SaverStages
  BY <1>1, <1>3 DEF Shape, SaverStages
<1>7. UNCHANGED <<items, open, clock, budget>>
  BY DEF CaptureRawSample
<1> QED
  BY <1>1, <1>3, <1>5, <1>6, <1>7 DEF Shape, budget

(* The captures stay, whatever a sample request does.                       *)
LEMMA SaverStepShape ==
  ASSUME Shape, NEW s \in Savers, SaverStep(s)
  PROVE  Shape'
<1>1. /\ DOMAIN saver' = Savers
      /\ \A q \in Savers \ {s} : saver'[q] = saver[q]
      /\ DOMAIN saver'[s] = SaverFields /\ saver'[s].stage \in SaverStages
  <2>1. CASE \E stage \in SaverStages : \E sample : GoOn(s, stage, sample)
    <3>1. PICK stage, sample : stage \in SaverStages /\ GoOn(s, stage, sample)
      BY <2>1
    <3> QED BY <3>1, SaverShape
  <2>2. CASE \E by, c, base, entries : Chosen(s, by, c, base, entries)
    <3>1. PICK by, c, base, entries : Chosen(s, by, c, base, entries)
      BY <2>2
    <3> QED BY <3>1, SaverShape DEF SaverStages
  <2> QED BY <2>1, <2>2, SaverStepCases
<1> QED
  BY <1>1, SaverStepCases DEF Shape, budget

(* A step of a chat, and a crash.                                           *)
LEMMA ChatShape ==
  ASSUME Shape, NEW c \in Chats, UploadFile(c) \/ CallCompletion(c) \/ CallContinue(c) \/ Answer(c)
  PROVE  Shape'
<1>0. chat[c] \in [stage : ChatStages, session : Seq(Chats), call : Nat, round : Nat]
  BY DEF Shape
<1>1. CASE UploadFile(c)
  <2>1. Append(chat[c].session, c) \in Seq(Chats) /\ chat[c].call + 1 \in Nat
    BY <1>0, AppendProperties
  <2>2. \/ Respond(c, "upload", chat[c].session, chat[c].call, 0)
        \/ Respond(c, "upload", Append(chat[c].session, c), chat[c].call + 1, 0)
    BY <1>1 DEF UploadFile
  <2> QED BY <1>0, <2>1, <2>2, RespondShape
<1>2. CASE CallCompletion(c)
  <2>1. chat[c].session \in Seq(Chats) /\ Append(chat[c].session, c) \in Seq(Chats)
    BY <1>0, AppendProperties
  <2>2. PICK session \in Seq(Chats) : Respond(c, "completion", session, chat[c].call + 1, 1)
    BY <1>2, <2>1 DEF CallCompletion
  <2> QED BY <1>0, <2>2, RespondShape
<1>3. CASE CallContinue(c)
  BY <1>0, <1>3, RespondShape DEF CallContinue
<1>4. CASE Answer(c)
  <2>1. chat' \in [Chats -> [stage : ChatStages, session : Seq(Chats), call : Nat, round : Nat]]
    BY <1>4, EmptySeq DEF Answer, Shape, NoChat, NoSession, ChatStages
  <2> QED BY <1>4, <2>1 DEF Answer, Shape, budget
<1> QED BY <1>1, <1>2, <1>3, <1>4

LEMMA CrashShape ==
  ASSUME Shape, Crash
  PROVE  Shape'
<1>1. chat' \in [Chats -> [stage : ChatStages, session : Seq(Chats), call : Nat, round : Nat]]
  BY EmptySeq DEF Crash, NoChat, NoSession, ChatStages
<1>2. \A s \in Savers : DOMAIN saver'[s] = SaverFields /\ saver'[s].stage \in {"idle", "over"}
  BY DEF Crash, IdleSaver, SaverFields
<1> QED
  BY <1>1, <1>2, EmptySeq, CaptureAssumption DEF Crash, Shape, SaverStages

-----------------------------------------------------------------------------
(* Recorded once.  Calls and rounds of a chat only grow, so that no id is   *)
(* given twice; hence what is open and what is recorded never share one.    *)

(* The position of the chat is at or after the capture's; "at" is every     *)
(* chat's record, before or after a step.                                   *)
Reached(b, at) ==
    \/ b.id[2] < at[b.chat].call
    \/ b.id[2] = at[b.chat].call /\ b.id[3] <= at[b.chat].round

Proper(b, at) ==
    /\ b.id[1] = b.chat
    /\ b.label = "upload" <=> b.id[3] = 0
    /\ b.label # "upload" => at[b.chat].stage \in {"over", "failed"} \/ Reached(b, at)

(* Between its files and its first completion, a chat is in no round.       *)
Calling(c) == chat[c].stage \in {"none", "ready"} => chat[c].round = 0

OpenOnce ==
    /\ \A b \in open : b.final = FALSE /\ Proper(b, chat)
    /\ \A a, b \in open : a.id = b.id /\ a.label # "upload" => a = b

RecordedOnce ==
    /\ \A i \in DOMAIN items : Proper(items[i], chat)
    /\ \A i, j \in DOMAIN items : items[i].id = items[j].id /\ items[i].label # "upload" => i = j
    /\ \A i \in DOMAIN items, b \in open : items[i].id = b.id => b.label = "upload"

OnceInv == Shape /\ (\A c \in Chats : Calling(c)) /\ OpenOnce /\ RecordedOnce

LEMMA OnceInit == Init => OnceInv
BY ShapeInit DEF Init, OnceInv, Calling, OpenOnce, RecordedOnce, NoChat

(* Nothing recorded or open, and every chat stays where it was, or is over.  *)
LEMMA OnceKept ==
  ASSUME OnceInv, Shape', UNCHANGED <<items, open>>,
         \A c \in Chats : \/ chat'[c].stage \in {"over", "failed"}
                          \/ /\ chat'[c].call = chat[c].call /\ chat'[c].round = chat[c].round
                             /\ chat[c].stage \in {"over", "failed"} => chat'[c].stage \in {"over", "failed"}
                             /\ chat'[c].stage \in {"none", "ready"} => chat[c].stage \in {"none", "ready"}
  PROVE  OnceInv'
<1>1. \A c \in Chats : Calling(c)'
  BY DEF OnceInv, Calling
<1>2. \A b \in Capture : Proper(b, chat) => Proper(b, chat')
  BY DEF Proper, Reached, Capture
<1>3. \A i \in DOMAIN items : items[i] \in Capture
  BY ElementOfSeq, LenProperties DEF OnceInv, Shape
<1>4. OpenOnce' /\ RecordedOnce'
  BY <1>2, <1>3 DEF OnceInv, OpenOnce, RecordedOnce, Shape
<1> QED BY <1>1, <1>4 DEF OnceInv

(* An id that is given now was not given before.                            *)
LEMMA OnceResponds ==
  ASSUME OnceInv, Shape', NEW c \in Chats, NEW label \in {"upload", "completion", "continue"},
         NEW session \in Seq(Chats), NEW call \in Nat, NEW round \in Nat,
         Respond(c, label, session, call, round),
         chat[c].stage \notin {"over", "failed"},
         label = "upload" <=> round = 0,
         \/ label = "upload" /\ call = chat[c].call /\ chat[c].round = 0
         \/ call > chat[c].call
         \/ call = chat[c].call /\ round > chat[c].round
  PROVE  OnceInv'
<1>0. items' = items
      /\ chat' = [chat EXCEPT ![c] = [stage |-> "reading", session |-> session,
                                      call |-> call, round |-> round]]
  BY DEF Respond
<1>1. PICK new \in Capture :
        /\ new.id[1] = new.chat /\ new.id[2] = call /\ new.id[3] = round /\ new.chat = c
        /\ new.label = label /\ new.final = FALSE /\ open' = open \cup {new}
  <2> DEFINE fresh == [id |-> <<c, call, round>>, chat |-> c, label |-> label,
                       session |-> IF label = "upload" THEN NoSession ELSE session,
                       created |-> clock', body |-> 0, final |-> FALSE]
  <2>1. open' = open \cup {fresh}
    BY DEF Respond
  <2>2. fresh \in Capture
    BY <2>1 DEF Shape
  <2>3. /\ fresh.id[1] = fresh.chat /\ fresh.id[2] = call /\ fresh.id[3] = round
        /\ fresh.chat = c /\ fresh.label = label /\ fresh.final = FALSE
    OBVIOUS
  <2> HIDE DEF fresh
  <2> QED BY <2>1, <2>2, <2>3
<1>2. /\ chat'[c].call = call /\ chat'[c].round = round /\ chat'[c].session = session
      /\ chat'[c].stage = "reading"
      /\ \A d \in Chats \ {c} : chat'[d] = chat[d]
  BY <1>0 DEF OnceInv, Shape
<1>3. \A d \in Chats : Calling(d)'
  BY <1>2 DEF OnceInv, Calling
<1>4. \A b \in Capture : Proper(b, chat) =>
        Proper(b, chat') /\ (b.label # "upload" \/ label # "upload" => b.id # new.id)
  <2> SUFFICES ASSUME NEW b \in Capture, Proper(b, chat)
               PROVE  Proper(b, chat') /\ (b.label # "upload" \/ label # "upload" => b.id # new.id)
    OBVIOUS
  <2>1. /\ b.id[2] \in Nat /\ b.id[3] \in Nat /\ b.chat \in Chats
        /\ chat[c].call \in Nat /\ chat[c].round \in Nat
    BY DEF Capture, OnceInv, Shape
  <2>2. CASE b.chat # c
    BY <1>1, <1>2, <2>1, <2>2 DEF Proper, Reached
  <2>3. CASE b.chat = c
    <3>1. CASE b.label = "upload"
      <4>1. b.id[3] = 0 /\ (label # "upload" => round # 0)
        BY <3>1 DEF Proper
      <4>2. label # "upload" => b.id # new.id
        BY <1>1, <4>1
      <4>3. Proper(b, chat')
        BY <3>1 DEF Proper
      <4> QED BY <3>1, <4>2, <4>3
    <3>2. CASE b.label # "upload"
      <4>1. b.id[3] # 0 /\ Reached(b, chat)
        BY <2>3, <3>2 DEF Proper
      <4>3. b.id[2] < call \/ (b.id[2] = call /\ b.id[3] < round)
        BY <2>1, <2>3, <4>1 DEF Reached
      <4>4. b.id # new.id
        BY <1>1, <2>1, <4>3
      <4>5. Reached(b, chat')
        BY <1>2, <2>1, <2>3, <4>3 DEF Reached
      <4>6. Proper(b, chat')
        BY <3>2, <4>5 DEF Proper
      <4> QED BY <4>4, <4>6
    <3> QED BY <3>1, <3>2
  <2> QED BY <2>2, <2>3
<1>5. Proper(new, chat')
  <2>1. Reached(new, chat')
    BY <1>1, <1>2 DEF Reached
  <2> QED BY <1>1, <2>1 DEF Proper
<1>6. OpenOnce'
  <2>1. open \subseteq Capture /\ \A b \in open : b.final = FALSE /\ Proper(b, chat)
    BY DEF OnceInv, Shape, OpenOnce
  <2>2. \A b \in open' : b.final = FALSE /\ Proper(b, chat')
    BY <1>1, <1>4, <1>5, <2>1
  <2>3. \A a, b \in open' : a.id = b.id /\ a.label # "upload" => a = b
    BY <1>1, <1>4, <2>1 DEF OnceInv, OpenOnce
  <2> QED BY <2>2, <2>3 DEF OpenOnce
<1>7. \A i \in DOMAIN items : items[i] \in Capture
  BY ElementOfSeq, LenProperties DEF OnceInv, Shape
<1>8. RecordedOnce'
  <2>0. \A i \in DOMAIN items : items[i] \in Capture /\ Proper(items[i], chat)
    BY <1>7 DEF OnceInv, RecordedOnce
  <2>1. \A i \in DOMAIN items : Proper(items[i], chat')
    BY <1>4, <2>0
  <2>2. \A i \in DOMAIN items, b \in open' : items[i].id = b.id => b.label = "upload"
    BY <1>1, <1>4, <2>0 DEF OnceInv, RecordedOnce
  <2>3. (\A i \in DOMAIN items : Proper(items[i], chat))'
    BY <1>0, <2>1
  <2> QED BY <1>0, <2>2, <2>3 DEF OnceInv, RecordedOnce
<1> QED BY <1>3, <1>6, <1>8 DEF OnceInv

(* A body that is closed goes from what is open to what is recorded.        *)
LEMMA OnceCloses ==
  ASSUME OnceInv, NEW b \in open, NEW parts \in {0, MaxBody + 1}, NEW toTheEnd \in BOOLEAN,
         CloseBody(b, parts, toTheEnd)
  PROVE  OnceInv'
<1>0. b.final = FALSE /\ Proper(b, chat) /\ b \in Capture /\ Shape
  BY DEF OnceInv, OpenOnce, Shape
<1>1. PICK e \in Capture : e = [b EXCEPT !.body = e.body] /\ items' = Pushed(items, e)
  BY <1>0, ClosedOnce
<1>2. e.id = b.id /\ e.chat = b.chat /\ e.label = b.label
  BY <1>0, <1>1 DEF Capture
<1>3. Shape'
  BY <1>0, CloseShape
<1>4. open' = open \ {b}
  BY DEF CloseBody
<1>5. \A c \in Chats : /\ chat'[c].call = chat[c].call /\ chat'[c].round = chat[c].round
                       /\ chat'[c].session = chat[c].session
                       /\ \/ chat'[c].stage = chat[c].stage
                          \/ /\ chat[c].stage = "reading"
                             /\ chat'[c].stage \in {"ready", "between", "ending"}
                             /\ chat'[c].stage = "ready" =>
                                  b.label = "upload" /\ b.id = <<c, chat[c].call, chat[c].round>>
  BY <1>0 DEF CloseBody, Current, Shape
<1>6. \A c \in Chats : Calling(c)'
  <2> SUFFICES ASSUME NEW c \in Chats PROVE Calling(c)'
    OBVIOUS
  <2>1. chat[c].call \in Nat
    BY <1>0 DEF Shape
  <2>2. CASE chat'[c].stage = chat[c].stage
    BY <1>5, <2>2 DEF OnceInv, Calling
  <2>3. CASE chat'[c].stage # chat[c].stage
    BY <1>0, <1>5, <2>1, <2>3 DEF OnceInv, Calling, Proper
  <2> QED BY <2>2, <2>3
<1>7. \A x \in Capture : Proper(x, chat) => Proper(x, chat')
  BY <1>5 DEF Proper, Reached, Capture
<1>8. OpenOnce'
  BY <1>0, <1>4, <1>7 DEF OnceInv, OpenOnce, Shape
<1>9. /\ DOMAIN items = 1 .. Len(items) /\ DOMAIN items' = 1 .. Len(items')
      /\ Len(items) \in Nat /\ Len(items') \in 1 .. Len(items) + 1
      /\ items'[1] = e /\ \A i \in 2 .. Len(items') : items'[i] = items[i - 1]
  <2>1. items \in Seq(Capture) /\ Len(items) <= Limit
    BY <1>0 DEF Shape
  <2>2. items' = Pushed(items, e)
    BY <1>1
  <2>3. /\ Pushed(items, e) \in Seq(Capture)
        /\ Len(Pushed(items, e)) \in 1 .. Len(items) + 1
        /\ Pushed(items, e)[1] = e
        /\ \A i \in 2 .. Len(Pushed(items, e)) : Pushed(items, e)[i] = items[i - 1]
    BY <2>1, PushedProperties
  <2> QED BY <2>1, <2>2, <2>3, LenProperties
<1>10. \A i \in DOMAIN items' : \/ i = 1 /\ items'[i] = e
                                \/ i # 1 /\ i - 1 \in DOMAIN items /\ items'[i] = items[i - 1]
  <2> SUFFICES ASSUME NEW i \in 1 .. Len(items'), i # 1
               PROVE  i - 1 \in 1 .. Len(items) /\ items'[i] = items[i - 1]
    BY <1>9
  <2> QED BY <1>9
<1>11. \A i \in DOMAIN items : items[i] \in Capture /\ Proper(items[i], chat)
                               /\ (items[i].id = b.id => b.label = "upload" /\ items[i].label = "upload")
  BY <1>0, ElementOfSeq, <1>9 DEF Shape, OnceInv, RecordedOnce, Proper
<1>12. Proper(e, chat')
  BY <1>0, <1>2, <1>5 DEF Proper, Reached, Capture
<1>13. RecordedOnce'
  <2>1. \A i \in DOMAIN items' : Proper(items'[i], chat')
    <3> SUFFICES ASSUME NEW i \in DOMAIN items' PROVE Proper(items'[i], chat')
      OBVIOUS
    <3>1. CASE items'[i] = e
      BY <1>12, <3>1
    <3>2. CASE i - 1 \in DOMAIN items /\ items'[i] = items[i - 1]
      BY <1>7, <1>11, <3>2
    <3> QED BY <1>10, <3>1, <3>2
  <2>2. \A i, j \in DOMAIN items' :
          items'[i].id = items'[j].id /\ items'[i].label # "upload" => i = j
    <3> SUFFICES ASSUME NEW i \in DOMAIN items', NEW j \in DOMAIN items',
                        items'[i].id = items'[j].id, items'[i].label # "upload"
                 PROVE  i = j
      OBVIOUS
    <3>1. CASE i = 1 \/ j = 1
      BY <1>2, <1>10, <1>11, <3>1
    <3>2. CASE i # 1 /\ j # 1
      <4>1. i - 1 = j - 1
        BY <1>10, <3>2 DEF OnceInv, RecordedOnce
      <4> QED BY <1>9, <4>1
    <3> QED BY <3>1, <3>2
  <2>3. \A i \in DOMAIN items', x \in open' : items'[i].id = x.id => x.label = "upload"
    <3> SUFFICES ASSUME NEW i \in DOMAIN items', NEW x \in open', items'[i].id = x.id
                 PROVE  x.label = "upload"
      OBVIOUS
    <3>1. CASE i = 1
      BY <1>2, <1>4, <1>10, <3>1 DEF OnceInv, OpenOnce
    <3>2. CASE i # 1
      BY <1>4, <1>10, <3>2 DEF OnceInv, RecordedOnce
    <3> QED BY <3>1, <3>2
  <2> QED BY <2>1, <2>2, <2>3 DEF RecordedOnce
<1> QED BY <1>3, <1>6, <1>8, <1>13 DEF OnceInv

(* A request of a sample records nothing; a crash ends every chat.          *)
LEMMA OnceStep ==
  ASSUME OnceInv, [Next]_vars
  PROVE  OnceInv'
<1>0. Shape
  BY DEF OnceInv
<1>1. ASSUME NEW c \in Chats, UploadFile(c) PROVE OnceInv'
  <2>1. /\ chat[c] \in [stage : ChatStages, session : Seq(Chats), call : Nat, round : Nat]
        /\ Shape'
    BY <1>0, <1>1, ChatShape DEF Shape
  <2>2. CASE chat[c].stage \in {"none", "ready"} /\ Respond(c, "upload", chat[c].session, chat[c].call, 0)
    <3>1. chat[c].round = 0 /\ chat[c].stage \notin {"over", "failed"}
      BY <2>2 DEF OnceInv, Calling
    <3> QED BY <2>1, <2>2, <3>1, OnceResponds
  <2>3. CASE /\ chat[c].stage \in {"reading", "between", "ending"}
             /\ Respond(c, "upload", Append(chat[c].session, c), chat[c].call + 1, 0)
    <3>1. Append(chat[c].session, c) \in Seq(Chats)
      BY <2>1, AppendProperties
    <3>2. chat[c].call + 1 \in Nat /\ chat[c].call + 1 > chat[c].call
      BY <2>1
    <3>3. chat[c].stage \notin {"over", "failed"}
      BY <2>3
    <3> QED BY <2>1, <2>3, <3>1, <3>2, <3>3, OnceResponds
  <2> QED BY <1>1, <2>2, <2>3 DEF UploadFile
<1>2. ASSUME NEW c \in Chats, CallCompletion(c) PROVE OnceInv'
  <2>1. chat[c] \in [stage : ChatStages, session : Seq(Chats), call : Nat, round : Nat]
    BY <1>0 DEF Shape
  <2>2. chat[c].session \in Seq(Chats) /\ Append(chat[c].session, c) \in Seq(Chats)
    BY <2>1, AppendProperties
  <2>3. PICK session \in Seq(Chats) : Respond(c, "completion", session, chat[c].call + 1, 1)
    BY <1>2, <2>2 DEF CallCompletion
  <2>4. chat[c].call + 1 \in Nat /\ chat[c].call + 1 > chat[c].call
    BY <2>1
  <2>5. Shape' /\ chat[c].stage \notin {"over", "failed"}
    BY <1>0, <1>2, ChatShape DEF CallCompletion
  <2> QED BY <2>3, <2>4, <2>5, OnceResponds
<1>3. ASSUME NEW c \in Chats, CallContinue(c) PROVE OnceInv'
  <2>1. chat[c] \in [stage : ChatStages, session : Seq(Chats), call : Nat, round : Nat]
    BY <1>0 DEF Shape
  <2>2. chat[c].stage \notin {"over", "failed"}
    BY <1>3 DEF CallContinue
  <2>3. Respond(c, "continue", chat[c].session, chat[c].call, chat[c].round + 1) /\ Shape'
    BY <1>0, <1>3, ChatShape DEF CallContinue
  <2>4. chat[c].round + 1 \in Nat /\ chat[c].round + 1 > chat[c].round /\ chat[c].round + 1 # 0
    BY <2>1
  <2> QED BY <2>1, <2>2, <2>3, <2>4, OnceResponds
<1>4. ASSUME NEW c \in Chats, Answer(c) PROVE OnceInv'
  <2> DEFINE new == [NoChat EXCEPT !.stage = IF chat[c].stage = "ready" /\ chat[c].session = NoSession
                                    THEN "failed" ELSE "over"]
  <2>a. new.stage \in {"over", "failed"} /\ chat' = [chat EXCEPT ![c] = new] /\ DOMAIN chat = Chats
    BY <1>0, <1>4 DEF Answer, Shape, NoChat
  <2> HIDE DEF new
  <2>1. \A d \in Chats : \/ chat'[d].stage \in {"over", "failed"}
                          \/ chat'[d] = chat[d]
    BY <2>a
  <2>2. Shape' /\ UNCHANGED <<items, open>>
    BY <1>0, <1>4, ChatShape DEF Answer
  <2> QED BY <2>1, <2>2, OnceKept
<1>5. ASSUME NEW b \in open, NEW parts \in {0, MaxBody + 1}, NEW toTheEnd \in BOOLEAN,
             CloseBody(b, parts, toTheEnd)
      PROVE  OnceInv'
  BY <1>5, OnceCloses
<1>6. ASSUME ClearCaptures PROVE OnceInv'
  <2>1. Shape'
    BY <1>0, <1>6, EmptySeq, CaptureAssumption DEF ClearCaptures, Shape, budget
  <2> QED BY <1>6, <2>1 DEF ClearCaptures, OnceInv, Calling, OpenOnce, RecordedOnce, Proper, Reached
<1>7. ASSUME NEW s \in Savers, SaverStep(s) PROVE OnceInv'
  <2>1. Shape' /\ UNCHANGED <<items, open, chat>>
    BY <1>0, <1>7, SaverStepShape, SaverStepCases
  <2> QED BY <2>1, OnceKept
<1>8. ASSUME NEW s \in Savers, NEW c \in Chats, CaptureRawSample(s, c) PROVE OnceInv'
  <2>1. Shape' /\ UNCHANGED <<items, open>>
    BY <1>0, <1>8, CaptureShape DEF CaptureRawSample
  <2>2. chat[c].stage = "none" /\ chat' = [chat EXCEPT ![c].stage = "ready"]
    BY <1>8 DEF CaptureRawSample
  <2>3. ASSUME NEW d \in Chats
        PROVE  /\ chat'[d].call = chat[d].call /\ chat'[d].round = chat[d].round
               /\ \/ chat'[d].stage = chat[d].stage
                  \/ d = c /\ chat'[d].stage = "ready"
    <3> DEFINE new == [chat[c] EXCEPT !.stage = "ready"]
    <3>1. chat[c] \in [stage : ChatStages, session : Seq(Chats), call : Nat, round : Nat] /\ DOMAIN chat = Chats
      BY <1>0 DEF Shape
    <3>2. chat'[d] = IF d = c THEN new ELSE chat[d]
      BY <2>2, <3>1
    <3>3. /\ new.call = chat[c].call /\ new.round = chat[c].round
          /\ new.stage = "ready"
      BY <3>1
    <3> HIDE DEF new
    <3> QED BY <3>2, <3>3
  <2>4. \A d \in Chats : \/ chat'[d].stage \in {"over", "failed"}
                          \/ /\ chat'[d].call = chat[d].call /\ chat'[d].round = chat[d].round
                             /\ chat[d].stage \in {"over", "failed"} => chat'[d].stage \in {"over", "failed"}
                             /\ chat'[d].stage \in {"none", "ready"} => chat[d].stage \in {"none", "ready"}
    BY <2>2, <2>3
  <2> QED BY <2>1, <2>4, OnceKept
<1>9. ASSUME Crash PROVE OnceInv'
  <2>1. Shape'
    BY <1>0, <1>9, CrashShape
  <2>2. items' = <<>> /\ open' = {}
    BY <1>9 DEF Crash
  <2>3. \A c \in Chats : chat'[c].round = 0
    BY <1>9 DEF Crash, NoChat
  <2> QED BY <2>1, <2>2, <2>3 DEF OnceInv, Calling, OpenOnce, RecordedOnce
<1>10. ASSUME UNCHANGED vars PROVE OnceInv'
  <2>1. UNCHANGED <<items, open, chat, saver, clock, started>>
    BY <1>10 DEF vars, memVars, budget
  <2> QED BY <2>1 DEF OnceInv, Shape, Calling, OpenOnce, RecordedOnce
<1>11. ASSUME Next PROVE OnceInv'
  <2>1. CASE \E s \in Savers : SaverStep(s)
    BY <1>7, <2>1
  <2>2. CASE \E c \in Chats : UploadFile(c) \/ CallCompletion(c) \/ CallContinue(c) \/ Answer(c)
    BY <1>1, <1>2, <1>3, <1>4, <2>2
  <2>3. CASE \E b \in open, parts \in {0, MaxBody + 1}, toTheEnd \in BOOLEAN : CloseBody(b, parts, toTheEnd)
    BY <1>5, <2>3
  <2>4. CASE \E s \in Savers, c \in Chats : CaptureRawSample(s, c)
    BY <1>8, <2>4
  <2> QED BY <1>6, <1>9, <1>11, <2>1, <2>2, <2>3, <2>4, NextCases
<1> QED BY <1>10, <1>11


LEMMA OnceImplies == OnceInv => CapturedOnce
<1> SUFFICES ASSUME OnceInv PROVE CapturedOnce
  OBVIOUS
<1>0. Shape
  BY DEF OnceInv
<1>1. \A i \in DOMAIN items : items[i].body \in 0 .. MaxBody
  <2>1. \A i \in DOMAIN items : items[i] \in Capture
    BY <1>0, ElementOfSeq, LenProperties DEF Shape
  <2> QED BY <2>1 DEF Capture
<1>2. \A c \in Chats : chat[c].stage \in ChatStages
  BY <1>0 DEF Shape
<1>3. TypeOK
  BY <1>0, <1>1, <1>2 DEF Shape, TypeOK, ChatStages, SaverStages
<1> QED BY <1>3 DEF OnceInv, RecordedOnce, CapturedOnce

(* Whatever is sent, read, closed, retried, cleared or saved, in any order  *)
(* and with a crash between, no body is on the list twice: the pump's end   *)
(* of a body and its close (devcapture/store.go) record it once.            *)
THEOREM EachBodyOnce == Spec => []CapturedOnce
<1>1. OnceInv /\ [Next]_vars => OnceInv'
  BY OnceStep
<1> QED BY OnceInit, <1>1, OnceImplies, PTL DEF Spec

-----------------------------------------------------------------------------
(* Samples.  What a request has written of its sample follows from its      *)
(* stage, and only a request that wrote both files renames.                 *)

Written(s) ==
    /\ DOMAIN saver[s].sample = {"name", "files"}
    /\ saver[s].stage = "upstream" => saver[s].sample.files = {"upstream.stream.sse"}
    /\ saver[s].stage = "meta" => saver[s].sample.files = {"upstream.stream.sse", "meta.json"}

WholeInv == OnceInv /\ (\A s \in Savers : Written(s)) /\ SamplesAreWhole

(* A step of a request keeps what its stage says, and the others' too.      *)
LEMMA WrittenStep ==
  ASSUME WholeInv, NEW s \in Savers, SaverStep(s)
  PROVE  \A q \in Savers : Written(q)'
<1>0. Shape /\ \A q \in Savers : Written(q)
  BY DEF WholeInv, OnceInv
<1>1. ASSUME NEW stage \in SaverStages, NEW sample, GoOn(s, stage, sample),
             DOMAIN sample = {"name", "files"},
             stage = "upstream" => sample.files = {"upstream.stream.sse"},
             stage = "meta" => sample.files = {"upstream.stream.sse", "meta.json"}
      PROVE  \A q \in Savers : Written(q)'
  <2>1. saver'[s].stage = stage /\ \A q \in Savers \ {s} : saver'[q] = saver[q]
    BY <1>0, <1>1, SaverShape
  <2>2. saver'[s] = [IdleSaver EXCEPT !.stage = stage, !.sample = sample]
    BY <1>0, <1>1, SaverShape
  <2>3. saver'[s].sample = sample
    BY <2>2 DEF IdleSaver
  <2> QED BY <1>0, <1>1, <2>1, <2>3 DEF Written
<1>2. ASSUME NEW by, NEW c, NEW base, NEW entries, Chosen(s, by, c, base, entries)
      PROVE  \A q \in Savers : Written(q)'
  <2>1. /\ DOMAIN saver'[s].sample = DOMAIN saver[s].sample
        /\ \A q \in Savers \ {s} : saver'[q] = saver[q]
        /\ saver'[s].stage = "name"
    BY <1>0, <1>2, SaverShape
  <2> QED BY <1>0, <2>1 DEF Written
<1>3. SaverReplies(s) => \A q \in Savers : Written(q)'
  BY <1>1 DEF SaverReplies, NoSample, SaverStages
<1>4. CASE WriteUpstream(s)
  <2>1. PICK name : GoOn(s, "upstream", [name |-> name, files |-> {"upstream.stream.sse"}])
    BY <1>4 DEF WriteUpstream, WriteFile
  <2> QED BY <1>1, <2>1 DEF SaverStages
<1>5. CASE WriteMeta(s)
  <2> DEFINE new == [saver[s].sample EXCEPT !.files = @ \cup {"meta.json"}]
  <2>1. GoOn(s, "meta", new)
    BY <1>5 DEF WriteMeta, WriteFile
  <2>2. DOMAIN new = {"name", "files"} /\ new.files = {"upstream.stream.sse", "meta.json"}
    <3>1. DOMAIN saver[s].sample = {"name", "files"} /\ saver[s].sample.files = {"upstream.stream.sse"}
      BY <1>0, <1>5 DEF Written, WriteMeta
    <3>2. DOMAIN new = {"name", "files"} /\ new.files = saver[s].sample.files \cup {"meta.json"}
      BY <3>1
    <3> HIDE DEF new
    <3> QED BY <3>1, <3>2
  <2> HIDE DEF new
  <2> QED BY <1>1, <2>1, <2>2 DEF SaverStages
<1>6. CASE \E base \in Names, status \in {"ok", "error"} : CaptureEnds(s, base, status)
  <2>1. SaverReplies(s) \/ \E by, c, base, entries : Chosen(s, by, c, base, entries)
    BY <1>6 DEF CaptureEnds
  <2> QED BY <1>2, <1>3, <2>1
<1>7. CASE \E base \in Names : SaveRawSampleFromCaptures(s, base)
  <2>1. SaverReplies(s) \/ \E by, c, base, entries : Chosen(s, by, c, base, entries)
    BY <1>7 DEF SaveRawSampleFromCaptures
  <2> QED BY <1>2, <1>3, <2>1
<1> QED
  BY <1>3, <1>4, <1>5, <1>6, <1>7 DEF SaverStep, RefuseRawSample, PersistFails, Promote

(* Only the last step of a sample adds a directory, and it changes no other. *)
LEMMA SamplesStep ==
  ASSUME NEW s \in Savers, SaverStep(s)
  PROVE  \/ UNCHANGED samples
         \/ saver[s].stage = "meta" /\ Rename(s)
<1> USE DEF SaverStep
<1>1. CASE \E base \in Names, status \in {"ok", "error"} : CaptureEnds(s, base, status)
  BY <1>1 DEF CaptureEnds
<1>2. CASE \E base \in Names : SaveRawSampleFromCaptures(s, base)
  BY <1>2 DEF SaveRawSampleFromCaptures
<1>3. CASE RefuseRawSample(s) \/ PersistFails(s)
  BY <1>3 DEF RefuseRawSample, PersistFails
<1>4. CASE WriteUpstream(s) \/ WriteMeta(s)
  BY <1>4 DEF WriteUpstream, WriteMeta, WriteFile
<1>5. CASE Promote(s)
  BY <1>5 DEF Promote
<1> QED BY <1>1, <1>2, <1>3, <1>4, <1>5

LEMMA OthersKeepSamples ==
  Next => \/ UNCHANGED samples
          \/ \E s \in Savers : saver[s].stage = "meta" /\ Rename(s)
<1> SUFFICES ASSUME Next PROVE \/ UNCHANGED samples
                              \/ \E s \in Savers : saver[s].stage = "meta" /\ Rename(s)
  OBVIOUS
<1>1. CASE \E c \in Chats : UploadFile(c) \/ CallCompletion(c) \/ CallContinue(c) \/ Answer(c)
  BY <1>1 DEF UploadFile, CallCompletion, CallContinue, Answer, Respond
<1>2. CASE \E b \in open, parts \in {0, MaxBody + 1}, toTheEnd \in BOOLEAN : CloseBody(b, parts, toTheEnd)
  BY <1>2 DEF CloseBody
<1>3. CASE ClearCaptures \/ Crash
  BY <1>3 DEF ClearCaptures, Crash
<1>4. CASE \E s \in Savers : SaverStep(s)
  BY <1>4, SamplesStep
<1>5. CASE \E s \in Savers, c \in Chats : CaptureRawSample(s, c)
  BY <1>5 DEF CaptureRawSample
<1> QED BY <1>1, <1>2, <1>3, <1>4, <1>5, NextCases

LEMMA WholeStep ==
  ASSUME WholeInv, [Next]_vars
  PROVE  WholeInv'
<1>0. Shape /\ (\A q \in Savers : Written(q)) /\ SamplesAreWhole
  BY DEF WholeInv, OnceInv
<1>1. (\A q \in Savers : saver'[q] = saver[q]) => \A q \in Savers : Written(q)'
  BY <1>0 DEF Written
<1>2. OnceInv'
  BY OnceStep DEF WholeInv
<1>3. \A q \in Savers : Written(q)'
  <2>1. CASE Next
    <3>1. CASE \E c \in Chats : UploadFile(c) \/ CallCompletion(c) \/ CallContinue(c) \/ Answer(c)
      BY <1>1, <3>1 DEF UploadFile, CallCompletion, CallContinue, Answer, Respond
    <3>2. CASE \E b \in open, parts \in {0, MaxBody + 1}, toTheEnd \in BOOLEAN : CloseBody(b, parts, toTheEnd)
      BY <1>1, <3>2 DEF CloseBody
    <3>3. CASE ClearCaptures
      BY <1>1, <3>3 DEF ClearCaptures
    <3>4. CASE Crash
      <4>1. \A q \in Savers : saver'[q].sample = NoSample /\ saver'[q].stage \in {"idle", "over"}
        BY <3>4 DEF Crash, IdleSaver
      <4> QED BY <4>1 DEF Written, NoSample
    <3>5. ASSUME NEW s \in Savers, SaverStep(s) PROVE \A q \in Savers : Written(q)'
      BY <3>5, WrittenStep
    <3>6. ASSUME NEW s \in Savers, NEW c \in Chats, CaptureRawSample(s, c) PROVE \A q \in Savers : Written(q)'
      <4>1. /\ saver'[s].stage = "chatting" /\ saver'[s].sample = saver[s].sample
            /\ \A q \in Savers \ {s} : saver'[q] = saver[q]
        BY <1>0, <3>6, CaptureShape
      <4> QED BY <1>0, <4>1 DEF Written
    <3> QED BY <2>1, <3>1, <3>2, <3>3, <3>4, <3>5, <3>6, NextCases
  <2>2. CASE UNCHANGED vars
    BY <1>1, <2>2 DEF vars, memVars
  <2> QED BY <2>1, <2>2
<1>4. SamplesAreWhole'
  <2>1. CASE UNCHANGED samples
    BY <1>0, <2>1 DEF SamplesAreWhole
  <2>2. ASSUME NEW s \in Savers, saver[s].stage = "meta", Rename(s)
        PROVE  SamplesAreWhole'
    BY <1>0, <2>2 DEF SamplesAreWhole, Written, Rename, OnDisk, NamesOnDisk
  <2> QED BY <2>1, <2>2, OthersKeepSamples DEF vars
<1> QED BY <1>2, <1>3, <1>4 DEF WholeInv

(* Whichever write of a sample fails and wherever the process stops, a      *)
(* directory that has a sample's name has both files (rawsample.Persist     *)
(* renames the temporary directory only when it is complete).               *)
THEOREM EverySampleIsWhole == Spec => []SamplesAreWhole
<1>1. Init => WholeInv
  <2> SUFFICES ASSUME Init PROVE WholeInv
    OBVIOUS
  <2>1. \A q \in Savers : saver[q].sample = NoSample /\ saver[q].stage = "idle"
    BY DEF Init, IdleSaver
  <2>2. SamplesAreWhole
    BY DEF Init, SamplesAreWhole
  <2>3. \A q \in Savers : Written(q)
    BY <2>1 DEF Written, NoSample
  <2> QED BY <2>2, <2>3, OnceInit DEF WholeInv
<1>2. WholeInv /\ [Next]_vars => WholeInv'
  BY WholeStep
<1>3. WholeInv => SamplesAreWhole
  BY DEF WholeInv
<1> QED BY <1>1, <1>2, <1>3, PTL DEF Spec

(* No step of anyone replaces or removes a sample: the rename refuses a     *)
(* name that another request took since this one looked for a free one.     *)
THEOREM SamplesAreNeverReplaced == Spec => SamplesStay
<1>1. [Next]_vars => [\A n \in DOMAIN samples : n \in DOMAIN samples' /\ samples'[n] = samples[n]]_vars
  <2> SUFFICES ASSUME Next
               PROVE  \A n \in DOMAIN samples : n \in DOMAIN samples' /\ samples'[n] = samples[n]
    OBVIOUS
  <2>1. CASE UNCHANGED samples
    BY <2>1
  <2>2. ASSUME NEW s \in Savers, Rename(s)
        PROVE  \A n \in DOMAIN samples : n \in DOMAIN samples' /\ samples'[n] = samples[n]
    BY <2>2 DEF Rename, NamesOnDisk
  <2> QED BY <2>1, <2>2, OthersKeepSamples
<1> QED BY <1>1, PTL DEF Spec, SamplesStay

=============================================================================
