---------------------------- MODULE CompletionProofs ----------------------------
(***************************************************************************)
(* Proofs about Completion, for any accounts, answers, context files and   *)
(* limits: a request has one outcome after a bounded number of calls, only *)
(* empty answers are asked for again, and what a call sends belongs        *)
(* together.                                                               *)
(***************************************************************************)
EXTENDS Completion, SequenceTheorems, FiniteSetTheorems, TLAPS

Clients == Accounts \cup {Direct}
Programs == {"start", "retry", "switch"}
WorkStages == {"session", "pow", "call"}
                \cup (IF InputFiles = <<>> THEN {} ELSE {"uploadpow", "upload", "poll"})
Caller == [account : Clients, tried : SUBSET Accounts, cancelled : BOOLEAN]
Operation == [attempts : Nat, refreshed : BOOLEAN, clients : Clients]
Ref == [name : STRING \cup {"client"}, by : Programs \cup {"client"}]
Start == [session : Nat, pow : Clients, refs : SUBSET Ref]
CallRecord == [program : Programs, account : Clients, session : Nat, refs : SUBSET Ref,
               parent : Nat, suffix : BOOLEAN]
Upload == [left : Seq(STRING), attempts : Nat, refreshed : BOOLEAN, clients : Clients,
           polls : Nat]
Output == [text : BOOLEAN, thinking : BOOLEAN, tools : BOOLEAN]
Outcomes == {"ok", "429", "500", "tool_choice", "content_filter", "upstream_empty_output",
             "upstream_unavailable", "cancelled", "failed", "unauthorized", "upload_failed"}

Types ==
    /\ caller \in Caller /\ program \in Programs
    /\ op \in Operation /\ op.attempts <= MaxAttempts
    /\ sessions \in Seq(Clients)
    /\ draft \in Start /\ draft.session <= Len(sessions)
    /\ upload \in Upload /\ (InputFiles # <<>> => upload.left # <<>>)
    /\ payload \in Start
    /\ answer \in Answers /\ seen \in Output
    /\ attempts \in 0 .. RetryMax /\ switched \in BOOLEAN
    /\ request \in [stream : BOOLEAN, required : BOOLEAN]
    /\ calls \in Seq(CallRecord) /\ outcomes \in Seq(Outcomes)

(* The request is on its way to a call, as planned, ...                    *)
Working == plan \in Seq(WorkStages) /\ plan # <<>> /\ plan[Len(plan)] = "call"

(* ... or has its answer, or was told of its outcome.                      *)
PlanInv ==
    \/ outcomes = <<>> /\ (Working \/ plan = <<"consume">>)
    \/ Len(outcomes) = 1 /\ plan \in {<<>>, <<"delete">>}

CallsOf(p) == Cardinality({i \in DOMAIN calls : calls[i].program = p})

(* The call a request is on its way to is still to be counted.             *)
CountInv ==
    /\ CallsOf("start") <= 1 /\ CallsOf("switch") <= 1 /\ CallsOf("retry") <= attempts
    /\ Working => CallsOf(program) <= IF program = "retry" THEN attempts - 1 ELSE 0
    /\ switched = FALSE => CallsOf("switch") = 0 /\ program # "switch"

OutcomeInv == Types /\ PlanInv /\ CountInv /\ RateLimitSwitchedFirst /\ RetriedBeforeGivingUp

-----------------------------------------------------------------------------
(* The plan.                                                               *)

LEMMA WorkTail ==
  ASSUME Working, Head(plan) # "call"
  PROVE  /\ Tail(plan) \in Seq(WorkStages) /\ Tail(plan) # <<>>
         /\ Tail(plan)[Len(Tail(plan))] = "call"
<1>1. /\ Len(plan) \in Nat /\ Len(plan) > 0 /\ plan[1] # "call"
      /\ Tail(plan) \in Seq(WorkStages) /\ Len(Tail(plan)) = Len(plan) - 1
      /\ \A i \in 1 .. Len(plan) - 1 : Tail(plan)[i] = plan[i + 1]
  BY LenProperties, EmptySeq, HeadTailProperties DEF Working
<1>2. Len(plan) > 1
  BY <1>1 DEF Working
<1>3. Tail(plan)[Len(plan) - 1] = "call"
  BY <1>1, <1>2 DEF Working
<1>4. Tail(plan) # <<>>
  BY <1>1, <1>2
<1>5. Tail(plan)[Len(Tail(plan))] = "call"
  BY <1>1, <1>3
<1> QED BY <1>1, <1>4, <1>5

LEMMA WorkPrepend ==
  ASSUME Working, Head(plan) = "upload"
  PROVE  LET longer == <<"uploadpow">> \o plan
         IN  longer \in Seq(WorkStages) /\ longer # <<>> /\ longer[Len(longer)] = "call"
<1> DEFINE first == <<"uploadpow">>
           longer == first \o plan
<1>1. plan \in Seq(WorkStages) /\ Len(plan) \in Nat /\ Len(plan) > 0
  BY LenProperties, EmptySeq DEF Working
<1>a. InputFiles # <<>>
  <2>1. plan[1] \in WorkStages /\ plan[1] = "upload"
    BY <1>1, ElementOfSeq, HeadTailProperties
  <2> QED BY <2>1 DEF WorkStages
<1>2. first \in Seq(WorkStages) /\ Len(first) = 1
  BY <1>a DEF WorkStages
<1> HIDE DEF first
<1>b. /\ longer \in Seq(WorkStages) /\ Len(longer) = Len(first) + Len(plan)
      /\ \A i \in 1 .. Len(first) + Len(plan) :
           longer[i] = IF i <= Len(first) THEN first[i] ELSE plan[i - Len(first)]
  BY <1>1, <1>2, ConcatProperties
<1> HIDE DEF longer
<1>3. /\ longer \in Seq(WorkStages) /\ Len(longer) = 1 + Len(plan)
      /\ \A i \in 1 .. Len(plan) : longer[1 + i] = plan[i]
  BY <1>1, <1>2, <1>b
<1>4. longer[Len(longer)] = "call"
  BY <1>1, <1>3 DEF Working
<1> HIDE DEF longer
<1>5. longer # <<>>
  BY <1>1, <1>3
<1> USE DEF longer, first
<1> QED BY <1>3, <1>4, <1>5

LEMMA UploadPlanType ==
  /\ InputFiles \in Seq(STRING) /\ Len(InputFiles) \in Nat
  /\ UploadPlan \in Seq(WorkStages) /\ Len(UploadPlan) = 3 * Len(InputFiles)
<1>1. Len(InputFiles) \in Nat
  BY LenProperties, CompletionAssumption
<1>2. ASSUME NEW i \in 1 .. 3 * Len(InputFiles)
      PROVE  <<"poll", "uploadpow", "upload">>[1 + (i % 3)] \in WorkStages
  <2>1. InputFiles # <<>>
    BY <1>1, <1>2
  <2> QED BY <1>1, <2>1 DEF WorkStages
<1>3. UploadPlan \in [1 .. 3 * Len(InputFiles) -> WorkStages]
  BY <1>2 DEF UploadPlan
<1>4. 3 * Len(InputFiles) \in Nat
  BY <1>1
<1>5. InputFiles \in Seq(STRING)
  BY <1>1, CompletionAssumption, ElementOfSeq, SeqDef, LenProperties
<1> QED BY <1>1, <1>3, <1>4, <1>5, SeqDef, LenProperties

(* Every plan leads to one call.                                           *)
LEMMA PlansWork ==
  ASSUME NEW p \in Programs
  PROVE  /\ PlanOf(p) \in Seq(WorkStages) /\ PlanOf(p) # <<>>
         /\ PlanOf(p)[Len(PlanOf(p))] = "call"
<1>1. CASE p = "retry"
  <2>1. PlanOf(p) = <<"pow", "call">>
    BY <1>1 DEF PlanOf
  <2> QED BY <2>1 DEF WorkStages
<1>2. CASE p # "retry"
  <2>1. ASSUME NEW s \in Seq(WorkStages), NEW e \in Seq(WorkStages), Len(e) > 0, e[Len(e)] = "call"
        PROVE  s \o e \in Seq(WorkStages) /\ s \o e # <<>> /\ (s \o e)[Len(s \o e)] = "call"
    <3>1. Len(s) \in Nat /\ Len(e) \in Nat
      BY LenProperties
    <3>2. s \o e \in Seq(WorkStages) /\ Len(s \o e) = Len(s) + Len(e)
          /\ \A i \in 1 .. Len(e) : (s \o e)[Len(s) + i] = e[i]
      BY ConcatProperties
    <3>3. s \o e # <<>>
      BY <2>1, <3>1, <3>2, EmptySeq
    <3> QED BY <2>1, <3>1, <3>2, <3>3
  <2>2. /\ <<"session", "pow", "call">> \in Seq(WorkStages) /\ <<"call">> \in Seq(WorkStages)
        /\ <<"session", "pow">> \in Seq(WorkStages)
    BY DEF WorkStages
  <2>3. <<"session", "pow">> \o UploadPlan \in Seq(WorkStages)
    BY <2>2, UploadPlanType, ConcatProperties
  <2>4. \/ PlanOf(p) = UploadPlan \o <<"session", "pow", "call">>
        \/ PlanOf(p) = (<<"session", "pow">> \o UploadPlan) \o <<"call">>
    BY <1>2 DEF PlanOf, Programs, StreamSwitchPlan, CollectedSwitchPlan, ReuploadPlan
  <2>5. CASE PlanOf(p) = UploadPlan \o <<"session", "pow", "call">>
    BY <2>1, <2>2, <2>5, UploadPlanType
  <2>6. CASE PlanOf(p) = (<<"session", "pow">> \o UploadPlan) \o <<"call">>
    BY <2>1, <2>2, <2>3, <2>6
  <2> QED BY <2>4, <2>5, <2>6
<1> QED BY <1>1, <1>2

(* Whoever works on a stage has not answered the caller.                   *)
LEMMA AtWork ==
  ASSUME PlanInv, NEW stage, At(stage)
  PROVE  /\ stage \notin {"consume", "delete"} => outcomes = <<>> /\ Working
         /\ stage = "consume" => outcomes = <<>> /\ plan = <<"consume">> /\ ~Working
         /\ stage = "delete" => Len(outcomes) = 1 /\ plan = <<"delete">> /\ ~Working
<1>1. plan # <<>> /\ Head(plan) = stage
  BY DEF At
<1>2. CASE Working
  <2>1. stage \in WorkStages
    BY <1>1, <1>2, HeadTailProperties DEF Working
  <2>2. outcomes = <<>>
    <3>1. plan # <<"delete">>
      BY <1>1, <2>1 DEF WorkStages
    <3> QED BY <1>1, <3>1 DEF PlanInv
  <2> QED BY <1>2, <2>1, <2>2 DEF WorkStages
<1>3. CASE ~Working
  <2>1. CASE plan = <<"consume">>
    BY <1>1, <1>3, <2>1 DEF PlanInv, WorkStages
  <2>2. CASE plan = <<"delete">>
    BY <1>1, <1>3, <2>2 DEF PlanInv, WorkStages
  <2> QED BY <1>1, <1>3, <2>1, <2>2 DEF PlanInv
<1> QED BY <1>2, <1>3

-----------------------------------------------------------------------------
(* The ways a step may leave the request.                                  *)

(* It is still on its way, with the same start, and nobody was told.       *)
LEMMA StillWorking ==
  ASSUME OutcomeInv, Working, outcomes = <<>>, Types', Working',
         UNCHANGED <<program, attempts, switched, calls, outcomes>>
  PROVE  OutcomeInv'
<1>1. PlanInv' /\ CountInv'
  BY DEF OutcomeInv, PlanInv, CountInv, CallsOf
<1>2. RateLimitSwitchedFirst' /\ RetriedBeforeGivingUp'
  BY DEF RateLimitSwitchedFirst, BlamesTheAccount, RetriedBeforeGivingUp, Range, Stream, Managed
<1> QED BY <1>1, <1>2 DEF OutcomeInv

LEMMA OneOutcomeMore ==
  ASSUME outcomes = <<>>, NEW o \in Outcomes, outcomes' = Append(outcomes, o)
  PROVE  Len(outcomes') = 1 /\ Range(outcomes') = {o} /\ outcomes' \in Seq(Outcomes)
<1>1. outcomes' = <<o>>
  BY AppendProperties
<1> QED BY <1>1 DEF Range

(* The caller is told, and the call it was on its way to, if any, is not   *)
(* made any more.                                                          *)
LEMMA Told ==
  ASSUME OutcomeInv, outcomes = <<>>, Types', NEW o \in Outcomes, End(o),
         UNCHANGED <<program, attempts, calls, request>>, switched' = TRUE \/ switched' = switched,
         BlamesTheAccount(o) /\ Managed' => switched' = TRUE,
         o \in {"upstream_empty_output", "upstream_unavailable"} => attempts = RetryMax
  PROVE  OutcomeInv'
<1>1. /\ plan' = <<"delete">> /\ Len(outcomes') = 1 /\ Range(outcomes') = {o}
  BY OneOutcomeMore DEF End
<1>2. PlanInv' /\ ~Working'
  BY <1>1 DEF PlanInv, Working
<1>3. CountInv'
  BY <1>2 DEF OutcomeInv, CountInv, CallsOf
<1>4. RateLimitSwitchedFirst' /\ RetriedBeforeGivingUp'
  BY <1>1 DEF RateLimitSwitchedFirst, BlamesTheAccount, RetriedBeforeGivingUp, Stream, Managed
<1> QED BY <1>2, <1>3, <1>4 DEF OutcomeInv

(* A recovery is made of a request, on its account or on another one, and  *)
(* of an operation.                                                        *)
LEMMA SwitchOutcomesType ==
  ASSUME NEW c \in Caller, NEW d \in SwitchOutcomes(c)
  PROVE  d \in Caller
<1>1. c.account # Direct
  BY DEF SwitchOutcomes
<1>2. PICK tried \in SUBSET Accounts : tried = c.tried \cup {c.account}
  BY <1>1 DEF Caller, Clients
<1>3. PICK a \in Accounts : d = [c EXCEPT !.account = a, !.tried = tried]
  BY <1>1, <1>2 DEF SwitchOutcomes
<1> QED BY <1>3 DEF Caller, Clients

LEMMA RecoveriesType ==
  ASSUME NEW c \in Caller, NEW o \in Operation, NEW reply, NEW counts \in BOOLEAN,
         NEW r \in Recoveries(c, o, reply, counts)
  PROVE  r[1] \in Caller /\ r[2] \in Operation
<1>1. Counted(o) \in Operation
  BY DEF Counted, Operation
<1>2. [Counted(o) EXCEPT !.refreshed = FALSE] \in Operation
  BY <1>1 DEF Operation
<1>3. \A d \in SwitchOutcomes(c) : d \in Caller
  BY SwitchOutcomesType
<1>4. SwitchFailed(c) \in Caller
  BY DEF SwitchFailed, Caller, Clients
<1>5. [(IF counts THEN Counted(o) ELSE o) EXCEPT !.refreshed = TRUE] \in Operation
  BY <1>1 DEF Operation
<1>6. \/ r = <<c, Counted(o)>>
      \/ r = <<c, [(IF counts THEN Counted(o) ELSE o) EXCEPT !.refreshed = TRUE]>>
      \/ \E d \in SwitchOutcomes(c) : r = <<d, [Counted(o) EXCEPT !.refreshed = FALSE]>>
      \/ r = <<SwitchFailed(c), Counted(o)>>
  BY DEF Recoveries
<1>7. CASE r = <<c, Counted(o)>>
  BY <1>1, <1>7
<1>8. CASE r = <<c, [(IF counts THEN Counted(o) ELSE o) EXCEPT !.refreshed = TRUE]>>
  BY <1>5, <1>8
<1>9. ASSUME NEW d \in SwitchOutcomes(c), r = <<d, [Counted(o) EXCEPT !.refreshed = FALSE]>>
      PROVE  r[1] \in Caller /\ r[2] \in Operation
  BY <1>2, <1>3, <1>9
<1>10. CASE r = <<SwitchFailed(c), Counted(o)>>
  BY <1>1, <1>4, <1>10
<1> QED BY <1>6, <1>7, <1>8, <1>9, <1>10

LEMMA FreshType ==
  \A a \in Clients : FreshOp(a) \in Operation /\ FreshOp(a).attempts = 0
BY DEF FreshOp, Operation

LEMMA AttemptFailsStep ==
  ASSUME OutcomeInv, NEW stage \in {"session", "pow", "uploadpow"}, AttemptFails(stage)
  PROVE  OutcomeInv'
<1>0. Types /\ PlanInv /\ outcomes = <<>> /\ Working /\ MaxAttempts \in Nat \ {0}
  BY AtWork, CompletionAssumption DEF OutcomeInv, AttemptFails
<1>a. PICK reply \in Replies : \E r \in Recoveries(caller, op, reply, FALSE) :
        /\ caller' = r[1]
        /\ IF r[2].attempts < MaxAttempts
           THEN op' = r[2] /\ UNCHANGED <<plan, outcomes>>
           ELSE GiveUp(stage)
  BY DEF AttemptFails
<1>1. PICK r \in Recoveries(caller, op, reply, FALSE) :
        /\ caller' = r[1]
        /\ IF r[2].attempts < MaxAttempts
           THEN op' = r[2] /\ UNCHANGED <<plan, outcomes>>
           ELSE GiveUp(stage)
  BY <1>a
<1>2. r[1] \in Caller /\ r[2] \in Operation /\ r[2].attempts \in Nat
  BY <1>0, <1>1, RecoveriesType DEF Types, Operation
<1>3. caller' \in Caller /\ caller'.account \in Clients
  BY <1>1, <1>2 DEF Caller
<1>4. UNCHANGED <<program, upload, sessions, draft, payload, answer, seen, attempts, switched, request, calls>>
  BY DEF AttemptFails
<1>5. CASE r[2].attempts < MaxAttempts
  <2>1. op' \in Operation /\ op'.attempts <= MaxAttempts
    BY <1>0, <1>1, <1>2, <1>5
  <2>2. Types' /\ Working'
    BY <1>0, <1>1, <1>3, <1>4, <1>5, <2>1 DEF Types, Working
  <2> QED BY <1>0, <1>1, <1>4, <1>5, <2>2, StillWorking
<1>6. CASE ~(r[2].attempts < MaxAttempts) /\ stage = "pow" /\ program = "retry"
  <2>1. plan' = Tail(plan) /\ op' = FreshOp(caller'.account) /\ UNCHANGED outcomes
    BY <1>1, <1>6 DEF GiveUp
  <2>2. op' \in Operation /\ op'.attempts <= MaxAttempts
    BY <1>0, <1>3, <2>1, FreshType
  <2>3. Head(plan) # "call"
    BY DEF AttemptFails, At
  <2>4. Types' /\ Working'
    BY <1>0, <1>3, <1>4, <2>1, <2>2, <2>3, WorkTail DEF Types, Working
  <2> QED BY <1>0, <1>4, <2>1, <2>4, StillWorking
<1>7. CASE ~(r[2].attempts < MaxAttempts) /\ ~(stage = "pow" /\ program = "retry")
  <2>1. PICK o \in {"unauthorized", "upload_failed"} : End(o)
    BY <1>1, <1>7 DEF GiveUp
  <2>2. op' = op
    BY <1>1, <1>7 DEF GiveUp
  <2>3. o \in Outcomes /\ outcomes' \in Seq(Outcomes)
    BY <1>0, <2>1, OneOutcomeMore DEF Outcomes, End
  <2>4. Types'
    BY <1>0, <1>3, <1>4, <2>2, <2>3 DEF Types
  <2>5. ~BlamesTheAccount(o)
    BY <2>1 DEF BlamesTheAccount
  <2> QED BY <1>0, <1>4, <2>1, <2>3, <2>4, <2>5, Told
<1> QED BY <1>5, <1>6, <1>7

LEMMA SucceedsStep ==
  ASSUME OutcomeInv, CreateSession \/ GetPow \/ UploadPow
  PROVE  OutcomeInv'
<1>0. PICK stage \in {"session", "pow", "uploadpow"} : Succeeds(stage)
  BY DEF CreateSession, GetPow, UploadPow
<1>1. Types /\ outcomes = <<>> /\ Working /\ Head(plan) # "call" /\ MaxAttempts \in Nat \ {0}
  BY <1>0, AtWork, CompletionAssumption DEF OutcomeInv, Succeeds, At
<1>2. /\ plan' = Tail(plan) /\ op' = FreshOp(caller.account)
      /\ UNCHANGED <<caller, program, payload, answer, seen, attempts, switched, request, calls, outcomes>>
  BY <1>0 DEF Succeeds
<1>3. caller.account \in Clients /\ op' \in Operation /\ op'.attempts <= MaxAttempts
  BY <1>1, <1>2, FreshType DEF Types, Caller
<1>4. sessions' \in Seq(Clients) /\ draft' \in Start /\ draft'.session <= Len(sessions')
  <2>1. CASE CreateSession
    <3>1. sessions' = Append(sessions, caller.account) /\ draft' = [draft EXCEPT !.session = Len(sessions')]
      BY <2>1 DEF CreateSession
    <3>2. sessions' \in Seq(Clients) /\ Len(sessions') \in Nat
      BY <1>1, <1>3, <3>1, AppendProperties, LenProperties DEF Types
    <3>3. draft' \in Start /\ draft'.session = Len(sessions')
      BY <1>1, <3>1, <3>2 DEF Types, Start
    <3> QED BY <3>2, <3>3
  <2>2. CASE GetPow \/ UploadPow
    BY <1>1, <1>3, <2>2 DEF GetPow, UploadPow, Types, Start
  <2> QED BY <2>1, <2>2
<1>5. upload' \in Upload /\ upload'.left = upload.left
  BY <1>1, <1>3 DEF CreateSession, GetPow, UploadPow, Types, Upload
<1>6. Types' /\ Working'
  BY <1>1, <1>2, <1>3, <1>4, <1>5, WorkTail DEF Types, Working
<1> QED BY <1>1, <1>2, <1>6, StillWorking

LEMMA UploadStep ==
  ASSUME OutcomeInv, UploadBreaks \/ UploadRefused \/ UploadAccepted \/ FileReady \/ FileNotReady
  PROVE  OutcomeInv'
<1>0. /\ Types /\ PlanInv /\ outcomes = <<>> /\ Working /\ Head(plan) # "call"
      /\ MaxAttempts \in Nat \ {0}
  BY AtWork, CompletionAssumption
  DEF OutcomeInv, UploadBreaks, UploadRefused, UploadAccepted, FileReady, FileNotReady, At
<1>1. UNCHANGED <<program, sessions, payload, answer, seen, attempts, switched, request, calls>>
  BY DEF UploadBreaks, UploadRefused, UploadAccepted, FileReady, FileNotReady
<1>2. caller.account \in Clients
  BY <1>0 DEF Types, Caller
<1>4. At("poll") => InputFiles # <<>> /\ upload.left # <<>>
  <2> SUFFICES ASSUME At("poll") PROVE InputFiles # <<>> /\ upload.left # <<>>
    OBVIOUS
  <2>1. Len(plan) \in Nat /\ Len(plan) > 0 /\ plan[1] = "poll"
    BY <1>0, LenProperties, EmptySeq, HeadTailProperties DEF Working, At
  <2>2. plan[1] \in WorkStages
    BY <1>0, <2>1, ElementOfSeq DEF Working
  <2> QED BY <1>0, <2>1, <2>2 DEF WorkStages, Types
<1>3. caller' \in Caller /\ draft' \in Start /\ draft'.session = draft.session
      /\ op' \in Operation /\ op'.attempts <= MaxAttempts
      /\ upload' \in Upload /\ (InputFiles # <<>> => upload'.left # <<>>)
      /\ \/ Working' /\ UNCHANGED outcomes
         \/ End("upload_failed")
  <2>1. CASE UploadBreaks
    <3>1. UNCHANGED <<caller, op, upload, draft>> /\ End("upload_failed")
      BY <2>1 DEF UploadBreaks
    <3> QED BY <1>0, <3>1 DEF Types
  <2>2. CASE UploadAccepted
    <3>1. plan' = Tail(plan) /\ UNCHANGED <<caller, op, upload, draft, outcomes>>
      BY <2>2 DEF UploadAccepted
    <3>2. Working'
      BY <1>0, <3>1, WorkTail DEF Working
    <3> QED BY <1>0, <3>1, <3>2 DEF Types
  <2>3. CASE FileReady
    <3>1. /\ plan' = Tail(plan) /\ op' = FreshOp(caller.account) /\ UNCHANGED <<caller, outcomes>>
          /\ draft' = [draft EXCEPT !.refs =
                         ReplaceGeneratedRefs(@, [name |-> Head(upload.left), by |-> program])]
      BY <2>3 DEF FileReady
    <3>2. Working'
      BY <1>0, <3>1, WorkTail DEF Working
    <3>3. op' \in Operation /\ op'.attempts <= MaxAttempts
      BY <1>0, <1>2, <3>1, FreshType
    <3>4. ReplaceGeneratedRefs(draft.refs, [name |-> Head(upload.left), by |-> program]) \in SUBSET Ref
      <4>1. Head(upload.left) \in STRING
        BY <1>0, <1>4, <2>3, HeadTailProperties DEF FileReady, Types, Upload
      <4> QED BY <1>0, <4>1 DEF ReplaceGeneratedRefs, Ref, Types, Start
    <3>5. PICK left : left = IF Len(upload.left) = 1 THEN InputFiles ELSE Tail(upload.left)
      OBVIOUS
    <3>6. left \in Seq(STRING) /\ left # <<>>
      <4>1. /\ upload.left \in Seq(STRING) /\ upload.left # <<>>
            /\ InputFiles \in Seq(STRING) /\ InputFiles # <<>>
        BY <1>0, <1>4, <2>3, UploadPlanType DEF Types, Upload, FileReady
      <4>2. Tail(upload.left) \in Seq(STRING) /\ Len(Tail(upload.left)) = Len(upload.left) - 1
            /\ Len(upload.left) \in Nat /\ Len(upload.left) # 0
        BY <4>1, HeadTailProperties, LenProperties, EmptySeq
      <4>3. Len(upload.left) # 1 => Len(Tail(upload.left)) # 0
        BY <4>2
      <4>4. Len(upload.left) # 1 => Tail(upload.left) # <<>>
        BY <4>2, <4>3, EmptySeq
      <4> QED BY <3>5, <4>1, <4>2, <4>4
    <3>7. upload' = [FreshUpload EXCEPT !.left = left]
      BY <2>3, <3>5 DEF FileReady
    <3>8. upload' \in Upload /\ upload'.left = left
      BY <3>6, <3>7 DEF FreshUpload, Upload, Clients
    <3>9. draft' \in Start /\ draft'.session = draft.session
      BY <1>0, <3>1, <3>4 DEF Types, Start
    <3> QED BY <1>0, <3>1, <3>2, <3>3, <3>6, <3>8, <3>9 DEF Types
  <2>4. CASE FileNotReady
    <3>1. UNCHANGED <<caller, op, draft>>
      BY <2>4 DEF FileNotReady
    <3>2. upload' = [upload EXCEPT !.polls = @ + 1] \/ upload' = upload
      BY <2>4 DEF FileNotReady
    <3>3. upload' \in Upload /\ upload'.left = upload.left
      BY <1>0, <3>2 DEF Types, Upload
    <3>4. UNCHANGED <<plan, outcomes>> \/ End("upload_failed")
      BY <2>4 DEF FileNotReady
    <3> QED BY <1>0, <3>1, <3>3, <3>4 DEF Types, Working
  <2>5. CASE UploadRefused
    <3>a. PICK reply \in Replies : \E r \in Recoveries(caller, UploadOp, reply, TRUE) :
            /\ caller' = r[1]
            /\ IF r[2].attempts < MaxAttempts
               THEN /\ upload' = [upload EXCEPT !.attempts = r[2].attempts,
                                                !.refreshed = r[2].refreshed]
                    /\ plan' = <<"uploadpow">> \o plan
                    /\ op' = FreshOp(r[1].account)
                    /\ UNCHANGED outcomes
               ELSE GiveUp("upload") /\ UNCHANGED upload
      BY <2>5 DEF UploadRefused
    <3>1. PICK r \in Recoveries(caller, UploadOp, reply, TRUE) :
            /\ caller' = r[1]
            /\ IF r[2].attempts < MaxAttempts
               THEN /\ upload' = [upload EXCEPT !.attempts = r[2].attempts,
                                                !.refreshed = r[2].refreshed]
                    /\ plan' = <<"uploadpow">> \o plan
                    /\ op' = FreshOp(r[1].account)
                    /\ UNCHANGED outcomes
               ELSE GiveUp("upload") /\ UNCHANGED upload
      BY <3>a
    <3>2. UNCHANGED draft /\ Head(plan) = "upload"
      BY <2>5 DEF UploadRefused, At
    <3>3. UploadOp \in Operation /\ caller \in Caller
      BY <1>0 DEF UploadOp, Operation, Types, Upload
    <3>4. r[1] \in Caller /\ r[2] \in Operation
      BY <3>1, <3>3, RecoveriesType
    <3>5. CASE r[2].attempts < MaxAttempts
      <4>1. Working'
        BY <1>0, <3>1, <3>2, <3>5, WorkPrepend DEF Working
      <4>2. op' \in Operation /\ op'.attempts <= MaxAttempts
        BY <1>0, <3>1, <3>4, <3>5, FreshType DEF Caller
      <4>3. upload' \in Upload /\ upload'.left = upload.left
        <5>1. upload' = [upload EXCEPT !.attempts = r[2].attempts, !.refreshed = r[2].refreshed]
          BY <3>1, <3>5
        <5>2. r[2].attempts \in Nat /\ r[2].refreshed \in BOOLEAN
          BY <3>4 DEF Operation
        <5> QED BY <1>0, <5>1, <5>2 DEF Types, Upload
      <4> QED BY <1>0, <3>1, <3>2, <3>4, <3>5, <4>1, <4>2, <4>3 DEF Types
    <3>6. CASE ~(r[2].attempts < MaxAttempts)
      <4>1. GiveUp("upload") /\ UNCHANGED upload
        BY <3>1, <3>6
      <4>2. End("upload_failed") /\ UNCHANGED op
        BY <4>1 DEF GiveUp
      <4> QED BY <1>0, <3>1, <3>2, <3>4, <4>1, <4>2 DEF Types
    <3> QED BY <3>5, <3>6
  <2> QED BY <2>1, <2>2, <2>3, <2>4, <2>5
<1>5. CASE Working' /\ UNCHANGED outcomes
  <2>1. Types'
    BY <1>0, <1>1, <1>3, <1>5 DEF Types
  <2> QED BY <1>0, <1>1, <1>5, <2>1, StillWorking
<1>6. CASE End("upload_failed")
  <2>1. "upload_failed" \in Outcomes /\ outcomes' \in Seq(Outcomes)
    BY <1>0, <1>6, OneOutcomeMore DEF Outcomes, End
  <2>2. Types'
    BY <1>0, <1>1, <1>3, <2>1 DEF Types
  <2>3. ~BlamesTheAccount("upload_failed")
    BY DEF BlamesTheAccount
  <2> QED BY <1>0, <1>1, <1>6, <2>1, <2>2, <2>3, Told
<1> QED BY <1>3, <1>5, <1>6

-----------------------------------------------------------------------------
(* The call and what is made of its answer.                                *)

(* One more call is one more of its program.                               *)
LEMMA OneMoreCall ==
  ASSUME calls \in Seq(CallRecord), NEW c \in CallRecord, calls' = Append(calls, c)
  PROVE  /\ calls' \in Seq(CallRecord)
         /\ \A p \in Programs : /\ CallsOf(p) \in Nat
                                /\ CallsOf(p)' = IF c.program = p THEN CallsOf(p) + 1 ELSE CallsOf(p)
<1>1. /\ Len(calls) \in Nat /\ DOMAIN calls = 1 .. Len(calls)
      /\ calls' \in Seq(CallRecord) /\ DOMAIN calls' = 1 .. Len(calls) + 1
      /\ \A i \in 1 .. Len(calls) : calls'[i] = calls[i]
      /\ calls'[Len(calls) + 1] = c
  BY AppendProperties, LenProperties
<1>2. ASSUME NEW p \in Programs
      PROVE  /\ CallsOf(p) \in Nat
             /\ CallsOf(p)' = IF c.program = p THEN CallsOf(p) + 1 ELSE CallsOf(p)
  <2> DEFINE old == {i \in DOMAIN calls : calls[i].program = p}
             new == {i \in DOMAIN calls' : calls'[i].program = p}
  <2>1. old \subseteq 1 .. Len(calls) /\ IsFiniteSet(1 .. Len(calls))
    BY <1>1, FS_Interval
  <2>2. IsFiniteSet(old) /\ Cardinality(old) \in Nat
    BY <2>1, FS_Subset, FS_CardinalityType
  <2>3. Len(calls) + 1 \notin old
    BY <1>1
  <2>4. CASE c.program = p
    <3>1. new = old \cup {Len(calls) + 1}
      BY <1>1, <2>4
    <3>2. Cardinality(new) = Cardinality(old) + 1
      BY <2>2, <2>3, <3>1, FS_AddElement
    <3> QED BY <2>2, <2>4, <3>2 DEF CallsOf
  <2>5. CASE c.program # p
    <3>1. new = old
      BY <1>1, <2>5
    <3> QED BY <2>2, <2>5, <3>1 DEF CallsOf
  <2> QED BY <2>4, <2>5
<1> QED BY <1>1, <1>2

LEMMA OneMoreCallType ==
  ASSUME Types, NEW p
  PROVE  CallsOf(p) \in Nat
<1>1. DOMAIN calls = 1 .. Len(calls) /\ Len(calls) \in Nat
  BY LenProperties DEF Types
<1>2. {i \in DOMAIN calls : calls[i].program = p} \subseteq 1 .. Len(calls)
  BY <1>1
<1>3. IsFiniteSet(1 .. Len(calls))
  BY <1>1, FS_Interval
<1> QED BY <1>2, <1>3, FS_Subset, FS_CardinalityType DEF CallsOf

LEMMA CallStep ==
  ASSUME OutcomeInv, CallFails \/ CallAnswered
  PROVE  OutcomeInv'
<1>0. Types /\ PlanInv /\ outcomes = <<>> /\ Working /\ CountInv
  BY AtWork DEF OutcomeInv, CallFails, CallAnswered
<1>1. CASE CallFails
  <2>1. /\ End("failed")
        /\ UNCHANGED <<caller, program, op, upload, sessions, draft, payload, answer, seen,
                       attempts, switched, request, calls>>
    BY <1>1 DEF CallFails
  <2>2. "failed" \in Outcomes /\ outcomes' \in Seq(Outcomes)
    BY <1>0, <2>1, OneOutcomeMore DEF Outcomes, End
  <2>3. Types'
    BY <1>0, <2>1, <2>2 DEF Types
  <2>4. ~BlamesTheAccount("failed")
    BY DEF BlamesTheAccount
  <2> QED BY <1>0, <2>1, <2>2, <2>3, <2>4, Told
<1>2. CASE CallAnswered
  <2>1. /\ payload' = draft /\ answer' \in Answers /\ plan' = <<"consume">>
        /\ UNCHANGED <<caller, program, op, upload, sessions, draft, seen, attempts, switched,
                       request, outcomes>>
    BY <1>2 DEF CallAnswered
  <2>2. PICK c : c = [program |-> program, account |-> caller.account,
                      session |-> draft.session, refs |-> draft.refs,
                      parent |-> ParentFor, suffix |-> program = "retry"]
    OBVIOUS
  <2>3. c \in CallRecord /\ c.program = program
    BY <1>0, <2>2 DEF Types, CallRecord, Caller, Start, ParentFor
  <2>4. calls' = Append(calls, c)
    BY <1>2, <2>2 DEF CallAnswered
  <2>5. /\ calls' \in Seq(CallRecord)
        /\ \A p \in Programs : /\ CallsOf(p) \in Nat
                               /\ CallsOf(p)' = IF program = p THEN CallsOf(p) + 1 ELSE CallsOf(p)
    BY <1>0, <2>3, <2>4, OneMoreCall DEF Types
  <2>6. Types'
    BY <1>0, <2>1, <2>5 DEF Types
  <2>7. PlanInv' /\ ~Working'
    BY <1>0, <2>1 DEF PlanInv, Working
  <2>8. CountInv'
    <3>1. /\ CallsOf("start")' = IF program = "start" THEN CallsOf("start") + 1 ELSE CallsOf("start")
          /\ CallsOf("switch")' = IF program = "switch" THEN CallsOf("switch") + 1 ELSE CallsOf("switch")
          /\ CallsOf("retry")' = IF program = "retry" THEN CallsOf("retry") + 1 ELSE CallsOf("retry")
          /\ CallsOf("start") \in Nat /\ CallsOf("switch") \in Nat /\ CallsOf("retry") \in Nat
      BY <2>5 DEF Programs
    <3>2. program \in Programs /\ attempts \in Nat
      BY <1>0, CompletionAssumption DEF Types
    <3> QED BY <1>0, <2>1, <2>7, <3>1, <3>2 DEF CountInv, Programs
  <2>9. RateLimitSwitchedFirst' /\ RetriedBeforeGivingUp'
    BY <1>0, <2>1 DEF RateLimitSwitchedFirst, BlamesTheAccount, RetriedBeforeGivingUp, Range, Stream, Managed
  <2> QED BY <2>6, <2>7, <2>8, <2>9 DEF OutcomeInv
<1> QED BY <1>1, <1>2

TurnType == [text : BOOLEAN, thinking : BOOLEAN, tools : BOOLEAN, filtered : BOOLEAN]

LEMMA TurnIsTyped ==
  ASSUME Types
  PROVE  /\ Turn \in TurnType /\ answer \in AnswerType /\ Stream \in BOOLEAN /\ Required \in BOOLEAN
         /\ attempts \in 0 .. RetryMax /\ RetryMax \in Nat \ {0}
<1>1. /\ answer \in AnswerType /\ EmptyAnswer \in AnswerType /\ seen \in Output
      /\ request \in [stream : BOOLEAN, required : BOOLEAN]
  BY CompletionAssumption DEF Types, EmptyAnswer, AnswerType
<1>2. ASSUME NEW a \in AnswerType
      PROVE  LET text == a.text \/ (Stream /\ seen.text)
             IN  [text     |-> text,
                  thinking |-> a.thinking \/ seen.thinking,
                  tools    |-> a.tools \/ seen.tools,
                  filtered |-> a.filtered /\ (Stream => ~ text)] \in TurnType
  BY <1>1, <1>2 DEF TurnType, AnswerType, Output
<1>3. Turn \in TurnType
  BY <1>1, <1>2 DEF Turn
<1> QED BY <1>1, <1>3, CompletionAssumption DEF Stream, Required, Types

(* Only a turn with nothing to show is an error of the upstream.           *)
LEMMA TurnErrors ==
  ASSUME NEW turn \in TurnType
  PROVE  /\ TurnError(turn) \in Outcomes
         /\ TurnError(turn) \in {"upstream_empty_output", "upstream_unavailable"} =>
              turn.tools = FALSE /\ turn.text = FALSE /\ turn.filtered = FALSE
         /\ TurnError(turn) \notin {"429", "500"}
BY DEF TurnError, Outcomes, TurnType

(* What is left alone when an answer is consumed.                          *)
Kept == UNCHANGED <<sessions, payload, answer, request, calls>>

LEMMA RetryBegins ==
  ASSUME OutcomeInv, outcomes = <<>>, attempts < RetryMax, BeginRetry, seen' \in Output, Kept
  PROVE  OutcomeInv'
<1>0. Types /\ CountInv /\ attempts \in Nat /\ RetryMax \in Nat /\ MaxAttempts \in Nat
  BY CompletionAssumption DEF OutcomeInv, Types
<1>1. /\ attempts' = attempts + 1 /\ program' = "retry" /\ plan' = PlanOf("retry")
      /\ op' = FreshOp(caller.account)
      /\ UNCHANGED <<caller, switched, draft, upload, outcomes, sessions, payload, answer, request, calls>>
  BY DEF BeginRetry, Kept
<1>2. op' \in Operation /\ op'.attempts <= MaxAttempts
  BY <1>0, <1>1, FreshType DEF Types, Caller
<1>3. Types'
  BY <1>0, <1>1, <1>2 DEF Types, Programs
<1>4. Working'
  BY <1>1, PlansWork DEF Working, Programs
<1>5. PlanInv'
  BY <1>1, <1>4 DEF PlanInv
<1>6. CountInv'
  <2>1. \A p : CallsOf(p)' = CallsOf(p)
    BY <1>1 DEF CallsOf
  <2>2. CallsOf("retry") \in Nat
    BY <1>0, OneMoreCallType
  <2> QED BY <1>0, <1>1, <2>1, <2>2 DEF CountInv
<1>7. RateLimitSwitchedFirst' /\ RetriedBeforeGivingUp'
  BY <1>1 DEF RateLimitSwitchedFirst, BlamesTheAccount, RetriedBeforeGivingUp, Range, Stream, Managed
<1> QED BY <1>3, <1>5, <1>6, <1>7 DEF OutcomeInv

LEMMA SwitchBegins ==
  ASSUME OutcomeInv, outcomes = <<>>, CanSwitch, NEW o \in Outcomes, BeginSwitch(o),
         seen' \in Output, Kept,
         o \in {"upstream_empty_output", "upstream_unavailable"} => attempts = RetryMax
  PROVE  OutcomeInv'
<1>0. Types /\ CountInv /\ MaxAttempts \in Nat /\ switched = FALSE
  BY CompletionAssumption DEF OutcomeInv, Types, CanSwitch
<1>1. /\ switched' = TRUE
      /\ UNCHANGED <<attempts, draft, upload, sessions, payload, answer, request, calls>>
  BY DEF BeginSwitch, Kept
<1>2. caller \in Caller /\ SwitchFailed(caller) \in Caller
      /\ \A d \in SwitchOutcomes(caller) : d \in Caller /\ d.account \in Clients
  <2>1. \A c \in Caller : SwitchFailed(c) \in Caller
    BY DEF SwitchFailed, Caller, Clients
  <2>2. \A d \in SwitchOutcomes(caller) : d \in Caller
    BY <1>0, SwitchOutcomesType DEF Types
  <2> QED BY <1>0, <2>1, <2>2 DEF Types, Caller
<1>3. ASSUME NEW c \in SwitchOutcomes(caller), caller' = c, program' = "switch",
             plan' = PlanOf("switch"), op' = FreshOp(c.account), UNCHANGED outcomes
      PROVE  OutcomeInv'
  <2>1. op' \in Operation /\ op'.attempts <= MaxAttempts
    BY <1>0, <1>2, <1>3, FreshType
  <2>2. Types'
    BY <1>0, <1>1, <1>2, <1>3, <2>1 DEF Types, Programs
  <2>3. Working'
    BY <1>3, PlansWork DEF Working, Programs
  <2>4. PlanInv'
    BY <1>3, <2>3 DEF PlanInv
  <2>5. CountInv'
    <3>1. \A p : CallsOf(p)' = CallsOf(p)
      BY <1>1 DEF CallsOf
    <3> QED BY <1>0, <1>1, <1>3, <3>1 DEF CountInv
  <2>6. RateLimitSwitchedFirst' /\ RetriedBeforeGivingUp'
    BY <1>3 DEF RateLimitSwitchedFirst, BlamesTheAccount, RetriedBeforeGivingUp, Range, Stream, Managed
  <2> QED BY <2>2, <2>4, <2>5, <2>6 DEF OutcomeInv
<1>4. ASSUME caller' = SwitchFailed(caller), End(o), UNCHANGED <<program, op>> PROVE OutcomeInv'
  <2>1. outcomes' \in Seq(Outcomes)
    BY <1>4, OneOutcomeMore DEF End
  <2>2. Types'
    BY <1>0, <1>1, <1>2, <1>4, <2>1 DEF Types
  <2> QED BY <1>1, <1>4, <2>2, Told
<1> QED BY <1>3, <1>4 DEF BeginSwitch

LEMMA AnsweredStep ==
  ASSUME OutcomeInv, outcomes = <<>>, NEW o \in Outcomes, Answered(o), seen' \in Output, Kept,
         BlamesTheAccount(o) /\ Managed => switched = TRUE,
         o \in {"upstream_empty_output", "upstream_unavailable"} => attempts = RetryMax
  PROVE  OutcomeInv'
<1>0. Types
  BY DEF OutcomeInv
<1>1. /\ End(o)
      /\ UNCHANGED <<caller, program, op, attempts, switched, draft, upload, sessions, payload,
                     answer, request, calls>>
  BY DEF Answered, Kept
<1>2. outcomes' \in Seq(Outcomes)
  BY <1>1, OneOutcomeMore DEF End
<1>3. Types'
  BY <1>0, <1>1, <1>2 DEF Types
<1>4. Managed' = Managed
  BY <1>1 DEF Managed
<1> QED BY <1>1, <1>3, <1>4, Told

LEMMA ConsumeStep ==
  ASSUME OutcomeInv, ConsumeCollected \/ ConsumeStream \/ ConsumeCancelled
  PROVE  OutcomeInv'
<1>0. Types /\ outcomes = <<>> /\ Kept /\ seen \in Output
  BY AtWork DEF OutcomeInv, Types, Kept, ConsumeCollected, ConsumeStream, ConsumeCancelled
<1>a. PICK turn \in TurnType : turn = Turn
  BY <1>0, TurnIsTyped
<1>e. /\ TurnError(turn) \in Outcomes
      /\ TurnError(turn) \in {"upstream_empty_output", "upstream_unavailable"} =>
           turn.tools = FALSE /\ turn.text = FALSE /\ turn.filtered = FALSE
      /\ TurnError(turn) \notin {"429", "500"}
  BY TurnErrors
<1>f. /\ attempts \in Nat /\ RetryMax \in Nat /\ attempts <= RetryMax
      /\ answer.status \in {"ok", "429", "500"} /\ switched \in BOOLEAN
  BY <1>0, TurnIsTyped DEF AnswerType, Types
<1>b. /\ attempts \in Nat /\ RetryMax \in Nat /\ attempts <= RetryMax
      /\ TurnError(turn) \in Outcomes
      /\ TurnError(turn) \in {"upstream_empty_output", "upstream_unavailable"} =>
           turn.tools = FALSE /\ turn.text = FALSE /\ turn.filtered = FALSE
      /\ TurnError(turn) \notin {"429", "500"}
      /\ switched \in BOOLEAN
      /\ answer.status \in {"ok", "429", "500"}
  BY <1>e, <1>f
<1>c. {"ok", "429", "500", "cancelled"} \subseteq Outcomes
  BY DEF Outcomes
<1>d. [NoOutput EXCEPT !.thinking = turn.thinking] \in Output /\ NoOutput \in Output
      /\ [text |-> turn.text, thinking |-> turn.thinking, tools |-> turn.tools] \in Output
  BY DEF NoOutput, Output, TurnType
<1>1. CASE ConsumeCollected
  <2>1. CASE answer.status = "ok" /\ ShouldRetryEmptyOutput(turn)
    <3>1. BeginRetry /\ seen' = [NoOutput EXCEPT !.thinking = turn.thinking] /\ attempts < RetryMax
      BY <1>1, <1>a, <2>1 DEF ConsumeCollected, ShouldRetryEmptyOutput
    <3> QED BY <1>0, <1>d, <3>1, RetryBegins
  <2>2. CASE ~(answer.status = "ok" /\ ShouldRetryEmptyOutput(turn))
    <3>1. PICK error \in Outcomes : error = CollectAttempt(turn)
      BY <1>b, <1>c DEF CollectAttempt
    <3>2. error \in {"upstream_empty_output", "upstream_unavailable"} => attempts = RetryMax
      BY <1>b, <2>2, <3>1 DEF CollectAttempt, ShouldRetryEmptyOutput
    <3>3. CASE error \in {"429", "upstream_empty_output"} /\ CanSwitch
      <4>1. BeginSwitch(error) /\ seen' = NoOutput
        BY <1>1, <1>a, <2>2, <3>1, <3>3 DEF ConsumeCollected
      <4> QED BY <1>0, <1>d, <3>2, <3>3, <4>1, SwitchBegins
    <3>4. CASE ~(error \in {"429", "upstream_empty_output"} /\ CanSwitch)
      <4>1. Answered(error) /\ seen' = [NoOutput EXCEPT !.thinking = turn.thinking]
        BY <1>1, <1>a, <2>2, <3>1, <3>4 DEF ConsumeCollected
      <4>2. BlamesTheAccount(error) /\ Managed => switched = TRUE
        BY <1>b, <3>4 DEF CanSwitch, BlamesTheAccount
      <4> QED BY <1>0, <1>d, <3>2, <4>1, <4>2, AnsweredStep
    <3> QED BY <3>3, <3>4
  <2> QED BY <2>1, <2>2
<1>2. CASE ConsumeStream
  <2>0. seen' \in Output
    BY <1>2, <1>a, <1>d DEF ConsumeStream
  <2>1. CASE answer.status # "ok" /\ program # "switch"
    <3>1. Answered(answer.status)
      BY <1>2, <2>1 DEF ConsumeStream
    <3>2. ~BlamesTheAccount(answer.status)
      BY <1>2, <1>b DEF BlamesTheAccount, ConsumeStream
    <3> QED BY <1>0, <1>b, <1>c, <2>0, <3>1, <3>2, AnsweredStep
  <2>2. CASE ~(answer.status # "ok" /\ program # "switch")
    <3>1. PICK error \in Outcomes : error = TurnError(turn)
      BY <1>b
    <3>2. IF error = "ok" \/ ~ MayDefer(turn) THEN Answered(error)
          ELSE IF attempts < RetryMax THEN BeginRetry ELSE BeginSwitch(error)
      BY <1>2, <1>a, <2>2, <3>1 DEF ConsumeStream
    <3>3. CASE error = "ok" \/ ~ MayDefer(turn)
      <4>1. error \in {"upstream_empty_output", "upstream_unavailable"} => attempts = RetryMax /\ ~CanSwitch
        BY <1>b, <3>1, <3>3 DEF MayDefer
      <4>2. BlamesTheAccount(error) /\ Managed => switched = TRUE
        BY <1>2, <1>b, <3>1, <4>1 DEF CanSwitch, BlamesTheAccount, ConsumeStream
      <4> QED BY <1>0, <2>0, <3>2, <3>3, <4>1, <4>2, AnsweredStep
    <3>4. CASE ~(error = "ok" \/ ~ MayDefer(turn)) /\ attempts < RetryMax
      BY <1>0, <2>0, <3>2, <3>4, RetryBegins
    <3>5. CASE ~(error = "ok" \/ ~ MayDefer(turn)) /\ ~(attempts < RetryMax)
      <4>1. CanSwitch /\ attempts = RetryMax
        BY <1>b, <3>5 DEF MayDefer
      <4> QED BY <1>0, <2>0, <3>2, <3>5, <4>1, SwitchBegins
    <3> QED BY <3>3, <3>4, <3>5
  <2> QED BY <2>1, <2>2
<1>3. CASE ConsumeCancelled
  <2>1. Answered("cancelled") /\ seen' = seen
    BY <1>3 DEF ConsumeCancelled
  <2>2. ~BlamesTheAccount("cancelled")
    BY DEF BlamesTheAccount
  <2> QED BY <1>0, <1>c, <2>1, <2>2, AnsweredStep
<1> QED BY <1>1, <1>2, <1>3

LEMMA OutcomeStep == OutcomeInv /\ [Next]_vars => OutcomeInv'
<1> SUFFICES ASSUME OutcomeInv, [Next]_vars PROVE OutcomeInv'
  OBVIOUS
<1>0. Types /\ PlanInv
  BY DEF OutcomeInv
<1>1. ASSUME AutoDelete \/ Cancel \/ UNCHANGED vars PROVE OutcomeInv'
  <2>1. /\ UNCHANGED <<program, op, upload, sessions, draft, payload, answer, seen, attempts,
                       switched, request, calls, outcomes>>
        /\ caller' \in Caller /\ Managed' = Managed
    BY <1>0, <1>1 DEF AutoDelete, Cancel, vars, Managed, Types, Caller
  <2>2. Types'
    BY <1>0, <2>1 DEF Types
  <2>3. CASE AutoDelete
    <3>1. plan' = <<>> /\ Len(outcomes') = 1
      BY <1>0, <2>1, <2>3, AtWork DEF AutoDelete
    <3>2. PlanInv' /\ ~Working'
      BY <3>1 DEF PlanInv, Working
    <3> QED BY <2>1, <2>2, <3>2
        DEF OutcomeInv, CountInv, CallsOf, RateLimitSwitchedFirst, BlamesTheAccount, RetriedBeforeGivingUp, Stream, Managed
  <2>4. CASE Cancel \/ UNCHANGED vars
    <3>1. plan' = plan
      BY <2>4 DEF Cancel, vars
    <3> QED BY <2>1, <2>2, <3>1
        DEF OutcomeInv, PlanInv, Working, CountInv, CallsOf, RateLimitSwitchedFirst, BlamesTheAccount, RetriedBeforeGivingUp, Stream, Managed
  <2> QED BY <1>1, <2>3, <2>4
<1>2. ASSUME CreateSessionFails \/ GetPowFails \/ UploadPowFails PROVE OutcomeInv'
  BY <1>2, AttemptFailsStep DEF CreateSessionFails, GetPowFails, UploadPowFails
<1> QED BY <1>1, <1>2, SucceedsStep, UploadStep, CallStep, ConsumeStep DEF Next, Handle

LEMMA OutcomeInit == Init => OutcomeInv
<1> SUFFICES ASSUME Init PROVE OutcomeInv
  OBVIOUS
<1>0. MaxAttempts \in Nat /\ RetryMax \in Nat /\ InputFiles \in Seq(STRING)
  BY CompletionAssumption, UploadPlanType
<1>1. /\ caller \in Caller /\ program = "start" /\ plan = PlanOf("start")
      /\ op = FreshOp(caller.account) /\ op \in Operation /\ op.attempts = 0
  BY FreshType DEF Init, Caller, Clients
<1>2. upload \in Upload /\ upload.left = InputFiles
  BY <1>0 DEF Init, FreshUpload, Upload, Clients
<1>3. NoStart \in Start /\ NoOutput \in Output
  <2>1. ClientRef \in Ref
    BY DEF ClientRef, Ref
  <2>2. {ClientRef} \in SUBSET Ref
    BY <2>1
  <2> QED BY <2>2 DEF NoStart, Start, NoOutput, Output, Clients
<1>4. answer \in Answers
  BY CompletionAssumption DEF Init
<1>5. sessions = <<>> /\ calls = <<>> /\ outcomes = <<>> /\ Len(sessions) = 0 /\ NoStart.session = 0
  BY DEF Init, NoStart
<1>6. Types
  <2>1. draft = NoStart /\ payload = NoStart /\ seen = NoOutput /\ attempts = 0 /\ switched = FALSE
        /\ request \in [stream : BOOLEAN, required : BOOLEAN]
    BY DEF Init
  <2>2. sessions \in Seq(Clients) /\ calls \in Seq(CallRecord) /\ outcomes \in Seq(Outcomes)
    BY <1>5, EmptySeq
  <2>3. op.attempts <= MaxAttempts /\ draft.session <= Len(sessions) /\ attempts \in 0 .. RetryMax
    BY <1>0, <1>1, <1>5, <2>1
  <2> QED BY <1>1, <1>2, <1>3, <1>4, <2>1, <2>2, <2>3 DEF Types, Programs
<1>7. PlanInv
  BY <1>1, <1>5, PlansWork DEF PlanInv, Working, Programs
<1>8. CountInv
  <2>1. \A p : CallsOf(p) = 0
    <3>1. DOMAIN calls = {}
      BY <1>5
    <3> QED BY <3>1, FS_EmptySet DEF CallsOf
  <2> QED BY <1>1, <2>1 DEF CountInv, Init
<1>9. RateLimitSwitchedFirst /\ RetriedBeforeGivingUp
  BY <1>5 DEF RateLimitSwitchedFirst, BlamesTheAccount, RetriedBeforeGivingUp, Range, Stream, Managed
<1> QED BY <1>6, <1>7, <1>8, <1>9 DEF OutcomeInv

LEMMA OutcomeGives == OutcomeInv => OneOutcome
<1> SUFFICES ASSUME OutcomeInv PROVE OneOutcome
  OBVIOUS
<1>0. Types /\ PlanInv /\ CountInv /\ RetryMax \in Nat
  BY CompletionAssumption DEF OutcomeInv
<1>1. TypeOK
  <2>1. Range(plan) \subseteq {"uploadpow", "upload", "poll", "session", "pow", "call", "consume", "delete"}
    <3>1. CASE Working
      <4>1. Range(plan) \subseteq WorkStages
        BY <3>1, LenProperties, ElementOfSeq DEF Working, Range
      <4> QED BY <4>1 DEF WorkStages
    <3>2. CASE ~Working
      BY <1>0, <3>2 DEF PlanInv, Range
    <3> QED BY <3>1, <3>2
  <2>2. Range(sessions) \subseteq Accounts \cup {Direct}
    BY <1>0, LenProperties, ElementOfSeq DEF Types, Range, Clients
  <2>3. op \in [attempts : 0 .. MaxAttempts, refreshed : BOOLEAN, clients : Accounts \cup {Direct}]
    BY <1>0, CompletionAssumption DEF Types, Operation, Clients
  <2>4. draft.session \in 0 .. Len(sessions)
    BY <1>0, LenProperties DEF Types, Start
  <2> QED BY <1>0, <2>1, <2>2, <2>3, <2>4 DEF TypeOK, Types, Caller, Clients, Programs
<1>2. AnsweredOnce
  <2>1. CASE outcomes = <<>> /\ (Working \/ plan = <<"consume">>)
    <3>1. plan # <<>> /\ ~At("delete")
      BY <1>0, <2>1, AtWork DEF Working
    <3> QED BY <2>1, <3>1 DEF AnsweredOnce
  <2>2. CASE Len(outcomes) = 1
    BY <2>2 DEF AnsweredOnce
  <2> QED BY <1>0, <2>1, <2>2 DEF PlanInv
<1>3. BoundedCalls
  <2>1. CallsOf("retry") \in Nat /\ attempts \in 0 .. RetryMax
    BY <1>0, OneMoreCallType DEF Types
  <2>2. CallsOf("start") <= 1 /\ CallsOf("switch") <= 1 /\ CallsOf("retry") <= RetryMax
    BY <1>0, <2>1 DEF CountInv
  <2> QED BY <2>2 DEF BoundedCalls, CallsOf
<1> QED BY <1>1, <1>2, <1>3 DEF OneOutcome, OutcomeInv

(* However retries, refreshes, switches and failures alternate, a request  *)
(* is answered once, after at most the first call, RetryMax synthetic      *)
(* retries and one call on another account.  The caller hears of an empty  *)
(* answer only after the retries; and of an account that only reasoned, or *)
(* of the 429 of a collected answer, only after a switch was looked for.   *)
THEOREM EveryRequestHasOneOutcome == Spec => []OneOutcome
BY OutcomeInit, OutcomeStep, OutcomeGives, PTL DEF Spec

-----------------------------------------------------------------------------
(* What is asked for again.                                                *)

(* The answer that a retry or a switch is to make up for.                  *)
Retryable ==
    /\ answer.tools = FALSE
    /\ answer.text => Stream /\ Required
    /\ answer.filtered => answer.text \/ (Stream /\ seen.text)

EmptyInv ==
    calls # <<>> /\ plan # <<"consume">> /\ outcomes = <<>> /\ answer.status = "ok" => Retryable

(* No other step has to do with the answer.                                *)
LEMMA AnswerIsKept ==
  ASSUME Next, ~CallAnswered, ~ConsumeCollected, ~ConsumeStream, ~ConsumeCancelled
  PROVE  /\ UNCHANGED <<answer, seen, request, calls>>
         /\ UNCHANGED outcomes \/ \E o : outcomes' = Append(outcomes, o)
         /\ plan # <<"consume">> \/ UNCHANGED plan
<1> DEFINE Goal == /\ UNCHANGED <<answer, seen, request, calls>>
                   /\ UNCHANGED outcomes \/ \E o : outcomes' = Append(outcomes, o)
                   /\ plan # <<"consume">> \/ UNCHANGED plan
<1>0. ASSUME NEW stage, At(stage), stage # "consume" PROVE plan # <<"consume">>
  BY <1>0 DEF At
<1>1. ASSUME NEW stage \in {"session", "pow", "uploadpow"}, AttemptFails(stage) PROVE Goal
  <2>1. plan # <<"consume">> /\ UNCHANGED <<answer, seen, request, calls>>
    BY <1>0, <1>1 DEF AttemptFails
  <2>2. UNCHANGED outcomes \/ \E o : outcomes' = Append(outcomes, o)
    BY <1>1 DEF AttemptFails, GiveUp, End
  <2> QED BY <2>1, <2>2
<1>2. ASSUME NEW stage \in {"session", "pow", "uploadpow"}, Succeeds(stage) PROVE Goal
  BY <1>0, <1>2 DEF Succeeds
<1>3. CASE UploadBreaks \/ UploadRefused \/ UploadAccepted \/ FileReady \/ FileNotReady \/ CallFails
  <2>1. plan # <<"consume">> /\ UNCHANGED <<answer, seen, request, calls>>
    BY <1>0, <1>3 DEF UploadBreaks, UploadRefused, UploadAccepted, FileReady, FileNotReady, CallFails
  <2>2. UNCHANGED outcomes \/ \E o : outcomes' = Append(outcomes, o)
    BY <1>3 DEF UploadBreaks, UploadRefused, UploadAccepted, FileReady, FileNotReady, CallFails,
                GiveUp, End
  <2> QED BY <2>1, <2>2
<1>4. CASE AutoDelete \/ Cancel
  BY <1>0, <1>4 DEF AutoDelete, Cancel
<1>5. CASE CreateSessionFails \/ GetPowFails \/ UploadPowFails
  BY <1>1, <1>5 DEF CreateSessionFails, GetPowFails, UploadPowFails
<1>6. CASE CreateSession \/ GetPow \/ UploadPow
  BY <1>2, <1>6 DEF CreateSession, GetPow, UploadPow
<1> QED BY <1>3, <1>4, <1>5, <1>6 DEF Next, Handle

LEMMA EmptyStep == OutcomeInv /\ EmptyInv /\ [Next]_vars => EmptyInv'
<1> SUFFICES ASSUME OutcomeInv, EmptyInv, [Next]_vars PROVE EmptyInv'
  OBVIOUS
<1>0. Types /\ PlanInv
  BY DEF OutcomeInv
<1>1. CASE UNCHANGED vars
  BY <1>1 DEF EmptyInv, Retryable, Stream, Required, vars
<1>2. CASE Next /\ ~CallAnswered /\ ~ConsumeCollected /\ ~ConsumeStream /\ ~ConsumeCancelled
  <2>1. /\ UNCHANGED <<answer, seen, request, calls>>
        /\ UNCHANGED outcomes \/ \E o : outcomes' = Append(outcomes, o)
        /\ plan # <<"consume">> \/ UNCHANGED plan
    BY <1>2, AnswerIsKept
  <2>2. ASSUME NEW o, outcomes' = Append(outcomes, o) PROVE outcomes' # <<>>
    BY <1>0, <2>2 DEF Types
  <2>3. outcomes' = <<>> => outcomes = <<>>
    BY <2>1, <2>2
  <2> QED BY <2>1, <2>3 DEF EmptyInv, Retryable, Stream, Required
<1>3. CASE CallAnswered
  BY <1>3 DEF CallAnswered, EmptyInv
<1>4. ASSUME NEW o, End(o) PROVE EmptyInv'
  <2>1. outcomes' # <<>>
    BY <1>0, <1>4 DEF End, Types
  <2> QED BY <2>1 DEF EmptyInv
<1>5. ASSUME NEW o, Answered(o) PROVE EmptyInv'
  BY <1>4, <1>5 DEF Answered
<1>a. /\ Turn \in TurnType /\ answer \in AnswerType /\ Stream \in BOOLEAN /\ Required \in BOOLEAN
      /\ seen \in Output
  BY <1>0, TurnIsTyped DEF Types
<1>b. answer.status = "ok" => /\ Turn.tools = (answer.tools \/ seen.tools)
                              /\ Turn.text = (answer.text \/ (Stream /\ seen.text))
                              /\ Turn.filtered = (answer.filtered /\ (Stream => ~ Turn.text))
  BY DEF Turn
<1>6. CASE ConsumeCollected /\ ~(\E o : End(o))
  <2>1. answer' = answer /\ request' = request /\ ~Stream
    BY <1>6 DEF ConsumeCollected
  <2>2. answer.status = "ok" => Turn.tools = FALSE /\ Turn.text = FALSE /\ Turn.filtered = FALSE
    <3> HAVE answer.status = "ok"
    <3>1. CASE ShouldRetryEmptyOutput(Turn)
      BY <1>a, <3>1 DEF ShouldRetryEmptyOutput, TurnType
    <3>2. CASE ~ShouldRetryEmptyOutput(Turn)
      <4>1. TurnError(Turn) = "upstream_empty_output"
        <5>1. CollectAttempt(Turn) = TurnError(Turn) /\ TurnError(Turn) # "429"
          BY <1>a, TurnErrors DEF CollectAttempt
        <5>2. CollectAttempt(Turn) \in {"429", "upstream_empty_output"}
          BY <1>6, <3>2 DEF ConsumeCollected, Answered
        <5> QED BY <5>1, <5>2
      <4> QED BY <1>a, <4>1, TurnErrors
    <3> QED BY <3>1, <3>2
  <2>3. answer.status = "ok" => answer.tools = FALSE /\ answer.text = FALSE /\ answer.filtered = FALSE
    BY <1>a, <1>b, <2>1, <2>2 DEF AnswerType
  <2> QED BY <2>1, <2>3 DEF EmptyInv, Retryable, Stream, Required
<1>7. CASE ConsumeStream /\ ~(\E o : End(o))
  <2>1. answer' = answer /\ request' = request /\ Stream
        /\ seen' = [text |-> Turn.text, thinking |-> Turn.thinking, tools |-> Turn.tools]
    BY <1>7 DEF ConsumeStream
  <2>2. answer.status = "ok" => TurnError(Turn) # "ok" /\ MayDefer(Turn)
    BY <1>7 DEF ConsumeStream, Answered
  <2>3. answer.status = "ok" => /\ Turn.tools = FALSE /\ Turn.filtered = FALSE
                                /\ Turn.text => Required
    BY <1>a, <2>2 DEF TurnError, MayDefer, TurnType
  <2>4. answer.status = "ok" => /\ answer.tools = FALSE /\ (answer.text => Required)
                                /\ answer.filtered => Turn.text
    BY <1>a, <1>b, <2>1, <2>3 DEF AnswerType, TurnType
  <2>5. Stream' = Stream /\ Required' = Required /\ seen'.text = Turn.text
    BY <2>1 DEF Stream, Required
  <2>6. answer.status = "ok" => Retryable'
    BY <2>1, <2>4, <2>5 DEF Retryable
  <2> QED BY <2>1, <2>6 DEF EmptyInv
<1>8. CASE ConsumeCancelled
  BY <1>5, <1>8 DEF ConsumeCancelled
<1> QED BY <1>1, <1>2, <1>3, <1>4, <1>6, <1>7, <1>8

LEMMA OnlyRetryable ==
  OutcomeInv /\ EmptyInv /\ [Next]_vars =>
    (Len(calls') > Len(calls) /\ calls # <<>> /\ answer.status = "ok" => Retryable)
<1> SUFFICES ASSUME OutcomeInv, EmptyInv, [Next]_vars, Len(calls') > Len(calls), calls # <<>>,
                    answer.status = "ok"
             PROVE  Retryable
  OBVIOUS
<1>0. calls' # calls
  BY LenProperties DEF OutcomeInv, Types
<1>1. CallAnswered
  <2>1. Next
    BY <1>0 DEF vars
  <2>2. ~ConsumeCollected /\ ~ConsumeStream /\ ~ConsumeCancelled
    BY <1>0 DEF ConsumeCollected, ConsumeStream, ConsumeCancelled
  <2> QED BY <1>0, <2>1, <2>2, AnswerIsKept
<1>2. At("call")
  BY <1>1 DEF CallAnswered
<1>3. outcomes = <<>> /\ plan # <<"consume">>
  BY <1>2, AtWork DEF OutcomeInv, At
<1> QED BY <1>3 DEF EmptyInv

(* Only an empty answer that no filter cut short is asked for again, on    *)
(* the same account or another; of a stream, also one that lacks the tool  *)
(* call the client required.                                               *)
THEOREM OnlyEmptyAnswersAskAgain == Spec => OnlyEmptyAnswersRetried
<1>1. Init => EmptyInv
  BY DEF Init, EmptyInv
<1>2. OutcomeInv /\ EmptyInv /\ [Next]_vars =>
        [Len(calls') > Len(calls) /\ calls # <<>> /\ answer.status = "ok" =>
           /\ ~ answer.tools
           /\ answer.text => Stream /\ Required
           /\ answer.filtered => answer.text \/ (Stream /\ seen.text)]_vars
  BY OnlyRetryable DEF Retryable
<1> QED BY <1>1, <1>2, OutcomeInit, OutcomeStep, EmptyStep, PTL DEF Spec, OnlyEmptyAnswersRetried

-----------------------------------------------------------------------------
(* What a call sends.                                                      *)

Files == Len(InputFiles)

(* Where the files of a start begin in its plan, and where its session is. *)
Base(p) == IF p = "switch" /\ Stream THEN 2 ELSE 0
SessionPlace(p) == IF p = "switch" /\ Stream THEN 1 ELSE 3 * Files + 1

(* What is left of the plan is the rest of the start, from one place on.   *)
Place == Len(PlanOf(program)) - Len(plan) + 1

OnPlan ==
    Working => /\ Place \in 1 .. Len(PlanOf(program))
               /\ \A i \in 1 .. Len(plan) : plan[i] = PlanOf(program)[Place + i - 1]

(* The references are the client's own and one for each of the first m     *)
(* context files.                                                          *)
RefsCover(m) ==
    /\ ClientRef \in draft.refs
    /\ \A q, r \in draft.refs : q.name = r.name => q = r
    /\ \A r \in draft.refs : r.name = "client" \/ \E i \in 1 .. m : r.name = InputFiles[i]
    /\ \A i \in 1 .. m : \E r \in draft.refs : r.name = InputFiles[i]

(* This start has uploaded d files.                                        *)
FilesDone(d) ==
    /\ d = 0 \/ Place > Base(program) + 3 * d
    /\ d = Files \/ Place <= Base(program) + 3 * d + 3
    /\ upload.left = IF d = Files THEN InputFiles
                     ELSE [i \in 1 .. Files - d |-> InputFiles[d + i]]
    /\ RefsCover(IF program = "start" THEN d ELSE Files)
    /\ program = "switch" =>
         \A i \in 1 .. d : \A r \in draft.refs : r.name = InputFiles[i] => r.by = "switch"

FileInv ==
    IF Working /\ program # "retry"
    THEN \E d \in 0 .. Files : FilesDone(d)
    ELSE Working \/ plan = <<"consume">> => RefsCover(Files) /\ upload.left = InputFiles

(* A start has a session of its own once it has passed that place; a retry *)
(* keeps the one of the answer.                                            *)
SessionInv ==
    /\ \A i \in DOMAIN calls : calls[i].session \in 1 .. Len(sessions)
    /\ calls # <<>> => payload.session = calls[Len(calls)].session
    /\ IF Working /\ program # "retry"
       THEN Place > SessionPlace(program) =>
              /\ draft.session # 0
              /\ \A i \in DOMAIN calls : calls[i].session < draft.session
       ELSE Working \/ plan = <<"consume">> => calls # <<>> /\ draft.session = payload.session

ProxyInv == At("upload") => upload.clients = caller.account

StayInv == OnPlan /\ FileInv /\ SessionInv /\ ProxyInv /\ StaysWithItsAccount

LEMMA FilesType == Files \in Nat /\ Len(UploadPlan) = 3 * Files /\ InputFiles \in Seq(STRING)
BY UploadPlanType DEF Files

(* Each file takes a proof of work, an upload and a wait.                  *)
LEMMA UploadPlace ==
  ASSUME NEW k \in 1 .. 3 * Files
  PROVE  \E d \in 0 .. Files - 1 :
           \/ k = 3 * d + 1 /\ UploadPlan[k] = "uploadpow"
           \/ k = 3 * d + 2 /\ UploadPlan[k] = "upload"
           \/ k = 3 * d + 3 /\ UploadPlan[k] = "poll"
<1> DEFINE d == (k - 1) \div 3
<1>1. Files \in Nat /\ k \in Int
  BY FilesType
<1>2. d \in 0 .. Files - 1 /\ (k = 3 * d + 1 \/ k = 3 * d + 2 \/ k = 3 * d + 3)
  BY <1>1
<1>3. UploadPlan[k] = <<"poll", "uploadpow", "upload">>[1 + (k % 3)]
  BY DEF UploadPlan, Files
<1>4. CASE k = 3 * d + 1
  <2>1. k % 3 = 1
    BY <1>1, <1>2, <1>4
  <2> QED BY <1>2, <1>3, <1>4, <2>1
<1>5. CASE k = 3 * d + 2
  <2>1. k % 3 = 2
    BY <1>1, <1>2, <1>5
  <2> QED BY <1>2, <1>3, <1>5, <2>1
<1>6. CASE k = 3 * d + 3
  <2>1. k % 3 = 0
    BY <1>1, <1>2, <1>6
  <2> QED BY <1>2, <1>3, <1>6, <2>1
<1> QED BY <1>2, <1>4, <1>5, <1>6

(* What stands where in the plan of a start.                               *)
LEMMA StageAt ==
  ASSUME NEW p \in Programs, NEW k \in 1 .. Len(PlanOf(p))
  PROVE  IF p = "retry"
         THEN /\ Len(PlanOf(p)) = 2
              /\ \/ k = 1 /\ PlanOf(p)[k] = "pow"
                 \/ k = 2 /\ PlanOf(p)[k] = "call"
         ELSE /\ Len(PlanOf(p)) = 3 * Files + 3
              /\ \/ k = 3 * Files + 3 /\ PlanOf(p)[k] = "call"
                 \/ k = SessionPlace(p) /\ PlanOf(p)[k] = "session"
                 \/ k = SessionPlace(p) + 1 /\ PlanOf(p)[k] = "pow"
                 \/ \E d \in 0 .. Files - 1 :
                      \/ k = Base(p) + 3 * d + 1 /\ PlanOf(p)[k] = "uploadpow"
                      \/ k = Base(p) + 3 * d + 2 /\ PlanOf(p)[k] = "upload"
                      \/ k = Base(p) + 3 * d + 3 /\ PlanOf(p)[k] = "poll"
<1>1. Files \in Nat /\ UploadPlan \in Seq(WorkStages) /\ Len(UploadPlan) = 3 * Files
  BY UploadPlanType DEF Files
<1>2. CASE p = "retry"
  <2>1. PlanOf(p) = <<"pow", "call">>
    BY <1>2 DEF PlanOf
  <2>2. /\ Len(PlanOf(p)) = 2 /\ PlanOf(p)[1] = "pow" /\ PlanOf(p)[2] = "call"
        /\ k \in {1, 2}
    BY <2>1
  <2> QED BY <1>2, <2>2
<1>3. CASE p # "retry" /\ ~(p = "switch" /\ Stream)
  <2> DEFINE rest == <<"session", "pow", "call">>
  <2>1. rest \in Seq(WorkStages) /\ Len(rest) = 3
        /\ rest[1] = "session" /\ rest[2] = "pow" /\ rest[3] = "call"
    BY DEF WorkStages
  <2>2. PlanOf(p) = UploadPlan \o rest
    BY <1>3 DEF PlanOf, Programs, CollectedSwitchPlan, ReuploadPlan
  <2> HIDE DEF rest
  <2>a. /\ Len(UploadPlan \o rest) = Len(UploadPlan) + Len(rest)
        /\ \A i \in 1 .. Len(UploadPlan) + Len(rest) :
             (UploadPlan \o rest)[i] = IF i <= Len(UploadPlan) THEN UploadPlan[i]
                                      ELSE rest[i - Len(UploadPlan)]
    BY <1>1, <2>1, ConcatProperties
  <2>3. /\ Len(PlanOf(p)) = 3 * Files + 3
        /\ \A i \in 1 .. 3 * Files + 3 :
             PlanOf(p)[i] = IF i <= 3 * Files THEN UploadPlan[i] ELSE rest[i - 3 * Files]
    BY <1>1, <2>1, <2>2, <2>a
  <2>4. Base(p) = 0 /\ SessionPlace(p) = 3 * Files + 1
    BY <1>3 DEF Base, SessionPlace
  <2>5. CASE k <= 3 * Files
    <3>1. PlanOf(p)[k] = UploadPlan[k] /\ k \in 1 .. 3 * Files
      BY <1>1, <2>3, <2>5
    <3>2. PICK d \in 0 .. Files - 1 :
            \/ k = 3 * d + 1 /\ UploadPlan[k] = "uploadpow"
            \/ k = 3 * d + 2 /\ UploadPlan[k] = "upload"
            \/ k = 3 * d + 3 /\ UploadPlan[k] = "poll"
      BY <3>1, UploadPlace
    <3>3. \/ k = Base(p) + 3 * d + 1 /\ PlanOf(p)[k] = "uploadpow"
          \/ k = Base(p) + 3 * d + 2 /\ PlanOf(p)[k] = "upload"
          \/ k = Base(p) + 3 * d + 3 /\ PlanOf(p)[k] = "poll"
      BY <1>1, <2>4, <3>1, <3>2
    <3> QED BY <1>3, <2>3, <3>3
  <2>6. CASE ~(k <= 3 * Files)
    <3>1. k \in {3 * Files + 1, 3 * Files + 2, 3 * Files + 3}
      BY <1>1, <2>3, <2>6
    <3>2. PlanOf(p)[k] = rest[k - 3 * Files]
      BY <1>1, <2>3, <2>6
    <3>3. k = 3 * Files + 1 => PlanOf(p)[k] = "session"
      BY <1>1, <2>1, <3>2
    <3>4. k = 3 * Files + 2 => PlanOf(p)[k] = "pow"
      BY <1>1, <2>1, <3>2
    <3>5. k = 3 * Files + 3 => PlanOf(p)[k] = "call"
      BY <1>1, <2>1, <3>2
    <3> QED BY <1>1, <1>3, <2>3, <2>4, <3>1, <3>3, <3>4, <3>5
  <2> QED BY <2>5, <2>6
<1>4. CASE p = "switch" /\ Stream
  <2> DEFINE first == <<"session", "pow">>
             last == <<"call">>
  <2>1. /\ first \in Seq(WorkStages) /\ Len(first) = 2
        /\ first[1] = "session" /\ first[2] = "pow"
        /\ last \in Seq(WorkStages) /\ Len(last) = 1 /\ last[1] = "call"
    BY DEF WorkStages
  <2>2. PlanOf(p) = first \o UploadPlan \o last
    BY <1>4 DEF PlanOf, StreamSwitchPlan, ReuploadPlan
  <2> HIDE DEF first, last
  <2>a. /\ first \o UploadPlan \in Seq(WorkStages)
        /\ Len(first \o UploadPlan) = Len(first) + Len(UploadPlan)
        /\ \A i \in 1 .. Len(first) + Len(UploadPlan) :
             (first \o UploadPlan)[i] = IF i <= Len(first) THEN first[i]
                                       ELSE UploadPlan[i - Len(first)]
    BY <1>1, <2>1, ConcatProperties
  <2>3. /\ first \o UploadPlan \in Seq(WorkStages) /\ Len(first \o UploadPlan) = 2 + 3 * Files
        /\ \A i \in 1 .. 2 + 3 * Files :
             (first \o UploadPlan)[i] = IF i <= 2 THEN first[i] ELSE UploadPlan[i - 2]
    BY <1>1, <2>1, <2>a
  <2> DEFINE most == first \o UploadPlan
  <2> HIDE DEF most
  <2>b. /\ most \in Seq(WorkStages) /\ Len(most) = 2 + 3 * Files /\ PlanOf(p) = most \o last
        /\ \A i \in 1 .. 2 + 3 * Files : most[i] = IF i <= 2 THEN first[i] ELSE UploadPlan[i - 2]
    BY <2>2, <2>3 DEF most
  <2>c. /\ Len(most \o last) = Len(most) + Len(last)
        /\ \A i \in 1 .. Len(most) + Len(last) :
             (most \o last)[i] = IF i <= Len(most) THEN most[i] ELSE last[i - Len(most)]
    BY <2>1, <2>b, ConcatProperties
  <2>4. /\ Len(PlanOf(p)) = 3 * Files + 3
        /\ \A i \in 1 .. 3 * Files + 3 :
             PlanOf(p)[i] = IF i <= 2 + 3 * Files THEN most[i]
                            ELSE last[i - (2 + 3 * Files)]
    BY <1>1, <2>1, <2>b, <2>c
  <2>5. Base(p) = 2 /\ SessionPlace(p) = 1
    BY <1>4 DEF Base, SessionPlace
  <2>6. CASE k <= 2
    <3>1. k \in {1, 2} /\ PlanOf(p)[k] = first[k]
      BY <1>1, <2>b, <2>4, <2>6
    <3> QED BY <1>1, <1>4, <2>1, <2>4, <2>5, <3>1
  <2>7. CASE k > 2 /\ k <= 3 * Files + 2
    <3>1. k - 2 \in 1 .. 3 * Files /\ PlanOf(p)[k] = UploadPlan[k - 2]
      BY <1>1, <2>b, <2>4, <2>7
    <3>2. PICK d \in 0 .. Files - 1 :
            \/ k - 2 = 3 * d + 1 /\ UploadPlan[k - 2] = "uploadpow"
            \/ k - 2 = 3 * d + 2 /\ UploadPlan[k - 2] = "upload"
            \/ k - 2 = 3 * d + 3 /\ UploadPlan[k - 2] = "poll"
      BY <3>1, UploadPlace
    <3>3. \/ k = Base(p) + 3 * d + 1 /\ PlanOf(p)[k] = "uploadpow"
          \/ k = Base(p) + 3 * d + 2 /\ PlanOf(p)[k] = "upload"
          \/ k = Base(p) + 3 * d + 3 /\ PlanOf(p)[k] = "poll"
      BY <1>1, <2>4, <2>5, <3>1, <3>2
    <3> QED BY <1>4, <2>4, <3>3
  <2>8. CASE k = 3 * Files + 3
    <3>1. PlanOf(p)[k] = last[1]
      BY <1>1, <2>4, <2>8
    <3> QED BY <1>4, <2>1, <2>4, <2>8, <3>1
  <2> QED BY <1>1, <2>4, <2>6, <2>7, <2>8
<1> QED BY <1>2, <1>3, <1>4

LEMMA SamePlan ==
  ASSUME UNCHANGED <<program, request>>
  PROVE  /\ PlanOf(program)' = PlanOf(program)
         /\ Base(program)' = Base(program) /\ SessionPlace(program)' = SessionPlace(program)
BY DEF PlanOf, Base, SessionPlace, Stream, StreamSwitchPlan, CollectedSwitchPlan, UploadPlan,
       ReuploadPlan, Files

LEMMA PlanLength ==
  ASSUME Types
  PROVE  Len(PlanOf(program)) \in Nat /\ Files \in Nat
BY PlansWork, LenProperties, FilesType DEF Types

LEMMA HeadAt ==
  ASSUME Types, Working, OnPlan
  PROVE  /\ Len(plan) \in Nat \ {0} /\ Place \in 1 .. Len(PlanOf(program))
         /\ Head(plan) = PlanOf(program)[Place]
         /\ Head(plan) = "call" => Len(plan) = 1
<1>1. Len(plan) \in Nat \ {0} /\ Head(plan) = plan[1]
  BY LenProperties, EmptySeq, HeadTailProperties DEF Working
<1>2. /\ Len(PlanOf(program)) \in Nat /\ Place \in 1 .. Len(PlanOf(program)) /\ Files \in Nat
      /\ program \in Programs
  BY PlanLength DEF OnPlan, Types
<1>3. plan[1] = PlanOf(program)[Place + 1 - 1] /\ Place + 1 - 1 = Place
  BY <1>1, <1>2 DEF OnPlan
<1>4. Head(plan) = PlanOf(program)[Place]
  BY <1>1, <1>3
<1>5. ASSUME Head(plan) = "call" PROVE Len(plan) = 1
  <2>1. Place = Len(PlanOf(program))
    <3>1. CASE program = "retry"
      BY <1>2, <1>4, <1>5, <3>1, StageAt
    <3>2. CASE program # "retry"
      BY <1>2, <1>4, <1>5, <3>2, StageAt
    <3> QED BY <3>1, <3>2
  <2>2. Len(plan) = Len(PlanOf(program)) - Place + 1
    BY <1>1, <1>2 DEF Place
  <2> QED BY <1>2, <2>1, <2>2
<1> QED BY <1>1, <1>2, <1>4, <1>5

LEMMA UploadComesNext ==
  ASSUME NEW p \in Programs, NEW k \in 1 .. Len(PlanOf(p)) - 1, PlanOf(p)[k + 1] = "upload"
  PROVE  PlanOf(p)[k] = "uploadpow"
<1>1. Len(PlanOf(p)) \in Nat /\ Files \in Nat
  BY PlansWork, LenProperties, FilesType
<1>2. k \in 1 .. Len(PlanOf(p)) /\ k + 1 \in 1 .. Len(PlanOf(p))
  BY <1>1
<1>3. p # "retry"
  BY <1>1, <1>2, StageAt
<1>4. PICK d \in 0 .. Files - 1 : k + 1 = Base(p) + 3 * d + 2
  BY <1>1, <1>2, <1>3, StageAt
<1>5. \/ Base(p) = 0 /\ SessionPlace(p) = 3 * Files + 1
      \/ Base(p) = 2 /\ SessionPlace(p) = 1
  BY DEF Base, SessionPlace
<1>6. PICK e \in 0 .. Files - 1 :
        \/ k = Base(p) + 3 * e + 1 /\ PlanOf(p)[k] = "uploadpow"
        \/ k = Base(p) + 3 * e + 2 /\ PlanOf(p)[k] = "upload"
        \/ k = Base(p) + 3 * e + 3 /\ PlanOf(p)[k] = "poll"
  <2>1. k # 3 * Files + 3 /\ k # SessionPlace(p) /\ k # SessionPlace(p) + 1
    BY <1>1, <1>4, <1>5
  <2> QED BY <1>2, <1>3, <2>1, StageAt
<1> QED BY <1>1, <1>4, <1>5, <1>6

(* The next operation, ...                                                 *)
LEMMA Advance ==
  ASSUME Types, Working, OnPlan, Head(plan) # "call", plan' = Tail(plan),
         UNCHANGED <<program, request>>
  PROVE  /\ Place' = Place + 1 /\ OnPlan' /\ Working'
         /\ Head(plan') = "upload" => Head(plan) = "uploadpow"
<1>1. /\ Len(PlanOf(program)) \in Nat /\ Len(plan) \in Nat \ {0}
      /\ Place \in 1 .. Len(PlanOf(program))
      /\ \A i \in 1 .. Len(plan) : plan[i] = PlanOf(program)[Place + i - 1]
  BY PlanLength, HeadAt DEF OnPlan
<1>2. /\ Len(plan') = Len(plan) - 1
      /\ \A i \in 1 .. Len(plan) - 1 : plan'[i] = plan[i + 1]
  BY <1>1, HeadTailProperties, EmptySeq DEF Working
<1>3. Working' /\ Len(plan') # 0
  <2>1. /\ plan' \in Seq(WorkStages) /\ plan' # <<>> /\ plan'[Len(plan')] = "call"
    BY WorkTail
  <2> QED BY <2>1, EmptySeq, LenProperties DEF Working
<1>4. Place' = Place + 1
  <2>1. Place' = Len(PlanOf(program)) - Len(plan') + 1
    BY SamePlan DEF Place
  <2>2. Place = Len(PlanOf(program)) - Len(plan) + 1
    BY DEF Place
  <2> QED BY <1>1, <1>2, <2>1, <2>2
<1>5. Place + 1 \in 1 .. Len(PlanOf(program))
  BY <1>1, <1>2, <1>3 DEF Place
<1>6. ASSUME NEW i \in 1 .. Len(plan')
      PROVE  plan'[i] = PlanOf(program)[Place + 1 + i - 1]
  <2>1. i \in Nat /\ i + 1 \in 1 .. Len(plan) /\ i \in 1 .. Len(plan) - 1
    BY <1>1, <1>2
  <2>2. Place + (i + 1) - 1 = Place + 1 + i - 1
    BY <1>1, <2>1
  <2> QED BY <1>1, <1>2, <2>1, <2>2
<1>7. ASSUME Head(plan') = "upload" PROVE Head(plan) = "uploadpow"
  <2>a. Place + 1 + 1 - 1 = Place + 1 /\ 1 \in 1 .. Len(plan')
    BY <1>1, <1>2, <1>3
  <2>1. plan'[1] = PlanOf(program)[Place + 1]
    BY <1>6, <2>a
  <2>2. Head(plan') = plan'[1]
    BY <1>3, HeadTailProperties, EmptySeq DEF Working
  <2>3. PlanOf(program)[Place + 1] = "upload"
    BY <1>7, <2>1, <2>2
  <2>4. Place \in 1 .. Len(PlanOf(program)) - 1
    BY <1>1, <1>5
  <2> QED BY <2>3, <2>4, HeadAt, UploadComesNext DEF Types
<1> QED BY <1>3, <1>4, <1>5, <1>6, <1>7, SamePlan DEF OnPlan

(* ... the same again, ...                                                 *)
LEMMA Unmoved ==
  ASSUME OnPlan, UNCHANGED <<plan, program, request>>
  PROVE  Place' = Place /\ OnPlan' /\ Working' = Working
BY SamePlan DEF OnPlan, Place, Working

(* ... the proof of work of a refused upload, ...                          *)
LEMMA BackOne ==
  ASSUME Types, Working, OnPlan, Head(plan) = "upload", plan' = <<"uploadpow">> \o plan,
         UNCHANGED <<program, request>>
  PROVE  Place' = Place - 1 /\ OnPlan' /\ Working' /\ Head(plan') = "uploadpow"
<1> DEFINE first == <<"uploadpow">>
<1>1. /\ Len(PlanOf(program)) \in Nat /\ Len(plan) \in Nat \ {0} /\ Files \in Nat
      /\ Place \in 1 .. Len(PlanOf(program)) /\ PlanOf(program)[Place] = "upload"
      /\ \A i \in 1 .. Len(plan) : plan[i] = PlanOf(program)[Place + i - 1]
      /\ program \in Programs /\ plan \in Seq(WorkStages)
  BY PlanLength, HeadAt DEF OnPlan, Types, Working
<1>2. program # "retry"
  BY <1>1, StageAt
<1>3. PICK d \in 0 .. Files - 1 : Place = Base(program) + 3 * d + 2
  BY <1>1, <1>2, StageAt
<1>4. Base(program) \in {0, 2}
  BY DEF Base
<1>5. Place - 1 \in 1 .. Len(PlanOf(program)) /\ PlanOf(program)[Place - 1] = "uploadpow"
  <2>1. Place - 1 \in 1 .. Len(PlanOf(program)) /\ Place - 1 = Base(program) + 3 * d + 1
    BY <1>1, <1>3, <1>4
  <2>2. Len(PlanOf(program)) = 3 * Files + 3
    BY <1>1, <1>2, StageAt
  <2>3. /\ Place - 1 # 3 * Files + 3
        /\ Place - 1 # SessionPlace(program) /\ Place - 1 # SessionPlace(program) + 1
    BY <1>1, <1>3, <1>4, <2>1 DEF SessionPlace, Base
  <2>4. PICK e \in 0 .. Files - 1 :
          \/ Place - 1 = Base(program) + 3 * e + 1 /\ PlanOf(program)[Place - 1] = "uploadpow"
          \/ Place - 1 = Base(program) + 3 * e + 2 /\ PlanOf(program)[Place - 1] = "upload"
          \/ Place - 1 = Base(program) + 3 * e + 3 /\ PlanOf(program)[Place - 1] = "poll"
    BY <1>1, <1>2, <2>1, <2>3, StageAt
  <2> QED BY <1>1, <1>4, <2>1, <2>4
<1>6. /\ first \in Seq(WorkStages) /\ plan \in Seq(WorkStages)
      /\ Len(first) = 1 /\ first[1] = "uploadpow"
  <2>1. plan[1] \in WorkStages /\ plan[1] = "upload"
    BY <1>1, ElementOfSeq, HeadTailProperties, EmptySeq
  <2> QED BY <1>1, <2>1 DEF WorkStages
<1> HIDE DEF first
<1>7. /\ Len(first \o plan) = Len(first) + Len(plan)
      /\ \A i \in 1 .. Len(first) + Len(plan) :
           (first \o plan)[i] = IF i <= Len(first) THEN first[i] ELSE plan[i - Len(first)]
  BY <1>6, ConcatProperties
<1>8. /\ Len(plan') = 1 + Len(plan) /\ plan'[1] = "uploadpow"
      /\ \A i \in 2 .. 1 + Len(plan) : plan'[i] = plan[i - 1]
  BY <1>1, <1>6, <1>7 DEF first
<1>9. Working'
  <2>1. /\ plan' \in Seq(WorkStages) /\ plan' # <<>> /\ plan'[Len(plan')] = "call"
    BY WorkPrepend
  <2> QED BY <2>1 DEF Working
<1>10. Place' = Place - 1
  <2>1. Place' = Len(PlanOf(program)) - Len(plan') + 1
    BY SamePlan DEF Place
  <2>2. Place = Len(PlanOf(program)) - Len(plan) + 1
    BY DEF Place
  <2> QED BY <1>1, <1>8, <2>1, <2>2
<1>11. ASSUME NEW i \in 1 .. Len(plan')
       PROVE  plan'[i] = PlanOf(program)[Place - 1 + i - 1]
  <2>1. CASE i = 1
    BY <1>1, <1>5, <1>8, <2>1
  <2>2. CASE i # 1
    <3>1. i - 1 \in 1 .. Len(plan) /\ i \in 2 .. 1 + Len(plan)
      BY <1>1, <1>8, <2>2
    <3>2. Place + (i - 1) - 1 = Place - 1 + i - 1
      BY <1>1, <3>1
    <3> QED BY <1>1, <1>8, <3>1, <3>2
  <2> QED BY <2>1, <2>2
<1>12. Head(plan') = "uploadpow"
  BY <1>8, <1>9, HeadTailProperties DEF Working
<1> QED BY <1>5, <1>9, <1>10, <1>11, <1>12, SamePlan DEF OnPlan

(* ... or a new start.                                                     *)
LEMMA NewPlan ==
  ASSUME Types, UNCHANGED request, program' \in Programs, plan' = PlanOf(program')
  PROVE  Place' = 1 /\ OnPlan' /\ Working' /\ Head(plan') # "upload"
<1>1. /\ PlanOf(program') \in Seq(WorkStages) /\ plan' # <<>> /\ plan'[Len(plan')] = "call"
      /\ Len(plan') \in Nat \ {0} /\ Files \in Nat
  BY PlansWork, LenProperties, EmptySeq, FilesType
<1>2. PlanOf(program)' = PlanOf(program')
  BY DEF PlanOf, Stream, StreamSwitchPlan, CollectedSwitchPlan, UploadPlan, ReuploadPlan
<1>3. Place' = 1
  BY <1>1, <1>2 DEF Place
<1>4. OnPlan' /\ Working'
  BY <1>1, <1>2, <1>3 DEF OnPlan, Working
<1>5. Head(plan') = PlanOf(program')[1] /\ 1 \in 1 .. Len(PlanOf(program'))
  BY <1>1, HeadTailProperties
<1>6. PlanOf(program')[1] # "upload"
  <2>1. CASE program' = "retry"
    BY <1>5, <2>1, StageAt
  <2>2. CASE program' # "retry"
    <3>1. 1 = SessionPlace(program') \/ Base(program') = 0
      BY DEF SessionPlace, Base
    <3>2. 1 = Base(program') + 3 * 0 + 1 \/ 1 # 0
      OBVIOUS
    <3>3. SessionPlace(program') \in Nat /\ Base(program') \in Nat
      BY <1>1 DEF SessionPlace, Base
    <3> QED BY <1>1, <1>5, <2>2, <3>1, <3>3, StageAt, SMTT(30)
  <2> QED BY <2>1, <2>2
<1> QED BY <1>3, <1>4, <1>5, <1>6

(* Where a stage stands says how far the files are.                        *)
LEMMA StagePlace ==
  ASSUME Types, Working, OnPlan, program # "retry"
  PROVE  /\ Files \in Nat /\ Base(program) \in {0, 2} /\ SessionPlace(program) \in Nat
         /\ Place \in 1 .. 3 * Files + 3
         /\ Head(plan) = "call" => Place = 3 * Files + 3
         /\ Head(plan) = "call" => Place > SessionPlace(program)
         /\ Head(plan) # "session" => Place # SessionPlace(program)
         /\ Head(plan) = "poll" => \E d \in 0 .. Files - 1 : Place = Base(program) + 3 * d + 3
         /\ Head(plan) = "upload" => \E d \in 0 .. Files - 1 : Place = Base(program) + 3 * d + 2
         /\ Head(plan) # "poll" =>
              \A d \in 0 .. Files - 1 : Place # Base(program) + 3 * d + 3
<1>1. /\ Place \in 1 .. Len(PlanOf(program)) /\ Head(plan) = PlanOf(program)[Place]
      /\ Files \in Nat /\ program \in Programs
  BY HeadAt, PlanLength DEF Types
<1>2. /\ Len(PlanOf(program)) = 3 * Files + 3
      /\ \/ Place = 3 * Files + 3 /\ PlanOf(program)[Place] = "call"
         \/ Place = SessionPlace(program) /\ PlanOf(program)[Place] = "session"
         \/ Place = SessionPlace(program) + 1 /\ PlanOf(program)[Place] = "pow"
         \/ \E d \in 0 .. Files - 1 :
              \/ Place = Base(program) + 3 * d + 1 /\ PlanOf(program)[Place] = "uploadpow"
              \/ Place = Base(program) + 3 * d + 2 /\ PlanOf(program)[Place] = "upload"
              \/ Place = Base(program) + 3 * d + 3 /\ PlanOf(program)[Place] = "poll"
  BY <1>1, StageAt
<1>3. \/ Base(program) = 0 /\ SessionPlace(program) = 3 * Files + 1
      \/ Base(program) = 2 /\ SessionPlace(program) = 1
  BY DEF Base, SessionPlace
<1>4. CASE Place = 3 * Files + 3 /\ PlanOf(program)[Place] = "call"
  BY <1>1, <1>2, <1>3, <1>4
<1>5. CASE Place = SessionPlace(program) /\ PlanOf(program)[Place] = "session"
  BY <1>1, <1>2, <1>3, <1>5
<1>6. CASE Place = SessionPlace(program) + 1 /\ PlanOf(program)[Place] = "pow"
  BY <1>1, <1>2, <1>3, <1>6
<1>7. ASSUME NEW d \in 0 .. Files - 1,
             \/ Place = Base(program) + 3 * d + 1 /\ PlanOf(program)[Place] = "uploadpow"
             \/ Place = Base(program) + 3 * d + 2 /\ PlanOf(program)[Place] = "upload"
             \/ Place = Base(program) + 3 * d + 3 /\ PlanOf(program)[Place] = "poll"
      PROVE  /\ Head(plan) # "call" /\ Head(plan) # "session"
             /\ Place # SessionPlace(program)
             /\ Head(plan) = "poll" => Place = Base(program) + 3 * d + 3
             /\ Head(plan) = "upload" => Place = Base(program) + 3 * d + 2
             /\ Head(plan) # "poll" =>
                  \A e \in 0 .. Files - 1 : Place # Base(program) + 3 * e + 3
  BY <1>1, <1>3, <1>7
<1> QED BY <1>1, <1>2, <1>3, <1>4, <1>5, <1>6, <1>7

(* The caller was told, and no more calls are made.                        *)
LEMMA ToldStays ==
  ASSUME StayInv, plan # <<>>, plan' = <<"delete">>, UNCHANGED <<calls, payload, sessions>>,
         wire'.kind \in {"upload", "call"} => wire'.clients = wire'.token
  PROVE  StayInv'
<1>1. ~Working' /\ plan' # <<"consume">> /\ plan' # <<>> /\ ~At("upload")'
  BY DEF Working, At
<1>2. OnPlan' /\ FileInv' /\ ProxyInv'
  BY <1>1 DEF OnPlan, FileInv, ProxyInv
<1>3. SessionInv'
  BY <1>1 DEF StayInv, SessionInv
<1>4. StaysWithItsAccount'
  BY <1>1 DEF StayInv, StaysWithItsAccount, RetryContinuesItsSession, RefsReplacedNotAdded,
       UploadsAndCallsUseOwnProxy, DeletesTheServedSession
<1> QED BY <1>2, <1>3, <1>4 DEF StayInv

(* It is still on its way to a call.                                       *)
LEMMA WorksOn ==
  ASSUME StayInv, Working, Working', UNCHANGED <<program, request, calls, payload, sessions>>,
         OnPlan', FileInv', ProxyInv', draft'.session = draft.session,
         program # "retry" /\ Place' > SessionPlace(program) => Place > SessionPlace(program),
         wire'.kind \in {"upload", "call"} => wire'.clients = wire'.token
  PROVE  StayInv'
<1>1. plan' # <<>> /\ SessionPlace(program)' = SessionPlace(program)
  BY SamePlan DEF Working
<1>2. SessionInv'
  BY <1>1 DEF StayInv, SessionInv
<1>3. StaysWithItsAccount'
  BY <1>1 DEF StayInv, StaysWithItsAccount, RetryContinuesItsSession, RefsReplacedNotAdded,
       UploadsAndCallsUseOwnProxy, DeletesTheServedSession
<1> QED BY <1>2, <1>3 DEF StayInv

(* The files stay as they are.                                             *)
LEMMA FilesKept ==
  ASSUME Working, Working', FileInv, UNCHANGED <<program, request>>,
         upload'.left = upload.left, draft'.refs = draft.refs,
         program # "retry" =>
           \A d \in 0 .. Files : FilesDone(d) =>
             /\ d = 0 \/ Place' > Base(program) + 3 * d
             /\ d = Files \/ Place' <= Base(program) + 3 * d + 3
  PROVE  FileInv'
<1>0. Files' = Files /\ Base(program)' = Base(program)
  BY SamePlan DEF Files
<1>1. ASSUME NEW m PROVE RefsCover(m)' <=> RefsCover(m)
  BY DEF RefsCover
<1>2. CASE program = "retry"
  BY <1>0, <1>1, <1>2 DEF FileInv
<1>3. CASE program # "retry"
  <2>1. PICK d \in 0 .. Files : FilesDone(d)
    BY <1>3 DEF FileInv
  <2>2. FilesDone(d)'
    BY <1>0, <1>1, <1>3, <2>1 DEF FilesDone
  <2> QED BY <1>0, <1>3, <2>2 DEF FileInv
<1> QED BY <1>2, <1>3

(* An operation that is neither the session nor the wait for a file is     *)
(* done.                                                                   *)
LEMMA NextStage ==
  ASSUME OutcomeInv, StayInv, Working, Head(plan) \notin {"call", "session", "poll"},
         plan' = Tail(plan), UNCHANGED <<program, request, calls, payload, sessions>>,
         upload'.left = upload.left, draft'.refs = draft.refs, draft'.session = draft.session,
         Head(plan) = "uploadpow" => upload'.clients = caller'.account,
         wire'.kind \in {"upload", "call"} => wire'.clients = wire'.token
  PROVE  StayInv'
<1>1. Types /\ OnPlan /\ FileInv
  BY DEF OutcomeInv, StayInv
<1>2. Place' = Place + 1 /\ OnPlan' /\ Working'
  BY <1>1, Advance
<1>3. FileInv'
  <2>1. ASSUME program # "retry", NEW d \in 0 .. Files, FilesDone(d)
        PROVE  /\ d = 0 \/ Place' > Base(program) + 3 * d
               /\ d = Files \/ Place' <= Base(program) + 3 * d + 3
    <3>1. /\ Files \in Nat /\ Base(program) \in {0, 2} /\ Place \in 1 .. 3 * Files + 3
          /\ \A e \in 0 .. Files - 1 : Place # Base(program) + 3 * e + 3
      BY <1>1, <2>1, StagePlace
    <3>2. /\ d = 0 \/ Place > Base(program) + 3 * d
          /\ d = Files \/ Place <= Base(program) + 3 * d + 3
      BY <2>1 DEF FilesDone
    <3> QED BY <1>2, <3>1, <3>2
  <2> QED BY <1>1, <1>2, <2>1, FilesKept
<1>4. ProxyInv'
  <2> SUFFICES ASSUME At("upload")' PROVE upload'.clients = caller'.account
    BY DEF ProxyInv
  <2>1. Head(plan) = "uploadpow"
    BY <1>1, Advance DEF At
  <2> QED BY <2>1
<1>5. program # "retry" /\ Place' > SessionPlace(program) => Place > SessionPlace(program)
  <2> SUFFICES ASSUME program # "retry", Place' > SessionPlace(program)
               PROVE  Place > SessionPlace(program)
    OBVIOUS
  <2>1. SessionPlace(program) \in Nat /\ Place # SessionPlace(program) /\ Place \in 1 .. 3 * Files + 3
        /\ Files \in Nat
    BY <1>1, StagePlace
  <2> QED BY <1>2, <2>1
<1> QED BY <1>2, <1>3, <1>4, <1>5, WorksOn
LEMMA FilesWait ==
  ASSUME Types, FileInv, Working, Working', Place' = Place, UNCHANGED <<program, request>>,
         upload'.left = upload.left, draft'.refs = draft.refs
  PROVE  FileInv'
BY FilesKept DEF FilesDone

LEMMA AttemptFailsStays ==
  ASSUME OutcomeInv, StayInv, NEW stage \in {"session", "pow", "uploadpow"}, AttemptFails(stage)
  PROVE  StayInv'
<1>0. /\ Types /\ OnPlan /\ FileInv /\ outcomes = <<>> /\ Working
      /\ plan # <<>> /\ Head(plan) = stage
  BY AtWork DEF OutcomeInv, StayInv, AttemptFails, At
<1>1. /\ UNCHANGED <<program, upload, sessions, draft, payload, request, calls>>
      /\ wire' = [kind |-> stage, token |-> caller.account, clients |-> op.clients]
  BY DEF AttemptFails
<1>2. wire'.kind \notin {"upload", "call"}
  BY <1>1
<1>3. PICK reply \in Replies : \E r \in Recoveries(caller, op, reply, FALSE) :
        /\ caller' = r[1]
        /\ IF r[2].attempts < MaxAttempts
           THEN op' = r[2] /\ UNCHANGED <<plan, outcomes>>
           ELSE GiveUp(stage)
  BY DEF AttemptFails
<1>4. UNCHANGED plan \/ GiveUp(stage)
  BY <1>3
<1>5. CASE UNCHANGED plan
  <2>1. Place' = Place /\ OnPlan' /\ Working'
    BY <1>0, <1>1, <1>5, Unmoved
  <2>2. FileInv'
    BY <1>0, <1>1, <2>1, FilesWait
  <2>3. ProxyInv'
    BY <1>0, <1>5 DEF ProxyInv, At
  <2> QED BY <1>0, <1>1, <1>2, <2>1, <2>2, <2>3, WorksOn
<1>6. CASE GiveUp(stage) /\ stage = "pow" /\ program = "retry"
  <2>1. plan' = Tail(plan)
    BY <1>6 DEF GiveUp
  <2> QED BY <1>0, <1>1, <1>2, <1>6, <2>1, NextStage
<1>7. CASE GiveUp(stage) /\ ~(stage = "pow" /\ program = "retry")
  <2>1. plan' = <<"delete">>
    BY <1>7 DEF GiveUp, End
  <2> QED BY <1>0, <1>1, <1>2, <2>1, ToldStays
<1> QED BY <1>4, <1>5, <1>6, <1>7

LEMMA CreateSessionStays ==
  ASSUME OutcomeInv, StayInv, CreateSession
  PROVE  StayInv'
<1>0. Types /\ OnPlan /\ FileInv /\ SessionInv /\ Working /\ Head(plan) = "session"
  BY AtWork DEF OutcomeInv, StayInv, CreateSession, Succeeds, At
<1>1. /\ UNCHANGED <<program, upload, payload, request, calls>> /\ plan' = Tail(plan)
      /\ wire'.kind = "session"
      /\ sessions' = Append(sessions, caller.account)
      /\ draft' = [draft EXCEPT !.session = Len(sessions')]
  BY DEF CreateSession, Succeeds
<1>2. Place' = Place + 1 /\ OnPlan' /\ Working' /\ Head(plan') # "upload"
  BY <1>0, <1>1, Advance
<1>3. /\ Len(sessions') = Len(sessions) + 1 /\ Len(sessions) \in Nat
      /\ draft'.session = Len(sessions') /\ draft'.refs = draft.refs
  <2>1. Len(sessions') = Len(sessions) + 1 /\ Len(sessions) \in Nat
    BY <1>0, <1>1, AppendProperties, LenProperties DEF Types, Caller
  <2> QED BY <1>0, <1>1, <2>1 DEF Types, Start
<1>4. program # "retry"
  <2>1. /\ Place \in 1 .. Len(PlanOf(program)) /\ Head(plan) = PlanOf(program)[Place]
        /\ program \in Programs
    BY <1>0, HeadAt DEF Types
  <2> QED BY <1>0, <2>1, StageAt
<1>5. FileInv'
  <2>1. ASSUME NEW d \in 0 .. Files, FilesDone(d)
        PROVE  /\ d = 0 \/ Place' > Base(program) + 3 * d
               /\ d = Files \/ Place' <= Base(program) + 3 * d + 3
    <3>1. /\ Files \in Nat /\ Base(program) \in {0, 2} /\ Place \in 1 .. 3 * Files + 3
          /\ \A e \in 0 .. Files - 1 : Place # Base(program) + 3 * e + 3
      BY <1>0, <1>4, StagePlace
    <3>2. /\ d = 0 \/ Place > Base(program) + 3 * d
          /\ d = Files \/ Place <= Base(program) + 3 * d + 3
      BY <2>1 DEF FilesDone
    <3> QED BY <1>2, <3>1, <3>2
  <2> QED BY <1>0, <1>1, <1>2, <1>3, <2>1, FilesKept
<1>6. SessionInv'
  <2>1. \A i \in DOMAIN calls : calls[i].session \in 1 .. Len(sessions)
    BY <1>0 DEF SessionInv
  <2>2. \A i \in DOMAIN calls : calls[i].session \in 1 .. Len(sessions')
                                /\ calls[i].session < draft'.session
    BY <1>3, <2>1
  <2>3. draft'.session # 0
    BY <1>3
  <2> QED BY <1>0, <1>1, <1>2, <1>4, <2>2, <2>3 DEF SessionInv
<1>7. StaysWithItsAccount' /\ ProxyInv'
  BY <1>1, <1>2 DEF StayInv, StaysWithItsAccount, RetryContinuesItsSession, RefsReplacedNotAdded,
       UploadsAndCallsUseOwnProxy, DeletesTheServedSession, ProxyInv, At, Working
<1> QED BY <1>2, <1>5, <1>6, <1>7 DEF StayInv

LEMMA PowStays ==
  ASSUME OutcomeInv, StayInv, GetPow \/ UploadPow
  PROVE  StayInv'
<1>0. /\ Types /\ Working
      /\ \/ GetPow /\ Head(plan) = "pow"
         \/ UploadPow /\ Head(plan) = "uploadpow"
  BY AtWork DEF OutcomeInv, GetPow, UploadPow, Succeeds, At
<1>1. /\ UNCHANGED <<caller, program, payload, request, calls, sessions>> /\ plan' = Tail(plan)
      /\ wire'.kind \in {"pow", "uploadpow"}
  BY DEF GetPow, UploadPow, Succeeds
<1>2. /\ upload'.left = upload.left /\ draft'.refs = draft.refs
      /\ draft'.session = draft.session
      /\ Head(plan) = "uploadpow" => upload'.clients = caller'.account
  BY <1>0, <1>1 DEF GetPow, UploadPow, Types, Start, Upload
<1> QED BY <1>0, <1>1, <1>2, NextStage

LEMMA UploadStays ==
  ASSUME OutcomeInv, StayInv, UploadBreaks \/ UploadRefused \/ UploadAccepted
  PROVE  StayInv'
<1>0. Types /\ OnPlan /\ FileInv /\ Working /\ plan # <<>> /\ Head(plan) = "upload"
  BY AtWork DEF OutcomeInv, StayInv, UploadBreaks, UploadRefused, UploadAccepted, At
<1>1. UNCHANGED <<program, sessions, draft, payload, request, calls>> /\ UploadRequest
  BY DEF UploadBreaks, UploadRefused, UploadAccepted
<1>2. wire'.clients = wire'.token
  BY <1>0, <1>1 DEF UploadRequest, StayInv, ProxyInv, At
<1>3. \/ plan' = <<"delete">>
      \/ plan' = Tail(plan) /\ UNCHANGED upload
      \/ plan' = <<"uploadpow">> \o plan /\ upload'.left = upload.left
  <2>1. CASE UploadBreaks
    BY <2>1 DEF UploadBreaks, End
  <2>2. CASE UploadAccepted
    BY <2>2 DEF UploadAccepted
  <2>3. CASE UploadRefused
    <3>1. PICK reply \in Replies : \E r \in Recoveries(caller, UploadOp, reply, TRUE) :
            /\ caller' = r[1]
            /\ IF r[2].attempts < MaxAttempts
               THEN /\ upload' = [upload EXCEPT !.attempts = r[2].attempts,
                                                !.refreshed = r[2].refreshed]
                    /\ plan' = <<"uploadpow">> \o plan
                    /\ op' = FreshOp(r[1].account)
                    /\ UNCHANGED outcomes
               ELSE GiveUp("upload") /\ UNCHANGED upload
      BY <2>3 DEF UploadRefused
    <3>2. PICK r \in Recoveries(caller, UploadOp, reply, TRUE) :
            \/ /\ upload' = [upload EXCEPT !.attempts = r[2].attempts,
                                           !.refreshed = r[2].refreshed]
               /\ plan' = <<"uploadpow">> \o plan
            \/ GiveUp("upload")
      BY <3>1
    <3> QED BY <1>0, <3>2 DEF GiveUp, End, Types, Upload
  <2> QED BY <2>1, <2>2, <2>3
<1>4. CASE plan' = <<"delete">>
  BY <1>0, <1>1, <1>2, <1>4, ToldStays
<1>5. CASE plan' = Tail(plan) /\ UNCHANGED upload
  BY <1>0, <1>1, <1>2, <1>5, NextStage
<1>6. CASE plan' = <<"uploadpow">> \o plan /\ upload'.left = upload.left
  <2>1. Place' = Place - 1 /\ OnPlan' /\ Working' /\ Head(plan') = "uploadpow"
    BY <1>0, <1>1, <1>6, BackOne
  <2>2. FileInv'
    <3>1. ASSUME program # "retry", NEW d \in 0 .. Files, FilesDone(d)
          PROVE  /\ d = 0 \/ Place' > Base(program) + 3 * d
                 /\ d = Files \/ Place' <= Base(program) + 3 * d + 3
      <4>1. /\ Files \in Nat /\ Base(program) \in {0, 2} /\ Place \in 1 .. 3 * Files + 3
            /\ \E e \in 0 .. Files - 1 : Place = Base(program) + 3 * e + 2
        BY <1>0, <3>1, StagePlace
      <4>2. /\ d = 0 \/ Place > Base(program) + 3 * d
            /\ d = Files \/ Place <= Base(program) + 3 * d + 3
        BY <3>1 DEF FilesDone
      <4> QED BY <2>1, <4>1, <4>2
    <3> QED BY <1>0, <1>1, <1>6, <2>1, <3>1, FilesKept
  <2>3. ProxyInv'
    BY <2>1 DEF ProxyInv, At
  <2>4. program # "retry" /\ Place' > SessionPlace(program) => Place > SessionPlace(program)
    <3> SUFFICES ASSUME program # "retry", Place' > SessionPlace(program)
                 PROVE  Place > SessionPlace(program)
      OBVIOUS
    <3>1. SessionPlace(program) \in Nat /\ Place \in 1 .. 3 * Files + 3 /\ Files \in Nat
      BY <1>0, StagePlace
    <3> QED BY <2>1, <3>1
  <2> QED BY <1>0, <1>1, <1>2, <2>1, <2>2, <2>3, <2>4, WorksOn
<1> QED BY <1>3, <1>4, <1>5, <1>6

LEMMA FileNotReadyStays ==
  ASSUME OutcomeInv, StayInv, FileNotReady
  PROVE  StayInv'
<1>0. Types /\ OnPlan /\ FileInv /\ Working /\ plan # <<>> /\ Head(plan) = "poll"
  BY AtWork DEF OutcomeInv, StayInv, FileNotReady, At
<1>1. /\ UNCHANGED <<program, sessions, draft, payload, request, calls, wire>>
      /\ \/ UNCHANGED plan /\ upload' = [upload EXCEPT !.polls = @ + 1]
         \/ plan' = <<"delete">>
  BY DEF FileNotReady, End
<1>2. wire'.kind \in {"upload", "call"} => wire'.clients = wire'.token
  BY <1>1 DEF StayInv, StaysWithItsAccount, UploadsAndCallsUseOwnProxy
<1>3. CASE plan' = <<"delete">>
  BY <1>0, <1>1, <1>2, <1>3, ToldStays
<1>4. CASE UNCHANGED plan /\ upload' = [upload EXCEPT !.polls = @ + 1]
  <2>1. Place' = Place /\ OnPlan' /\ Working' /\ upload'.left = upload.left
    BY <1>0, <1>1, <1>4, Unmoved DEF Types, Upload
  <2>2. FileInv'
    BY <1>0, <1>1, <2>1, FilesWait
  <2>3. ProxyInv'
    BY <1>0, <1>4 DEF ProxyInv, At
  <2> QED BY <1>0, <1>1, <1>2, <2>1, <2>2, <2>3, WorksOn
<1> QED BY <1>1, <1>3, <1>4

LEMMA FileNames ==
  /\ \A i \in 1 .. Files : InputFiles[i] # "client"
  /\ \A i, j \in 1 .. Files : InputFiles[i] = InputFiles[j] => i = j
  /\ DOMAIN InputFiles = 1 .. Files
<1>1. InputFiles \in Seq(STRING \ {"client"}) /\ DOMAIN InputFiles = 1 .. Files
  BY CompletionAssumption, LenProperties DEF Files
<1>2. \A i \in 1 .. Files : InputFiles[i] \in STRING \ {"client"}
  BY <1>1, ElementOfSeq DEF Files
<1> QED BY <1>1, <1>2, CompletionAssumption

(* Each file's reference takes the place of the older one of its name.     *)
LEMMA FileReadyRefs ==
  ASSUME NEW d \in Nat, d < Files, RefsCover(IF program = "start" THEN d ELSE Files),
         draft'.refs = ReplaceGeneratedRefs(draft.refs, [name |-> InputFiles[d + 1], by |-> program]),
         UNCHANGED program,
         program = "switch" =>
           \A i \in 1 .. d : \A r \in draft.refs : r.name = InputFiles[i] => r.by = "switch"
  PROVE  /\ RefsCover(IF program = "start" THEN d + 1 ELSE Files)'
         /\ program = "switch" =>
              \A i \in 1 .. d + 1 : \A r \in draft'.refs : r.name = InputFiles[i] => r.by = "switch"
<1> DEFINE new == [name |-> InputFiles[d + 1], by |-> program]
           m == IF program = "start" THEN d ELSE Files
           n == IF program = "start" THEN d + 1 ELSE Files
<1>1. Files \in Nat /\ d + 1 \in 1 .. Files /\ m \in Nat /\ n \in Nat /\ 1 .. m \subseteq 1 .. n
      /\ 1 .. n \subseteq 1 .. Files /\ d + 1 \in 1 .. n
      /\ \A i \in 1 .. n : i = d + 1 \/ i \in 1 .. m
  BY FilesType
<1>2. /\ ClientRef \in draft.refs
      /\ \A q, r \in draft.refs : q.name = r.name => q = r
      /\ \A r \in draft.refs : r.name = "client" \/ \E i \in 1 .. m : r.name = InputFiles[i]
      /\ \A i \in 1 .. m : \E r \in draft.refs : r.name = InputFiles[i]
  BY DEF RefsCover
<1>3. draft'.refs = {r \in draft.refs : r.name # new.name} \cup {new} /\ new.name = InputFiles[d + 1]
  BY DEF ReplaceGeneratedRefs
<1>4. InputFiles[d + 1] # "client" /\ ClientRef.name = "client"
  BY <1>1, FileNames DEF ClientRef
<1> HIDE DEF new, m, n
<1>5. ClientRef \in draft'.refs
  BY <1>2, <1>3, <1>4
<1>6. \A q, r \in draft'.refs : q.name = r.name => q = r
  BY <1>2, <1>3
<1>7. \A r \in draft'.refs : r.name = "client" \/ \E i \in 1 .. n : r.name = InputFiles[i]
  BY <1>1, <1>2, <1>3
<1>8. ASSUME NEW i \in 1 .. n PROVE \E r \in draft'.refs : r.name = InputFiles[i]
  <2>1. CASE i = d + 1
    BY <1>3, <2>1
  <2>2. CASE i # d + 1
    <3>1. InputFiles[i] # InputFiles[d + 1] /\ i \in 1 .. m
      BY <1>1, <2>2, FileNames
    <3> QED BY <1>2, <1>3, <3>1
  <2> QED BY <2>1, <2>2
<1>9. RefsCover(n)'
  BY <1>5, <1>6, <1>7, <1>8 DEF RefsCover, n
<1>10. ASSUME program = "switch", NEW i \in 1 .. d + 1, NEW r \in draft'.refs, r.name = InputFiles[i]
       PROVE  r.by = "switch"
  <2>1. CASE i = d + 1
    BY <1>3, <1>10, <2>1 DEF new
  <2>2. CASE i # d + 1
    <3>1. i \in 1 .. d /\ i \in 1 .. Files /\ d + 1 \in 1 .. Files
      BY <1>1, <2>2
    <3>2. InputFiles[i] # InputFiles[d + 1]
      BY <2>2, <3>1, FileNames
    <3>3. r \in draft.refs
      BY <1>3, <1>10, <3>2 DEF new
    <3> QED BY <1>10, <3>1, <3>3
  <2> QED BY <2>1, <2>2
<1> QED BY <1>9, <1>10 DEF n

LEMMA FileReadyStays ==
  ASSUME OutcomeInv, StayInv, FileReady
  PROVE  StayInv'
<1>0. Types /\ OnPlan /\ FileInv /\ Working /\ plan # <<>> /\ Head(plan) = "poll"
  BY AtWork DEF OutcomeInv, StayInv, FileReady, At
<1>1. /\ UNCHANGED <<caller, program, sessions, payload, request, calls, wire>>
      /\ plan' = Tail(plan)
  BY DEF FileReady
<1>2. Place' = Place + 1 /\ OnPlan' /\ Working' /\ Head(plan') # "upload"
  BY <1>0, <1>1, Advance
<1>3. program # "retry"
  <2>1. /\ Place \in 1 .. Len(PlanOf(program)) /\ Head(plan) = PlanOf(program)[Place]
        /\ program \in Programs
    BY <1>0, HeadAt DEF Types
  <2> QED BY <1>0, <2>1, StageAt
<1>4. /\ Files \in Nat /\ Base(program) \in {0, 2} /\ Place \in 1 .. 3 * Files + 3
      /\ SessionPlace(program) \in Nat /\ Place # SessionPlace(program)
  BY <1>0, <1>3, StagePlace
<1>5. PICK e \in 0 .. Files - 1 : Place = Base(program) + 3 * e + 3
  BY <1>0, <1>3, StagePlace
<1>6. PICK d \in 0 .. Files : FilesDone(d)
  BY <1>0, <1>3 DEF FileInv
<1>7. d \in Nat /\ d < Files /\ Place = Base(program) + 3 * d + 3
  <2>1. /\ d = 0 \/ Place > Base(program) + 3 * d
        /\ d = Files \/ Place <= Base(program) + 3 * d + 3
    BY <1>6 DEF FilesDone
  <2> QED BY <1>4, <1>5, <2>1
<1>8. /\ upload.left = [i \in 1 .. Files - d |-> InputFiles[d + i]]
      /\ RefsCover(IF program = "start" THEN d ELSE Files)
      /\ program = "switch" =>
           \A i \in 1 .. d : \A r \in draft.refs : r.name = InputFiles[i] => r.by = "switch"
  BY <1>4, <1>6, <1>7 DEF FilesDone
<1>9. /\ upload.left \in Seq(STRING) /\ upload.left # <<>> /\ Len(upload.left) = Files - d
      /\ Head(upload.left) = InputFiles[d + 1]
      /\ Tail(upload.left) = [i \in 1 .. Files - (d + 1) |-> InputFiles[d + 1 + i]]
  <2>1. upload.left \in Seq(STRING)
    BY <1>0 DEF Types, Upload
  <2>2. DOMAIN upload.left = 1 .. Files - d /\ Files - d \in Nat \ {0}
    BY <1>4, <1>7, <1>8
  <2>3. Len(upload.left) = Files - d
    BY <2>1, <2>2, LenProperties
  <2>4. upload.left # <<>>
    BY <2>1, <2>2, <2>3, EmptySeq
  <2>5. upload.left[1] = InputFiles[d + 1] /\ Head(upload.left) = upload.left[1]
    BY <1>8, <2>1, <2>2, <2>4, HeadTailProperties
  <2>6. /\ Tail(upload.left) \in Seq(STRING)
        /\ Len(Tail(upload.left)) = Len(upload.left) - 1
        /\ \A i \in 1 .. Len(upload.left) - 1 : Tail(upload.left)[i] = upload.left[i + 1]
    BY <2>1, <2>4, HeadTailProperties
  <2>7. Tail(upload.left) \in [1 .. Files - (d + 1) -> STRING]
    <3>1. Tail(upload.left) \in [1 .. Len(Tail(upload.left)) -> STRING]
      BY <2>6, LenProperties
    <3>2. Len(Tail(upload.left)) = Files - (d + 1)
      BY <1>4, <1>7, <2>3, <2>6
    <3> QED BY <3>1, <3>2
  <2>8. ASSUME NEW i \in 1 .. Files - (d + 1)
        PROVE  Tail(upload.left)[i] = InputFiles[d + 1 + i]
    <3>1. i \in 1 .. Len(upload.left) - 1 /\ i + 1 \in 1 .. Files - d /\ d + (i + 1) = d + 1 + i
      BY <1>4, <1>7, <2>3
    <3>2. Tail(upload.left)[i] = upload.left[i + 1]
      BY <2>6, <3>1
    <3>3. upload.left[i + 1] = InputFiles[d + (i + 1)]
      BY <1>8, <3>1
    <3> QED BY <3>1, <3>2, <3>3
  <2> QED BY <2>1, <2>3, <2>4, <2>5, <2>7, <2>8
<1>10. /\ draft'.refs = ReplaceGeneratedRefs(draft.refs, [name |-> InputFiles[d + 1], by |-> program])
       /\ draft'.session = draft.session
       /\ upload'.left = IF Len(upload.left) = 1 THEN InputFiles ELSE Tail(upload.left)
  <2>1. /\ draft' = [draft EXCEPT !.refs =
                       ReplaceGeneratedRefs(@, [name |-> Head(upload.left), by |-> program])]
        /\ upload' = [FreshUpload EXCEPT !.left =
                        IF Len(upload.left) = 1 THEN InputFiles ELSE Tail(upload.left)]
    BY DEF FileReady
  <2> QED BY <1>0, <1>9, <2>1 DEF Types, Start, FreshUpload
<1>11. FilesDone(d + 1)'
  <2>1. Files' = Files /\ Base(program)' = Base(program)
    BY <1>1, SamePlan DEF Files
  <2>2. /\ Place' > Base(program) + 3 * (d + 1)
        /\ Place' <= Base(program) + 3 * (d + 1) + 3
    BY <1>2, <1>4, <1>7
  <2>3. upload'.left = IF d + 1 = Files THEN InputFiles
                       ELSE [i \in 1 .. Files - (d + 1) |-> InputFiles[d + 1 + i]]
    <3>1. Len(upload.left) = 1 <=> d + 1 = Files
      <4>1. Len(upload.left) = Files - d
        BY <1>9
      <4> QED BY <1>4, <1>7, <4>1
    <3> QED BY <1>9, <1>10, <3>1
  <2>4. /\ RefsCover(IF program = "start" THEN d + 1 ELSE Files)'
        /\ program = "switch" =>
             \A i \in 1 .. d + 1 : \A r \in draft'.refs : r.name = InputFiles[i] => r.by = "switch"
    BY <1>1, <1>7, <1>8, <1>10, FileReadyRefs
  <2> QED BY <1>1, <2>1, <2>2, <2>3, <2>4 DEF FilesDone
<1>12. FileInv'
  <2>1. d + 1 \in 0 .. Files /\ Files' = Files
    BY <1>4, <1>7 DEF Files
  <2> QED BY <1>1, <1>2, <1>3, <1>11, <2>1 DEF FileInv
<1>13. ProxyInv'
  BY <1>2 DEF ProxyInv, At
<1>14. Place' > SessionPlace(program) => Place > SessionPlace(program)
  BY <1>2, <1>4
<1>15. wire'.kind \in {"upload", "call"} => wire'.clients = wire'.token
  BY <1>1 DEF StayInv, StaysWithItsAccount, UploadsAndCallsUseOwnProxy
<1> QED BY <1>0, <1>1, <1>2, <1>10, <1>12, <1>13, <1>14, <1>15, WorksOn

(* The references of one start are as many as the files and the client.    *)
LEMMA RefsCounted ==
  ASSUME RefsCover(Files)
  PROVE  Cardinality(draft.refs) = 1 + Files
<1> DEFINE named(i) == IF i = 0 THEN "client" ELSE InputFiles[i]
           f == [i \in 0 .. Files |-> CHOOSE r \in draft.refs : r.name = named(i)]
<1>1. Files \in Nat
  BY FilesType
<1>2. ASSUME NEW i \in 0 .. Files
      PROVE  f[i] \in draft.refs /\ f[i].name = named(i)
  <2>1. CASE i = 0
    <3>1. ClientRef \in draft.refs /\ ClientRef.name = named(i)
      BY <2>1 DEF RefsCover, ClientRef
    <3> QED BY <3>1
  <2>2. CASE i # 0
    <3>1. i \in 1 .. Files
      BY <1>1, <2>2
    <3>2. \E r \in draft.refs : r.name = InputFiles[i]
      BY <3>1 DEF RefsCover
    <3> QED BY <2>2, <3>2
  <2> QED BY <2>1, <2>2
<1>3. ASSUME NEW i \in 0 .. Files, NEW j \in 0 .. Files, f[i] = f[j]
      PROVE  i = j
  <2>1. named(i) = named(j)
    BY <1>2, <1>3
  <2>2. CASE i # 0 /\ j # 0
    <3>1. i \in 1 .. Files /\ j \in 1 .. Files
      BY <1>1, <2>2
    <3> QED BY <2>1, <2>2, <3>1, FileNames
  <2>3. CASE i = 0 \/ j = 0
    <3>1. \A k \in 0 .. Files : k # 0 => k \in 1 .. Files
      BY <1>1
    <3> QED BY <2>1, <2>3, <3>1, FileNames
  <2> QED BY <2>2, <2>3
<1>4. ASSUME NEW r \in draft.refs PROVE \E i \in 0 .. Files : f[i] = r
  <2>1. PICK i \in 0 .. Files : r.name = named(i)
    <3>1. CASE r.name = "client"
      BY <1>1, <3>1
    <3>2. CASE r.name # "client"
      <4>1. PICK i \in 1 .. Files : r.name = InputFiles[i]
        BY <3>2 DEF RefsCover
      <4>2. i \in 0 .. Files /\ i # 0
        BY <1>1
      <4> QED BY <4>1, <4>2
    <3> QED BY <3>1, <3>2
  <2>2. f[i].name = r.name /\ f[i] \in draft.refs
    BY <1>2, <2>1
  <2> QED BY <2>2 DEF RefsCover
<1>5. f \in [0 .. Files -> draft.refs]
  BY <1>2
<1> HIDE DEF f, named
<1>6. f \in Bijection(0 .. Files, draft.refs)
  BY <1>3, <1>4, <1>5 DEF Bijection, Injection, Surjection, IsInjective
<1>7. IsFiniteSet(0 .. Files) /\ Cardinality(0 .. Files) = Files + 1
  BY <1>1, FS_Interval
<1>8. ExistsBijection(0 .. Files, draft.refs)
  BY <1>6 DEF ExistsBijection
<1> QED BY <1>1, <1>7, <1>8, FS_Bijection

LEMMA CallFailsStays ==
  ASSUME OutcomeInv, StayInv, CallFails
  PROVE  StayInv'
<1>1. plan # <<>> /\ plan' = <<"delete">> /\ UNCHANGED <<calls, payload, sessions>>
      /\ wire' = [kind |-> "call", token |-> caller.account, clients |-> caller.account]
  BY DEF CallFails, At, End, CompletionRequest
<1> QED BY <1>1, ToldStays

(* All files are up when the completion is called.                         *)
LEMMA AllFiles ==
  ASSUME Types, StayInv, Working, Head(plan) = "call"
  PROVE  /\ RefsCover(Files) /\ upload.left = InputFiles
         /\ program = "switch" => \A r \in draft.refs \ {ClientRef} : r.by = "switch"
         /\ program # "retry" =>
              /\ draft.session # 0
              /\ \A i \in DOMAIN calls : calls[i].session < draft.session
         /\ program = "retry" => calls # <<>> /\ draft.session = payload.session
<1>1. CASE program = "retry"
  BY <1>1 DEF StayInv, FileInv, SessionInv
<1>2. CASE program # "retry"
  <2>1. /\ Files \in Nat /\ Base(program) \in {0, 2} /\ Place = 3 * Files + 3
        /\ Place > SessionPlace(program)
    BY <1>2, StagePlace DEF StayInv
  <2>2. PICK d \in 0 .. Files : FilesDone(d)
    BY <1>2 DEF StayInv, FileInv
  <2>3. d = Files
    <3>1. d = Files \/ Place <= Base(program) + 3 * d + 3
      BY <2>2 DEF FilesDone
    <3> QED BY <2>1, <3>1
  <2>4. /\ upload.left = InputFiles
        /\ RefsCover(IF program = "start" THEN Files ELSE Files)
        /\ program = "switch" =>
             \A i \in 1 .. Files : \A r \in draft.refs : r.name = InputFiles[i] => r.by = "switch"
    BY <2>2, <2>3 DEF FilesDone
  <2>5. RefsCover(Files)
    BY <2>4
  <2>6. ASSUME program = "switch", NEW r \in draft.refs \ {ClientRef} PROVE r.by = "switch"
    <3>1. r.name # "client"
      BY <2>5 DEF RefsCover, ClientRef
    <3>2. PICK i \in 1 .. Files : r.name = InputFiles[i]
      BY <2>5, <3>1 DEF RefsCover
    <3> QED BY <2>4, <2>6, <3>2
  <2>7. draft.session # 0 /\ \A i \in DOMAIN calls : calls[i].session < draft.session
    BY <1>2, <2>1 DEF StayInv, SessionInv
  <2> QED BY <1>2, <2>4, <2>5, <2>6, <2>7
<1> QED BY <1>1, <1>2

LEMMA CallAnsweredStays ==
  ASSUME OutcomeInv, StayInv, CallAnswered
  PROVE  StayInv'
<1>0. Types /\ SessionInv /\ Working /\ Head(plan) = "call"
  BY AtWork DEF OutcomeInv, StayInv, CallAnswered, At
<1>1. /\ payload' = draft /\ plan' = <<"consume">>
      /\ UNCHANGED <<caller, program, upload, sessions, draft, request>>
      /\ wire' = [kind |-> "call", token |-> caller.account, clients |-> caller.account]
  BY DEF CallAnswered, CompletionRequest
<1>a. /\ RefsCover(Files) /\ upload.left = InputFiles
      /\ program = "switch" => \A r \in draft.refs \ {ClientRef} : r.by = "switch"
      /\ program # "retry" =>
           /\ draft.session # 0
           /\ \A i \in DOMAIN calls : calls[i].session < draft.session
      /\ program = "retry" => calls # <<>> /\ draft.session = payload.session
  BY <1>0, AllFiles
<1>2. PICK c : c = [program |-> program, account |-> caller.account,
                    session |-> draft.session, refs |-> draft.refs,
                    parent |-> ParentFor, suffix |-> program = "retry"]
  OBVIOUS
<1>3. c \in CallRecord /\ calls' = Append(calls, c)
  BY <1>0, <1>2 DEF Types, CallRecord, Caller, Start, ParentFor, CallAnswered
<1>4. PICK n \in Nat : n = Len(calls)
  BY <1>0, LenProperties DEF Types
<1>5. /\ calls' \in Seq(CallRecord) /\ Len(calls') = n + 1
      /\ DOMAIN calls = 1 .. n /\ DOMAIN calls' = 1 .. n + 1
      /\ calls'[n + 1] = c /\ \A i \in 1 .. n : calls'[i] = calls[i]
      /\ calls' # <<>>
  <2>1. calls \in Seq(CallRecord)
    BY <1>0 DEF Types
  <2>2. /\ Append(calls, c) \in Seq(CallRecord) /\ Len(Append(calls, c)) = n + 1
        /\ Append(calls, c)[n + 1] = c /\ \A i \in 1 .. n : Append(calls, c)[i] = calls[i]
        /\ Append(calls, c) # <<>>
    BY <1>3, <1>4, <2>1, AppendProperties
  <2> QED BY <1>3, <1>4, <2>1, <2>2, LenProperties
<1>6. c.session = draft.session /\ draft.session \in 1 .. Len(sessions) /\ Len(sessions) \in Nat
  <2>1. draft.session \in Nat /\ draft.session <= Len(sessions) /\ Len(sessions) \in Nat
    BY <1>0, LenProperties DEF Types, Start
  <2>2. draft.session # 0
    <3>1. CASE program = "retry"
      <4>1. draft.session = calls[n].session /\ n \in DOMAIN calls
        BY <1>0, <1>4, <1>5, <1>a, <3>1, EmptySeq DEF SessionInv, Types
      <4>2. calls[n].session \in 1 .. Len(sessions)
        BY <1>0, <4>1 DEF SessionInv
      <4> QED BY <2>1, <4>1, <4>2
    <3> QED BY <1>a, <3>1
  <2> QED BY <1>2, <2>1, <2>2
<1>7. ~Working' /\ ~At("upload")' /\ plan' # <<>> /\ Files' = Files
  BY <1>1 DEF Working, At, Files
<1>8. OnPlan' /\ ProxyInv'
  BY <1>7 DEF OnPlan, ProxyInv
<1>9. FileInv'
  <2>1. RefsCover(Files)' /\ upload'.left = InputFiles
    BY <1>1, <1>7, <1>a DEF RefsCover
  <2> QED BY <1>7, <2>1 DEF FileInv
<1>10. SessionInv'
  <2>1. \A i \in DOMAIN calls' : calls'[i].session \in 1 .. Len(sessions')
    <3>1. \A i \in 1 .. n : calls[i].session \in 1 .. Len(sessions)
      BY <1>0, <1>5 DEF SessionInv
    <3>2. \A i \in 1 .. n + 1 : i = n + 1 \/ i \in 1 .. n
      OBVIOUS
    <3> QED BY <1>1, <1>5, <1>6, <3>1, <3>2
  <2>2. payload'.session = calls'[Len(calls')].session /\ draft'.session = payload'.session
    BY <1>1, <1>5, <1>6
  <2> QED BY <1>5, <1>7, <2>1, <2>2 DEF SessionInv
<1>11. RetryContinuesItsSession'
  <2> SUFFICES ASSUME NEW i \in 1 .. n + 1
               PROVE  IF calls'[i].program = "retry"
                      THEN /\ calls'[i].suffix
                           /\ i > 1 /\ calls'[i].session = calls'[i-1].session
                           /\ calls'[i].parent \in {0, calls'[i].session}
                      ELSE /\ ~ calls'[i].suffix /\ calls'[i].parent = 0
                           /\ \A j \in 1 .. i - 1 : calls'[j].session # calls'[i].session
    BY <1>5 DEF RetryContinuesItsSession
  <2>1. CASE i \in 1 .. n
    <3>1. /\ calls'[i] = calls[i] /\ i \in DOMAIN calls
          /\ i > 1 => calls'[i - 1] = calls[i - 1]
          /\ \A j \in 1 .. i - 1 : calls'[j] = calls[j]
      BY <1>5, <2>1
    <3>2. RetryContinuesItsSession
      BY DEF StayInv, StaysWithItsAccount
    <3> QED BY <3>1, <3>2 DEF RetryContinuesItsSession
  <2>2. CASE i = n + 1
    <3>1. calls'[i] = c /\ n + 1 - 1 = n
      BY <1>5, <2>2
    <3>2. CASE program = "retry"
      <4>1. /\ draft.session = payload.session /\ n # 0
            /\ payload.session = calls[n].session
        BY <1>0, <1>4, <1>5, <1>a, <3>2, EmptySeq DEF SessionInv, Types
      <4>2. calls'[n] = calls[n] /\ i > 1 /\ i - 1 = n
        BY <1>5, <2>2, <4>1
      <4>3. c.suffix /\ c.program = "retry" /\ c.parent \in {0, c.session}
        BY <1>2, <3>2, <4>1 DEF ParentFor
      <4>4. c.session = calls'[n].session
        BY <1>2, <4>1, <4>2
      <4> QED BY <3>1, <4>2, <4>3, <4>4
    <3>3. CASE program # "retry"
      <4>1. ~c.suffix /\ c.program # "retry" /\ c.parent = 0
        BY <1>2, <3>3 DEF ParentFor
      <4>2. ASSUME NEW j \in 1 .. n PROVE calls'[j].session # c.session
        <5>1. calls[j].session < draft.session /\ calls'[j] = calls[j]
          BY <1>5, <1>a, <3>3
        <5>2. calls[j].session \in 1 .. Len(sessions)
          BY <1>0, <1>5 DEF SessionInv
        <5> QED BY <1>6, <5>1, <5>2
      <4> QED BY <2>2, <3>1, <4>1, <4>2
    <3> QED BY <3>2, <3>3
  <2> QED BY <2>1, <2>2
<1>12. RefsReplacedNotAdded'
  <2>1. RefsReplacedNotAdded
    BY DEF StayInv, StaysWithItsAccount
  <2>2. /\ ClientRef \in c.refs /\ Cardinality(c.refs) = 1 + Len(InputFiles)
        /\ c.program = "switch" => \A r \in c.refs \ {ClientRef} : r.by = "switch"
    BY <1>2, <1>a, RefsCounted DEF RefsCover, Files
  <2>3. \A i \in 1 .. n + 1 : i = n + 1 \/ i \in 1 .. n
    OBVIOUS
  <2> QED BY <1>5, <2>1, <2>2, <2>3 DEF RefsReplacedNotAdded
<1>13. UploadsAndCallsUseOwnProxy' /\ DeletesTheServedSession'
  BY <1>1, <1>7 DEF UploadsAndCallsUseOwnProxy, DeletesTheServedSession
<1> QED BY <1>8, <1>9, <1>10, <1>11, <1>12, <1>13 DEF StayInv, StaysWithItsAccount

LEMMA RetryBeginsStays ==
  ASSUME OutcomeInv, StayInv, plan = <<"consume">>, BeginRetry, Kept, UNCHANGED <<calls, wire>>
  PROVE  StayInv'
<1>0. Types /\ ~Working
  BY DEF OutcomeInv, Working
<1>1. /\ program' = "retry" /\ plan' = PlanOf(program') /\ program' \in Programs
      /\ UNCHANGED <<caller, draft, upload, sessions, payload, request>>
  BY DEF BeginRetry, Kept, Programs
<1>2. OnPlan' /\ Working' /\ Head(plan') # "upload" /\ plan' # <<>>
  BY <1>0, <1>1, NewPlan DEF Working
<1>3. /\ RefsCover(Files) /\ upload.left = InputFiles
      /\ calls # <<>> /\ draft.session = payload.session
  BY <1>0 DEF StayInv, FileInv, SessionInv
<1>4. FileInv'
  <2>1. RefsCover(Files)' /\ upload'.left = InputFiles
    BY <1>1, <1>3 DEF RefsCover, Files
  <2> QED BY <1>1, <2>1 DEF FileInv
<1>5. SessionInv'
  BY <1>1, <1>3 DEF StayInv, SessionInv
<1>6. ProxyInv' /\ StaysWithItsAccount'
  BY <1>1, <1>2 DEF ProxyInv, At, StayInv, StaysWithItsAccount, RetryContinuesItsSession,
       RefsReplacedNotAdded, UploadsAndCallsUseOwnProxy, DeletesTheServedSession
<1> QED BY <1>2, <1>4, <1>5, <1>6 DEF StayInv

LEMMA SwitchBeginsStays ==
  ASSUME OutcomeInv, StayInv, plan = <<"consume">>, program' = "switch",
         plan' = PlanOf("switch"), UNCHANGED <<draft, upload>>, Kept, UNCHANGED <<calls, wire>>
  PROVE  StayInv'
<1>0. Types /\ ~Working /\ Files \in Nat
  BY FilesType DEF OutcomeInv, Working
<1>1. /\ plan' = PlanOf(program') /\ program' \in Programs
      /\ UNCHANGED <<draft, upload, sessions, payload, request>>
  BY DEF Kept, Programs
<1>2. Place' = 1 /\ OnPlan' /\ Working' /\ Head(plan') # "upload" /\ plan' # <<>>
  BY <1>0, <1>1, NewPlan DEF Working
<1>3. /\ RefsCover(Files) /\ upload.left = InputFiles
  BY <1>0 DEF StayInv, FileInv
<1>4. FileInv'
  <2>1. RefsCover(Files)' /\ upload'.left = InputFiles /\ Files' = Files
    BY <1>1, <1>3 DEF RefsCover, Files
  <2>2. InputFiles = [i \in 1 .. Files - 0 |-> InputFiles[0 + i]]
    <3>1. InputFiles \in [1 .. Files -> STRING]
      BY FilesType, LenProperties DEF Files
    <3>2. Files - 0 = Files /\ \A i \in 1 .. Files : 0 + i = i
      BY <1>0
    <3>3. InputFiles = [i \in 1 .. Files |-> InputFiles[i]]
      BY <3>1
    <3> QED BY <3>2, <3>3
  <2>3. Base(program)' \in {0, 2}
    BY DEF Base
  <2>4. FilesDone(0)'
    <3>1. upload'.left = IF 0 = Files' THEN InputFiles
                         ELSE [i \in 1 .. Files' - 0 |-> InputFiles[0 + i]]
      BY <2>1, <2>2
    <3>2. Place' <= Base(program)' + 3 * 0 + 3 /\ \A i \in 1 .. 0 : FALSE
      BY <1>2, <2>3
    <3>3. RefsCover(IF program = "start" THEN 0 ELSE Files)'
      BY <2>1
    <3> QED BY <3>1, <3>2, <3>3 DEF FilesDone
  <2>5. 0 \in 0 .. Files
    BY <1>0
  <2> QED BY <1>2, <2>1, <2>4, <2>5 DEF FileInv
<1>5. SessionInv'
  <2>1. ~(1 > SessionPlace(program)')
    BY <1>0 DEF SessionPlace, Files
  <2>2. \A i \in DOMAIN calls' : calls'[i].session \in 1 .. Len(sessions')
    BY <1>1 DEF StayInv, SessionInv
  <2>3. calls' # <<>> => payload'.session = calls'[Len(calls')].session
    BY <1>1 DEF StayInv, SessionInv
  <2> QED BY <1>2, <2>1, <2>2, <2>3 DEF SessionInv
<1>6. ProxyInv' /\ StaysWithItsAccount'
  BY <1>1, <1>2 DEF ProxyInv, At, StayInv, StaysWithItsAccount, RetryContinuesItsSession,
       RefsReplacedNotAdded, UploadsAndCallsUseOwnProxy, DeletesTheServedSession
<1> QED BY <1>2, <1>4, <1>5, <1>6 DEF StayInv

LEMMA ConsumeStays ==
  ASSUME OutcomeInv, StayInv, ConsumeCollected \/ ConsumeStream \/ ConsumeCancelled
  PROVE  StayInv'
<1>1. /\ plan = <<"consume">> /\ plan # <<>> /\ Kept /\ UNCHANGED <<calls, wire>>
  BY AtWork DEF OutcomeInv, Kept, ConsumeCollected, ConsumeStream, ConsumeCancelled, At
<1>2. \/ BeginRetry
      \/ \E o : BeginSwitch(o)
      \/ \E o : Answered(o)
  BY DEF ConsumeCollected, ConsumeStream, ConsumeCancelled
<1>3. \/ BeginRetry
      \/ program' = "switch" /\ plan' = PlanOf("switch") /\ UNCHANGED <<draft, upload>>
      \/ plan' = <<"delete">>
  BY <1>2 DEF BeginSwitch, Answered, End
<1>4. CASE BeginRetry
  BY <1>1, <1>4, RetryBeginsStays
<1>5. CASE program' = "switch" /\ plan' = PlanOf("switch") /\ UNCHANGED <<draft, upload>>
  BY <1>1, <1>5, SwitchBeginsStays
<1>6. CASE plan' = <<"delete">>
  <2>1. wire'.kind \in {"upload", "call"} => wire'.clients = wire'.token
    BY <1>1 DEF StayInv, StaysWithItsAccount, UploadsAndCallsUseOwnProxy
  <2> QED BY <1>1, <1>6, <2>1, ToldStays DEF Kept
<1> QED BY <1>3, <1>4, <1>5, <1>6

LEMMA AutoDeleteStays ==
  ASSUME OutcomeInv, StayInv, AutoDelete
  PROVE  StayInv'
<1>0. Types /\ SessionInv
  BY DEF OutcomeInv, StayInv
<1>1. plan' = <<>> /\ UNCHANGED <<program, upload, sessions, draft, payload, request, calls, wire>>
  BY DEF AutoDelete
<1>2. ~Working' /\ ~At("upload")' /\ plan' # <<"consume">>
  BY <1>1 DEF Working, At
<1>3. OnPlan' /\ FileInv' /\ ProxyInv'
  BY <1>2 DEF OnPlan, FileInv, ProxyInv
<1>4. SessionInv'
  BY <1>0, <1>1, <1>2 DEF SessionInv
<1>5. DeletesTheServedSession'
  <2> SUFFICES ASSUME AutoDeleteMode = "single", calls # <<>>
               PROVE  deleted'.sessions = {Last(calls).session}
    BY <1>1 DEF DeletesTheServedSession
  <2>1. deleted'.sessions = {SessionRef} \ {0}
    BY DEF AutoDelete
  <2>2. Len(calls) \in DOMAIN calls /\ Len(sessions) \in Nat
    BY <1>0, LenProperties, EmptySeq DEF Types
  <2>3. /\ payload.session = calls[Len(calls)].session
        /\ calls[Len(calls)].session \in 1 .. Len(sessions)
    BY <1>0, <2>2 DEF SessionInv
  <2>4. SessionRef = Last(calls).session /\ SessionRef # 0
    BY <2>2, <2>3 DEF SessionRef, Last
  <2> QED BY <2>1, <2>4
<1>6. StaysWithItsAccount'
  BY <1>1, <1>5 DEF StayInv, StaysWithItsAccount, RetryContinuesItsSession,
       RefsReplacedNotAdded, UploadsAndCallsUseOwnProxy
<1> QED BY <1>3, <1>4, <1>6 DEF StayInv

LEMMA StayStep == OutcomeInv /\ StayInv /\ [Next]_vars => StayInv'
<1> SUFFICES ASSUME OutcomeInv, StayInv, [Next]_vars PROVE StayInv'
  OBVIOUS
<1>1. ASSUME Cancel \/ UNCHANGED vars PROVE StayInv'
  <2>1. /\ UNCHANGED <<program, plan, upload, sessions, draft, payload, request, calls, wire, deleted>>
        /\ caller'.account = caller.account
    BY <1>1 DEF Cancel, vars, OutcomeInv, Types, Caller
  <2>2. /\ Place' = Place /\ Working' = Working /\ OnPlan' /\ At("upload")' = At("upload")
        /\ Base(program)' = Base(program) /\ SessionPlace(program)' = SessionPlace(program)
        /\ Files' = Files
    BY <2>1, Unmoved, SamePlan DEF At, StayInv, Files
  <2>3. \A m : RefsCover(m)' <=> RefsCover(m)
    BY <2>1 DEF RefsCover
  <2>4. FileInv'
    BY <2>1, <2>2, <2>3 DEF StayInv, FileInv, FilesDone
  <2>5. SessionInv' /\ ProxyInv'
    BY <2>1, <2>2 DEF StayInv, SessionInv, ProxyInv
  <2>6. StaysWithItsAccount'
    BY <2>1 DEF StayInv, StaysWithItsAccount, RetryContinuesItsSession,
       RefsReplacedNotAdded, UploadsAndCallsUseOwnProxy, DeletesTheServedSession
  <2> QED BY <2>2, <2>4, <2>5, <2>6 DEF StayInv
<1>2. ASSUME CreateSessionFails \/ GetPowFails \/ UploadPowFails PROVE StayInv'
  BY <1>2, AttemptFailsStays DEF CreateSessionFails, GetPowFails, UploadPowFails
<1> QED
  BY <1>1, <1>2, CreateSessionStays, PowStays, UploadStays, FileReadyStays, FileNotReadyStays,
     CallFailsStays, CallAnsweredStays, ConsumeStays, AutoDeleteStays
  DEF Next, Handle

LEMMA StayInit == Init => StayInv
<1> SUFFICES ASSUME Init PROVE StayInv
  OBVIOUS
<1>0. Files \in Nat
  BY FilesType
<1>1. /\ program = "start" /\ plan = PlanOf("start") /\ upload.left = InputFiles
      /\ draft = NoStart /\ calls = <<>> /\ wire.kind = "none"
  BY DEF Init, FreshUpload
<1>2. Working /\ Len(plan) \in Nat \ {0} /\ plan = PlanOf(program) /\ "start" \in Programs
  BY <1>1, PlansWork, LenProperties, EmptySeq DEF Working, Programs
<1>3. Place = 1 /\ OnPlan
  BY <1>2 DEF Place, OnPlan
<1>4. draft.refs = {ClientRef} /\ ClientRef.name = "client"
  BY <1>1 DEF NoStart, ClientRef
<1>5. FileInv
  <2>1. InputFiles = [i \in 1 .. Files - 0 |-> InputFiles[0 + i]]
    <3>1. InputFiles \in [1 .. Files -> STRING]
      BY FilesType, LenProperties DEF Files
    <3>2. Files - 0 = Files /\ \A i \in 1 .. Files : 0 + i = i
      BY <1>0
    <3>3. InputFiles = [i \in 1 .. Files |-> InputFiles[i]]
      BY <3>1
    <3> QED BY <3>2, <3>3
  <2>2. RefsCover(0)
    BY <1>4 DEF RefsCover
  <2>3. Base(program) = 0
    BY <1>1 DEF Base
  <2>4. FilesDone(0)
    <3>1. upload.left = IF 0 = Files THEN InputFiles
                        ELSE [i \in 1 .. Files - 0 |-> InputFiles[0 + i]]
      BY <1>1, <2>1
    <3>2. Place <= Base(program) + 3 * 0 + 3 /\ \A i \in 1 .. 0 : FALSE
      BY <1>3, <2>3
    <3>3. RefsCover(IF program = "start" THEN 0 ELSE Files)
      BY <1>1, <2>2
    <3> QED BY <1>1, <3>1, <3>2, <3>3 DEF FilesDone
  <2> QED BY <1>0, <1>1, <1>2, <2>4 DEF FileInv
<1>6. SessionInv
  <2>1. ~(Place > SessionPlace(program))
    BY <1>0, <1>1, <1>3 DEF SessionPlace
  <2> QED BY <1>1, <1>2, <2>1 DEF SessionInv
<1>7. ProxyInv
  <2>1. Head(plan) = PlanOf("start")[1] /\ 1 \in 1 .. Len(PlanOf("start"))
    BY <1>1, <1>2, HeadTailProperties DEF Working
  <2>2. Base("start") = 0 /\ SessionPlace("start") = 3 * Files + 1
    BY DEF Base, SessionPlace
  <2>3. PlanOf("start")[1] # "upload"
    BY <1>0, <1>2, <2>1, <2>2, StageAt
  <2> QED BY <2>1, <2>3 DEF ProxyInv, At
<1>8. StaysWithItsAccount
  BY <1>1, <1>2 DEF StaysWithItsAccount, RetryContinuesItsSession, RefsReplacedNotAdded,
       UploadsAndCallsUseOwnProxy, DeletesTheServedSession, Working
<1> QED BY <1>3, <1>5, <1>6, <1>7, <1>8 DEF StayInv

(* Whatever is retried, refreshed or moved to another account, and however *)
(* many context files there are: a call names the session of its own       *)
(* start, a retry the session and message it continues, the references are *)
(* one per file, uploads and calls leave through the proxy of their        *)
(* account, and the session that served is the one deleted.                *)
THEOREM WhatIsSentBelongsTogether == Spec => []StaysWithItsAccount
<1>1. StayInv => StaysWithItsAccount
  BY DEF StayInv
<1> QED BY OutcomeInit, OutcomeStep, StayInit, StayStep, <1>1, PTL DEF Spec
=============================================================================
