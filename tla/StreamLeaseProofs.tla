--------------------------- MODULE StreamLeaseProofs ---------------------------
(***************************************************************************)
(* Proofs about StreamLease, for any streams, accounts and limits: while   *)
(* upstream asks for no other account, each slot taken for a stream has    *)
(* exactly one keeper, whatever calls are lost and whatever leases expire. *)
(***************************************************************************)
EXTENDS StreamLease, AccountPoolLemmas

OtherTypes ==
  /\ switched \in [Requests -> BOOLEAN]
  /\ expired \in SUBSET Requests /\ overtaken \in SUBSET Requests
  /\ ctxDone \in SUBSET Requests
  /\ got \in [Handlers -> Accounts \cup {NoAccount}]
  /\ tried \in [Requests -> SUBSET Accounts]

KeptTypes ==
  /\ leases \in SUBSET Requests
  /\ batch \in [Handlers -> SUBSET Requests]
  /\ accountID \in [Requests -> Accounts \cup {NoAccount}]
  /\ owned \in [Requests -> [Accounts -> Nat]]

Types ==
  /\ PoolTypeOK /\ KeptTypes /\ OtherTypes
  /\ node \in [Requests -> NodeStates]
  /\ goPc \in [Handlers -> HandlerStates]

(* Where the handlers of a stream stand: nobody asks for another account,  *)
(* prepare and release run once, and an unfinished handler has Node wait   *)
(* for it or be gone.                                                      *)
Course(s) ==
  /\ goPc[<<s, "prepare">>] \in {"none", "sweep", "determine", "wait", "upstream", "reply"}
  /\ goPc[<<s, "pow">>] \in {"none", "lookup", "upstream"}
  /\ goPc[<<s, "switch">>] = "none"
  /\ goPc[<<s, "release">>] \in {"none", "sweep", "pop", "release", "reply"}
  /\ node[s] = "idle" => goPc[<<s, "prepare">>] = "none" /\ goPc[<<s, "pow">>] = "none"
  /\ node[s] \notin {"release", "closed"} => goPc[<<s, "release">>] = "none"
  /\ node[s] \in Kinds => goPc[<<s, node[s]>>] # "none"

(* A handler has popped leases only where it is about to release them.     *)
BatchInv ==
  /\ \A h \in Handlers : goPc[h] \notin {"determine", "pop", "reply", "release"} => batch[h] = {}
  /\ \A s \in Requests : goPc[<<s, "release">>] = "release" => s \notin batch[<<s, "release">>]

(* One keeper at most, and what it keeps is one slot of the account that   *)
(* the stream's RequestAuth names.                                         *)
KeeperInv(s) ==
  /\ \A k, l \in Keepers(s) : k = l
  /\ node[s] = "idle" \/ goPc[<<s, "prepare">>] \in {"sweep", "determine", "wait"} => Keepers(s) = {}
  /\ Keepers(s) # {} => accountID[s] \in Accounts
  /\ \A a \in Accounts : owned[s][a] = IF Keepers(s) # {} /\ a = accountID[s] THEN 1 ELSE 0

Owners(a) == {s \in Requests : owned[s][a] > 0}
CountInv == \A a \in Accounts : inUse[a] = Cardinality(Owners(a))

LeaseInv ==
  /\ Types /\ BatchInv /\ CountInv
  /\ \A s \in Requests : Course(s) /\ KeeperInv(s)

-----------------------------------------------------------------------------
(* Handlers and keepers.                                                   *)

(* A stream whose Node and whose handlers stay is where it was.            *)
LEMMA CourseStays ==
  ASSUME NEW t \in Requests, Course(t), node'[t] = node[t],
         \A l \in Kinds : goPc'[<<t, l>>] = goPc[<<t, l>>]
  PROVE  Course(t)'
BY DEF Course, Kinds

(* A handler moves; no other does.                                         *)
LEMMA HandlerMoves ==
  ASSUME Types, NEW s \in Requests, NEW kind \in Kinds, NEW v \in HandlerStates,
         NEW h \in Handlers, h = <<s, kind>>, goPc' = [goPc EXCEPT ![h] = v]
  PROVE  /\ goPc' \in [Handlers -> HandlerStates]
         /\ goPc'[h] = v
         /\ \A g \in Handlers : g # h => goPc'[g] = goPc[g]
         /\ \A l \in Kinds : l # kind => goPc'[<<s, l>>] = goPc[<<s, l>>]
         /\ \A t \in Requests : t # s => \A l \in Kinds : goPc'[<<t, l>>] = goPc[<<t, l>>]
<1>0. goPc \in [Handlers -> HandlerStates]
  BY DEF Types
<1>1. /\ goPc' \in [Handlers -> HandlerStates]
      /\ goPc'[h] = v
      /\ \A g \in Handlers : g # h => goPc'[g] = goPc[g]
  BY <1>0
<1>2. \A l \in Kinds : l # kind => goPc'[<<s, l>>] = goPc[<<s, l>>]
  BY <1>1 DEF Handlers
<1>3. \A t \in Requests : t # s => \A l \in Kinds : goPc'[<<t, l>>] = goPc[<<t, l>>]
  BY <1>1 DEF Handlers
<1> QED BY <1>1, <1>2, <1>3

(* The same of Node functions.                                             *)
LEMMA NodeMoves ==
  ASSUME Types, NEW s \in Requests, NEW w \in NodeStates, node' = [node EXCEPT ![s] = w]
  PROVE  /\ node' \in [Requests -> NodeStates] /\ node'[s] = w
         /\ \A t \in Requests : t # s => node'[t] = node[t]
BY DEF Types

(* An answered handler is done; Node takes the answer or has gone on.      *)
LEMMA Answered ==
  ASSUME Types, NEW s \in Requests, NEW kind \in Kinds, NEW outcome \in {"ok", "failed"},
         Course(s), Respond(s, kind, outcome)
  PROVE  /\ goPc' = [goPc EXCEPT ![<<s, kind>>] = "none"] /\ UNCHANGED switched
         /\ \E w \in NodeStates : node' = [node EXCEPT ![s] = w] /\ (w = "idle" => node[s] = "idle")
         /\ Course(s)'
<1>1. goPc' = [goPc EXCEPT ![<<s, kind>>] = "none"] /\ UNCHANGED switched
  BY DEF Respond
<1>2. /\ AfterAnswer[kind][outcome] \in {"stream", "ending", "closed"}
      /\ kind = "release" => AfterAnswer[kind][outcome] = "closed"
  BY DEF AfterAnswer, Kinds
<1>3. (IF node[s] = kind THEN AfterAnswer[kind][outcome] ELSE node[s]) \in NodeStates
  BY <1>2 DEF Types, NodeStates
<1>4. PICK w \in NodeStates : w = IF node[s] = kind THEN AfterAnswer[kind][outcome] ELSE node[s]
  BY <1>3
<1>6. node' = [node EXCEPT ![s] = w]
  BY <1>4 DEF Respond, Types
<1>7. PICK v \in HandlerStates : v = "none"
  BY DEF HandlerStates
<1>b. PICK h \in Handlers : h = <<s, kind>>
  BY DEF Handlers
<1>a. goPc' = [goPc EXCEPT ![h] = v]
  BY <1>1, <1>7, <1>b
<1>8. /\ goPc'[h] = v /\ node'[s] = w
      /\ \A l \in Kinds : l # kind => goPc'[<<s, l>>] = goPc[<<s, l>>]
  BY <1>6, <1>a, <1>b, HandlerMoves, NodeMoves
<1>9. Course(s)'
  BY <1>2, <1>4, <1>7, <1>8, <1>b DEF Course, Kinds
<1> QED BY <1>1, <1>2, <1>4, <1>6, <1>9

(* The keepers of a stream, one by one.                                    *)
LEMMA KeeperElements ==
  ASSUME NEW s \in Requests, NEW k
  PROVE  k \in Keepers(s) <=>
           \/ k \in Handlers /\ s \in batch[k]
           \/ k = <<s, "prepare">> /\ goPc[<<s, "prepare">>] = "upstream"
           \/ k = <<s, "release">> /\ goPc[<<s, "release">>] = "release"
           \/ k = <<s, "table">> /\ s \in leases
BY DEF Keepers

(* What keeps a stream's keepers as they are.                              *)
LEMMA SameKeepers ==
  ASSUME NEW s \in Requests, UNCHANGED <<batch, leases>>,
         goPc'[<<s, "prepare">>] = "upstream" <=> goPc[<<s, "prepare">>] = "upstream",
         goPc'[<<s, "release">>] = "release" <=> goPc[<<s, "release">>] = "release"
  PROVE  Keepers(s)' = Keepers(s)
BY DEF Keepers

(* What is left to show when a stream's account and slots stay.            *)
LEMMA KeptOn ==
  ASSUME NEW s \in Requests, KeeperInv(s),
         accountID'[s] = accountID[s], owned'[s] = owned[s],
         Keepers(s)' = {} <=> Keepers(s) = {},
         \A k, l \in Keepers(s)' : k = l,
         node'[s] = "idle" \/ goPc'[<<s, "prepare">>] \in {"sweep", "determine", "wait"} => Keepers(s)' = {}
  PROVE  KeeperInv(s)'
BY DEF KeeperInv

(* A handler moves and no slot nor lease changes hands.                    *)
LEMMA MoveStep ==
  ASSUME LeaseInv, NEW s \in Requests, NEW kind \in Kinds, NEW v \in HandlerStates, NEW w \in NodeStates,
         NEW h \in Handlers, h = <<s, kind>>,
         goPc' = [goPc EXCEPT ![h] = v], node' = [node EXCEPT ![s] = w],
         UNCHANGED <<leases, batch, accountID, owned, inUse>>, PoolTypeOK', OtherTypes',
         Course(s)', batch[h] = {} \/ v = goPc[h], v \notin {"upstream", "release"} \/ v = goPc[h] \/ kind = "pow",
         kind = "prepare" => goPc[h] # "upstream" \/ v = goPc[h],
         kind = "release" => goPc[h] # "release" \/ v = goPc[h],
         w = "idle" => node[s] = "idle",
         kind = "prepare" /\ v \in {"sweep", "determine", "wait"} =>
           node[s] = "idle" \/ goPc[h] \in {"sweep", "determine", "wait"}
  PROVE  LeaseInv'
<1>0. Types /\ BatchInv /\ CountInv /\ \A t \in Requests : Course(t) /\ KeeperInv(t)
  BY DEF LeaseInv
<1>1. /\ goPc' \in [Handlers -> HandlerStates] /\ node' \in [Requests -> NodeStates]
      /\ goPc'[h] = v /\ node'[s] = w
      /\ \A g \in Handlers : g # h => goPc'[g] = goPc[g]
      /\ \A l \in Kinds : l # kind => goPc'[<<s, l>>] = goPc[<<s, l>>]
      /\ \A t \in Requests : t # s => \A l \in Kinds : goPc'[<<t, l>>] = goPc[<<t, l>>]
      /\ \A t \in Requests : t # s => node'[t] = node[t]
  BY <1>0, HandlerMoves, NodeMoves
<1>2. Types'
  BY <1>0, <1>1 DEF Types, KeptTypes
<1>3. \A t \in Requests : Course(t)'
  BY <1>0, <1>1, CourseStays
<1>4. BatchInv'
  <2>1. \A g \in Handlers : goPc'[g] \notin {"determine", "pop", "reply", "release"} => batch'[g] = {}
    BY <1>0, <1>1 DEF BatchInv
  <2>2. \A t \in Requests : goPc'[<<t, "release">>] = "release" => goPc[<<t, "release">>] = "release"
    BY <1>1 DEF Kinds
  <2>3. \A t \in Requests : goPc'[<<t, "release">>] = "release" => t \notin batch'[<<t, "release">>]
    BY <1>0, <2>2 DEF BatchInv
  <2> QED BY <2>1, <2>3 DEF BatchInv
<1>5. \A t \in Requests : KeeperInv(t)'
  <2> SUFFICES ASSUME NEW t \in Requests PROVE KeeperInv(t)'
    OBVIOUS
  <2>1. /\ goPc'[<<t, "prepare">>] = "upstream" <=> goPc[<<t, "prepare">>] = "upstream"
        /\ goPc'[<<t, "release">>] = "release" <=> goPc[<<t, "release">>] = "release"
    BY <1>1 DEF Kinds
  <2>2. Keepers(t)' = Keepers(t)
    BY <2>1, SameKeepers
  <2>3. node'[t] = "idle" \/ goPc'[<<t, "prepare">>] \in {"sweep", "determine", "wait"} =>
          node[t] = "idle" \/ goPc[<<t, "prepare">>] \in {"sweep", "determine", "wait"}
    BY <1>1 DEF Kinds
  <2>4. KeeperInv(t)
    BY <1>0
  <2>5. node'[t] = "idle" \/ goPc'[<<t, "prepare">>] \in {"sweep", "determine", "wait"} => Keepers(t)' = {}
    BY <2>2, <2>3, <2>4 DEF KeeperInv
  <2>6. \A k, l \in Keepers(t)' : k = l
    BY <2>2, <2>4 DEF KeeperInv
  <2> QED BY <2>2, <2>4, <2>5, <2>6, KeptOn
<1>6. CountInv'
  BY <1>0 DEF CountInv, Owners
<1> QED BY <1>2, <1>3, <1>4, <1>5, <1>6 DEF LeaseInv

-----------------------------------------------------------------------------
(* Steps that change no keeper.                                            *)

(* The types that a step leaves alone.                                     *)
LEMMA PoolStays ==
  ASSUME Types, UNCHANGED <<storeVars, poolVars>>
  PROVE  PoolTypeOK'
BY DEF Types, PoolTypeOK, storeVars, poolVars

(* Node calls a handler.                                                   *)
LEMMA CallStep ==
  ASSUME LeaseInv, NEW s \in Requests, NodePrepare(s) \/ NodePow(s) \/ NodeRelease(s)
  PROVE  LeaseInv'
<1>0. Types /\ Course(s)
  BY DEF LeaseInv
<1>1. /\ PoolTypeOK' /\ OtherTypes'
      /\ UNCHANGED <<leases, batch, accountID, owned, inUse>>
  <2>1. UNCHANGED <<storeVars, poolVars, switched, tableVars, authVars, batch, got, ctxDone>>
    BY DEF NodePrepare, NodePow, NodeRelease
  <2>2. PoolTypeOK'
    BY <1>0, <2>1, PoolStays
  <2> QED BY <1>0, <2>1, <2>2 DEF Types, OtherTypes, tableVars, authVars, poolVars
<1>2. CASE NodePrepare(s)
  <2>1. PICK kind \in Kinds, v \in HandlerStates, w \in NodeStates : kind = "prepare" /\ v = "sweep" /\ w = "prepare"
    BY DEF Kinds, HandlerStates, NodeStates
  <2>2. PICK h \in Handlers : h = <<s, kind>>
    BY DEF Handlers
  <2>3. /\ goPc' = [goPc EXCEPT ![h] = v] /\ node' = [node EXCEPT ![s] = w]
        /\ node[s] = "idle" /\ goPc[h] = "none"
    BY <1>0, <1>2, <2>1, <2>2 DEF NodePrepare, GoTo, Course
  <2>4. /\ goPc'[h] = v /\ node'[s] = w
        /\ \A l \in Kinds : l # kind => goPc'[<<s, l>>] = goPc[<<s, l>>]
    BY <1>0, <2>2, <2>3, HandlerMoves, NodeMoves
  <2>5. Course(s)'
    BY <1>0, <2>1, <2>2, <2>3, <2>4 DEF Course, Kinds
  <2>6. batch[h] = {}
    BY <2>3 DEF LeaseInv, BatchInv
  <2> QED BY <1>1, <2>1, <2>2, <2>3, <2>5, <2>6, MoveStep
<1>3. CASE NodePow(s)
  <2>1. PICK kind \in Kinds, v \in HandlerStates, w \in NodeStates : kind = "pow" /\ v = "lookup" /\ w = "pow"
    BY DEF Kinds, HandlerStates, NodeStates
  <2>2. PICK h \in Handlers : h = <<s, kind>>
    BY DEF Handlers
  <2>3. /\ goPc' = [goPc EXCEPT ![h] = v] /\ node' = [node EXCEPT ![s] = w]
        /\ node[s] = "stream" /\ goPc[h] = "none"
    BY <1>0, <1>3, <2>1, <2>2 DEF NodePow, GoTo, Course
  <2>4. /\ goPc'[h] = v /\ node'[s] = w
        /\ \A l \in Kinds : l # kind => goPc'[<<s, l>>] = goPc[<<s, l>>]
    BY <1>0, <2>2, <2>3, HandlerMoves, NodeMoves
  <2>5. Course(s)'
    BY <1>0, <2>1, <2>2, <2>3, <2>4 DEF Course, Kinds
  <2>6. batch[h] = {}
    BY <2>3 DEF LeaseInv, BatchInv
  <2> QED BY <1>1, <2>1, <2>2, <2>3, <2>5, <2>6, MoveStep
<1>4. CASE NodeRelease(s)
  <2>1. PICK kind \in Kinds, v \in HandlerStates, w \in NodeStates : kind = "release" /\ v = "sweep" /\ w = "release"
    BY DEF Kinds, HandlerStates, NodeStates
  <2>2. PICK h \in Handlers : h = <<s, kind>>
    BY DEF Handlers
  <2>3. /\ goPc' = [goPc EXCEPT ![h] = v] /\ node' = [node EXCEPT ![s] = w]
        /\ node[s] \in {"stream", "ending"} /\ goPc[h] = "none"
    BY <1>0, <1>4, <2>1, <2>2 DEF NodeRelease, GoTo, Course
  <2>4. /\ goPc'[h] = v /\ node'[s] = w
        /\ \A l \in Kinds : l # kind => goPc'[<<s, l>>] = goPc[<<s, l>>]
    BY <1>0, <2>2, <2>3, HandlerMoves, NodeMoves
  <2>5. Course(s)'
    BY <1>0, <2>1, <2>2, <2>3, <2>4 DEF Course, Kinds
  <2>6. batch[h] = {}
    BY <2>3 DEF LeaseInv, BatchInv
  <2> QED BY <1>1, <2>1, <2>2, <2>3, <2>5, <2>6, MoveStep
<1> QED BY <1>2, <1>3, <1>4

(* A call is lost, a Node function dies, a lease's time runs out.          *)
LEMMA FaultStep ==
  ASSUME LeaseInv, NEW s \in Requests, CallLost(s) \/ NodeDies(s) \/ Expire(s)
  PROVE  LeaseInv'
<1>0. Types /\ Course(s)
  BY DEF LeaseInv
<1>1. PICK kind \in Kinds, h \in Handlers : kind = "pow" /\ h = <<s, kind>>
  BY DEF Kinds, Handlers
<1>2. PICK v \in HandlerStates : v = goPc[h]
  BY <1>0 DEF Types
<1>3. /\ PoolTypeOK' /\ UNCHANGED <<leases, batch, accountID, owned, inUse>>
      /\ goPc' = goPc /\ got' = got /\ tried' = tried /\ switched' = switched
  <2>1. /\ UNCHANGED <<storeVars, poolVars, leases, authVars, goPc, batch, got>>
        /\ UNCHANGED switched
    BY DEF CallLost, NodeDies, Expire, tableVars, goVars, nodeVars
  <2>2. PoolTypeOK'
    BY <1>0, <2>1, PoolStays
  <2> QED BY <2>1, <2>2 DEF authVars, poolVars
<1>4. goPc' = [goPc EXCEPT ![h] = v]
  BY <1>0, <1>2, <1>3 DEF Types
<1>5. OtherTypes'
  <2>1. /\ expired' \in SUBSET Requests /\ ctxDone' \in SUBSET Requests
        /\ overtaken' \in SUBSET Requests
    BY <1>0 DEF CallLost, NodeDies, Expire, Types, OtherTypes, tableVars, goVars
  <2> QED BY <1>0, <1>3, <2>1 DEF Types, OtherTypes
<1>6. PICK w \in NodeStates : /\ node' = [node EXCEPT ![s] = w]
                              /\ w \in {"stream", "ending", "closed"} \/ w = node[s]
                              /\ node[s] = "release" => w \in {"release", "closed"}
                              /\ node[s] = "closed" => w = "closed"
  <2>1. CASE CallLost(s)
    <3>0. \E w \in NodeStates : w = CASE node[s] = "pow" -> "stream"
                              [] node[s] = "switch" -> "ending"
                              [] OTHER -> "closed"
      BY DEF NodeStates
    <3>1. PICK w \in NodeStates : w = CASE node[s] = "pow" -> "stream"
                              [] node[s] = "switch" -> "ending"
                              [] OTHER -> "closed"
      BY <3>0
    <3>2. node' = [node EXCEPT ![s] = w] /\ node[s] \in Kinds
      BY <1>0, <2>1, <3>1 DEF CallLost, Types
    <3>3. w \in {"stream", "ending", "closed"} /\ (node[s] = "release" => w = "closed")
      BY <3>1
    <3>4. node[s] # "closed"
      BY <3>2 DEF Kinds
    <3> QED BY <3>2, <3>3, <3>4
  <2>2. CASE NodeDies(s)
    <3>1. PICK w \in NodeStates : w = "closed"
      BY DEF NodeStates
    <3> QED BY <2>2, <3>1 DEF NodeDies
  <2>3. CASE Expire(s)
    <3>1. PICK w \in NodeStates : w = node[s]
      BY <1>0 DEF Types
    <3>2. node' = [node EXCEPT ![s] = w]
      BY <1>0, <2>3, <3>1 DEF Expire, nodeVars, Types
    <3> QED BY <3>1, <3>2
  <2> QED BY <2>1, <2>2, <2>3
<1>7. /\ goPc'[h] = v /\ node'[s] = w
      /\ \A l \in Kinds : l # kind => goPc'[<<s, l>>] = goPc[<<s, l>>]
  <2>1. node' = [node EXCEPT ![s] = w]
    BY <1>6
  <2>2. Types /\ h = <<s, kind>>
    BY <1>0, <1>1
  <2> QED BY <1>4, <2>1, <2>2, HandlerMoves, NodeMoves
<1>8. Course(s)'
  BY <1>0, <1>1, <1>2, <1>6, <1>7 DEF Course, Kinds
<1>9. w = "idle" => node[s] = "idle"
  BY <1>6
<1>10. /\ batch[h] = {} \/ v = goPc[h]
       /\ v \notin {"upstream", "release"} \/ v = goPc[h] \/ kind = "pow"
       /\ kind = "prepare" => goPc[h] # "upstream" \/ v = goPc[h]
       /\ kind = "release" => goPc[h] # "release" \/ v = goPc[h]
       /\ kind = "prepare" /\ v \in {"sweep", "determine", "wait"} =>
           node[s] = "idle" \/ goPc[h] \in {"sweep", "determine", "wait"}
  BY <1>1, <1>2
<1> QED BY <1>1, <1>3, <1>4, <1>5, <1>6, <1>8, <1>9, <1>10, MoveStep

(* A handler that keeps no lease answers.                                  *)
LEMMA AnswerStep ==
  ASSUME LeaseInv, NEW s \in Requests, NEW kind \in Kinds, NEW outcome \in {"ok", "failed"},
         Respond(s, kind, outcome), UNCHANGED <<tableVars, authVars, batch, got, ctxDone, inUse>>,
         PoolTypeOK', batch[<<s, kind>>] = {},
         kind = "prepare" => goPc[<<s, kind>>] # "upstream",
         kind = "release" => goPc[<<s, kind>>] # "release"
  PROVE  LeaseInv'
<1>0. Types /\ Course(s)
  BY DEF LeaseInv
<1>1. PICK h \in Handlers, v \in HandlerStates : h = <<s, kind>> /\ v = "none"
  BY DEF Handlers, HandlerStates
<1>2. /\ goPc' = [goPc EXCEPT ![<<s, kind>>] = "none"] /\ UNCHANGED switched
      /\ \E w \in NodeStates : node' = [node EXCEPT ![s] = w] /\ (w = "idle" => node[s] = "idle")
      /\ Course(s)'
  BY <1>0, Answered
<1>3. PICK w \in NodeStates : node' = [node EXCEPT ![s] = w] /\ (w = "idle" => node[s] = "idle")
  BY <1>2
<1>4. goPc' = [goPc EXCEPT ![h] = v]
  BY <1>1, <1>2
<1>5. OtherTypes' /\ UNCHANGED <<leases, batch, accountID, owned, inUse>>
  BY <1>0, <1>2 DEF Types, OtherTypes, tableVars, authVars
<1>6. /\ batch[h] = {} \/ v = goPc[h]
      /\ v \notin {"upstream", "release"} \/ v = goPc[h] \/ kind = "pow"
      /\ kind = "prepare" => goPc[h] # "upstream" \/ v = goPc[h]
      /\ kind = "release" => goPc[h] # "release" \/ v = goPc[h]
      /\ kind = "prepare" /\ v \in {"sweep", "determine", "wait"} =>
          node[s] = "idle" \/ goPc[h] \in {"sweep", "determine", "wait"}
  BY <1>1
<1>7. /\ node' = [node EXCEPT ![s] = w]
      /\ w = "idle" => node[s] = "idle"
      /\ h = <<s, kind>>
  BY <1>1, <1>3
<1>8. Course(s)'
  BY <1>2
<1> QED BY <1>4, <1>5, <1>6, <1>7, <1>8, MoveStep

(* The pool's part of a prepare call that gets no account.                 *)
LEMMA QueueType ==
  ASSUME Types, NEW s \in Requests, PrepareQueued(s) \/ PrepareRefused(s) \/ PrepareWoken(s)
  PROVE  PoolTypeOK' /\ UNCHANGED inUse
<1>0. PoolTypeOK /\ UNCHANGED storeVars
  BY DEF Types, PrepareQueued, PrepareRefused, PrepareWoken
<1>1. CASE PrepareQueued(s)
  BY <1>0, <1>1, OtherSectionsType DEF PrepareQueued, enqueueWaiter
<1>2. CASE PrepareRefused(s)
  <2>1. UNCHANGED poolVars \/ (removeWaiterLocked(s) /\ UNCHANGED <<queue, inUse, limitVars>>)
    BY <1>2 DEF PrepareRefused
  <2>2. CASE UNCHANGED poolVars
    BY <1>0, <2>2, PoolStays DEF poolVars
  <2>3. CASE removeWaiterLocked(s) /\ UNCHANGED <<queue, inUse, limitVars>>
    BY <1>0, <2>3, OtherSectionsType
  <2> QED BY <2>1, <2>2, <2>3
<1>3. CASE PrepareWoken(s)
  BY <1>0, <1>3, PoolStays DEF PrepareWoken, poolVars
<1> QED BY <1>1, <1>2, <1>3

(* The prepare call waits in the FIFO, or leaves it.                       *)
LEMMA WaitStep ==
  ASSUME LeaseInv, NEW s \in Requests, PrepareQueued(s) \/ PrepareWoken(s)
  PROVE  LeaseInv'
<1>0. Types /\ Course(s) /\ BatchInv
  BY DEF LeaseInv
<1>1. PICK kind \in Kinds, h \in Handlers : kind = "prepare" /\ h = <<s, kind>>
  BY DEF Kinds, Handlers
<1>2. PICK v \in HandlerStates : /\ goPc' = [goPc EXCEPT ![h] = v] /\ v \in {"wait", "determine"}
                                 /\ goPc[h] \in {"wait", "determine"} /\ batch[h] = {}
  <2>1. "wait" \in HandlerStates /\ "determine" \in HandlerStates
    BY DEF HandlerStates
  <2>2. CASE PrepareQueued(s)
    BY <1>1, <2>1, <2>2 DEF PrepareQueued, GoTo, Ready
  <2>3. CASE PrepareWoken(s)
    BY <1>0, <1>1, <2>1, <2>3 DEF PrepareWoken, GoTo, BatchInv
  <2> QED BY <2>2, <2>3
<1>3. PICK w \in NodeStates : w = node[s]
  BY <1>0 DEF Types
<1>4. UNCHANGED <<nodeVars, tableVars, authVars, batch, got, ctxDone>>
  BY DEF PrepareQueued, PrepareWoken
<1>5. node' = [node EXCEPT ![s] = w]
  BY <1>0, <1>3, <1>4 DEF nodeVars, Types
<1>6. PoolTypeOK' /\ UNCHANGED inUse
  BY <1>0, QueueType
<1>7. OtherTypes' /\ UNCHANGED <<leases, batch, accountID, owned, inUse>>
  BY <1>0, <1>4, <1>6 DEF Types, OtherTypes, tableVars, authVars, nodeVars
<1>8. goPc' = [goPc EXCEPT ![h] = v]
  BY <1>2
<1>9. /\ goPc'[h] = v /\ node'[s] = w
      /\ \A l \in Kinds : l # kind => goPc'[<<s, l>>] = goPc[<<s, l>>]
  <2>1. Types /\ h = <<s, kind>>
    BY <1>0, <1>1
  <2> QED BY <1>5, <1>8, <2>1, HandlerMoves, NodeMoves
<1>10. Course(s)'
  BY <1>0, <1>1, <1>2, <1>3, <1>9 DEF Course, Kinds
<1>11. /\ batch[h] = {} \/ v = goPc[h]
       /\ v \notin {"upstream", "release"} \/ v = goPc[h] \/ kind = "pow"
       /\ kind = "prepare" => goPc[h] # "upstream" \/ v = goPc[h]
       /\ kind = "release" => goPc[h] # "release" \/ v = goPc[h]
       /\ kind = "prepare" /\ v \in {"sweep", "determine", "wait"} =>
           node[s] = "idle" \/ goPc[h] \in {"sweep", "determine", "wait"}
       /\ w = "idle" => node[s] = "idle"
       /\ h = <<s, kind>>
  BY <1>1, <1>2, <1>3
<1> QED BY <1>5, <1>6, <1>7, <1>8, <1>10, <1>11, MoveStep

(* The pow handler looks the lease up.                                     *)
LEMMA LookupStep ==
  ASSUME LeaseInv, NEW s \in Requests, NEW kind \in Kinds, lookupStreamLease(s, kind)
  PROVE  LeaseInv'
<1>0. Types /\ Course(s) /\ BatchInv
  BY DEF LeaseInv
<1>1. kind = "pow" /\ goPc[<<s, kind>>] = "lookup" /\ batch[<<s, kind>>] = {}
  BY <1>0 DEF Course, Kinds, lookupStreamLease, Ready
<1>2. UNCHANGED <<storeVars, poolVars, tableVars, authVars, batch, got, ctxDone>>
  BY DEF lookupStreamLease
<1>3. PoolTypeOK' /\ UNCHANGED inUse
  BY <1>0, <1>2, PoolStays DEF poolVars
<1>4. CASE Respond(s, kind, "failed")
  <2>1. /\ UNCHANGED <<tableVars, authVars, batch, got, ctxDone, inUse>>
        /\ kind = "prepare" => goPc[<<s, kind>>] # "upstream"
        /\ kind = "release" => goPc[<<s, kind>>] # "release"
    BY <1>1, <1>2, <1>3
  <2> QED BY <1>1, <1>3, <1>4, <2>1, AnswerStep
<1>5. CASE GoTo(<<s, kind>>, IF kind = "switch" THEN "switch" ELSE "upstream") /\ UNCHANGED nodeVars
  <2>1. PICK v \in HandlerStates, w \in NodeStates, h \in Handlers :
          v = "upstream" /\ w = node[s] /\ h = <<s, kind>>
    BY <1>0 DEF HandlerStates, Types, Handlers
  <2>2. goPc' = [goPc EXCEPT ![h] = v] /\ node' = [node EXCEPT ![s] = w]
    BY <1>0, <1>1, <1>5, <2>1 DEF GoTo, nodeVars, Types
  <2>3. OtherTypes' /\ UNCHANGED <<leases, batch, accountID, owned, inUse>>
    BY <1>0, <1>2, <1>3, <1>5 DEF Types, OtherTypes, tableVars, authVars, nodeVars
  <2>4. /\ goPc'[h] = v /\ node'[s] = w
        /\ \A l \in Kinds : l # kind => goPc'[<<s, l>>] = goPc[<<s, l>>]
    BY <1>0, <2>1, <2>2, HandlerMoves, NodeMoves
  <2>5. Course(s)'
    BY <1>0, <1>1, <2>1, <2>4 DEF Course, Kinds
  <2>6. /\ batch[h] = {} \/ v = goPc[h]
        /\ v \notin {"upstream", "release"} \/ v = goPc[h] \/ kind = "pow"
        /\ kind = "prepare" => goPc[h] # "upstream" \/ v = goPc[h]
        /\ kind = "release" => goPc[h] # "release" \/ v = goPc[h]
        /\ kind = "prepare" /\ v \in {"sweep", "determine", "wait"} =>
            node[s] = "idle" \/ goPc[h] \in {"sweep", "determine", "wait"}
        /\ w = "idle" => node[s] = "idle"
        /\ h = <<s, kind>>
    BY <1>1, <2>1
  <2> QED BY <1>3, <2>2, <2>3, <2>5, <2>6, MoveStep
<1> QED BY <1>4, <1>5 DEF lookupStreamLease

(* A handler that keeps nothing answers, in each of the four ways.         *)
LEMMA QuietAnswerStep ==
  ASSUME LeaseInv, NEW s \in Requests, NEW kind \in Kinds,
         \/ kind = "prepare" /\ PrepareRefused(s)
         \/ Reply(<<s, kind>>)
         \/ UpstreamEnds(s, kind)
  PROVE  LeaseInv'
<1>0. Types /\ Course(s) /\ BatchInv
  BY DEF LeaseInv
<1>1. CASE kind = "prepare" /\ PrepareRefused(s)
  <2>1. PoolTypeOK' /\ UNCHANGED inUse
    BY <1>0, <1>1, QueueType
  <2>2. /\ UNCHANGED <<tableVars, authVars, batch, got, ctxDone, inUse>>
        /\ batch[<<s, kind>>] = {} /\ Respond(s, kind, "failed")
        /\ kind = "prepare" => goPc[<<s, kind>>] # "upstream"
        /\ kind = "release" => goPc[<<s, kind>>] # "release"
    BY <1>1, <2>1 DEF PrepareRefused, Ready
  <2> QED BY <2>1, <2>2, AnswerStep
<1>2. CASE Reply(<<s, kind>>)
  <2>1. PoolTypeOK' /\ UNCHANGED inUse
    BY <1>0, <1>2, PoolStays DEF Reply, poolVars
  <2>2. /\ UNCHANGED <<tableVars, authVars, batch, got, ctxDone, inUse>>
        /\ batch[<<s, kind>>] = {} /\ Respond(s, kind, "ok")
        /\ kind = "prepare" => goPc[<<s, kind>>] # "upstream"
        /\ kind = "release" => goPc[<<s, kind>>] # "release"
    BY <1>2, <2>1 DEF Reply, Ready
  <2> QED BY <2>1, <2>2, AnswerStep
<1>3. CASE UpstreamEnds(s, kind)
  <2>1. PoolTypeOK' /\ UNCHANGED inUse
    BY <1>0, <1>3, PoolStays DEF UpstreamEnds, poolVars
  <2>2. PICK outcome \in {"ok", "failed"} : Respond(s, kind, outcome)
    BY <1>3 DEF UpstreamEnds
  <2>3. <<s, kind>> \in Handlers /\ goPc[<<s, kind>>] = "upstream"
    BY <1>3 DEF UpstreamEnds, Handlers
  <2>4. /\ UNCHANGED <<tableVars, authVars, batch, got, ctxDone, inUse>>
        /\ batch[<<s, kind>>] = {}
        /\ kind = "prepare" => goPc[<<s, kind>>] # "upstream"
        /\ kind = "release" => goPc[<<s, kind>>] # "release"
    BY <1>0, <1>3, <2>1, <2>3 DEF UpstreamEnds, BatchInv
  <2> QED BY <2>1, <2>2, <2>4, AnswerStep
<1> QED BY <1>1, <1>2, <1>3

-----------------------------------------------------------------------------
(* Steps that take the expired leases out of the table.                    *)

(* An expired lease has the table as its keeper, then the handler.         *)
LEMMA Popped ==
  ASSUME LeaseInv, NEW h \in Handlers, NEW t \in Requests, t \in leases \cap expired,
         batch' = [batch EXCEPT ![h] = leases \cap expired],
         t \notin leases', goPc'[<<t, "prepare">>] # "upstream", goPc'[<<t, "release">>] # "release"
  PROVE  Keepers(t) = {<<t, "table">>} /\ Keepers(t)' = {h}
<1>0. batch \in [Handlers -> SUBSET Requests] /\ \A k, l \in Keepers(t) : k = l
  BY DEF LeaseInv, Types, KeptTypes, KeeperInv
<1>1. <<t, "table">> \in Keepers(t)
  BY KeeperElements
<1>2. Keepers(t) = {<<t, "table">>}
  BY <1>0, <1>1
<1>3. \A g \in Handlers : t \notin batch[g]
  BY <1>2, KeeperElements DEF Handlers, Kinds
<1>4. /\ batch'[h] = leases \cap expired
      /\ \A g \in Handlers : g # h => batch'[g] = batch[g]
  BY <1>0
<1>5. \A g \in Handlers : t \in batch'[g] <=> g = h
  BY <1>3, <1>4
<1>6. Keepers(t)' = {h}
  BY <1>5 DEF Keepers
<1> QED BY <1>2, <1>6

(* The other leases keep the keeper they have.                             *)
LEMMA NotPopped ==
  ASSUME LeaseInv, NEW h \in Handlers, NEW t \in Requests, t \notin leases \cap expired, batch[h] = {},
         batch' = [batch EXCEPT ![h] = leases \cap expired], t \in leases' <=> t \in leases,
         goPc'[<<t, "prepare">>] = "upstream" <=> goPc[<<t, "prepare">>] = "upstream",
         goPc'[<<t, "release">>] = "release" <=> goPc[<<t, "release">>] = "release"
  PROVE  Keepers(t)' = Keepers(t)
<1>0. batch \in [Handlers -> SUBSET Requests]
  BY DEF LeaseInv, Types, KeptTypes
<1>1. /\ batch'[h] = leases \cap expired
      /\ \A g \in Handlers : g # h => batch'[g] = batch[g]
  BY <1>0
<1>2. \A g \in Handlers : t \in batch'[g] <=> t \in batch[g]
  BY <1>1
<1> QED BY <1>2 DEF Keepers

(* What such a step of stream s does for all the others.                   *)
LEMMA PopStep ==
  ASSUME LeaseInv, NEW s \in Requests, NEW kind \in Kinds, NEW v \in HandlerStates,
         NEW h \in Handlers, h = <<s, kind>>, goPc' = [goPc EXCEPT ![h] = v],
         UNCHANGED <<node, accountID, owned, inUse>>, PoolTypeOK', OtherTypes', leases' \in SUBSET Requests,
         batch[h] = {}, batch' = [batch EXCEPT ![h] = leases \cap expired],
         v \in {"determine", "pop", "reply", "release"}, v = "release" => s \notin leases \cap expired,
         \A t \in Requests \ {s} : t \in leases' <=> t \in leases \ expired,
         Course(s)', KeeperInv(s)'
  PROVE  LeaseInv'
<1>0. Types /\ BatchInv /\ CountInv /\ \A t \in Requests : Course(t) /\ KeeperInv(t)
  BY DEF LeaseInv
<1>1. /\ goPc' \in [Handlers -> HandlerStates]
      /\ goPc'[h] = v
      /\ \A g \in Handlers : g # h => goPc'[g] = goPc[g]
      /\ \A l \in Kinds : l # kind => goPc'[<<s, l>>] = goPc[<<s, l>>]
      /\ \A t \in Requests : t # s => \A l \in Kinds : goPc'[<<t, l>>] = goPc[<<t, l>>]
  <2>1. Types
    BY <1>0
  <2> QED BY <2>1, HandlerMoves
<1>2. batch' \in [Handlers -> SUBSET Requests] /\ batch'[h] = leases \cap expired
  BY <1>0 DEF Types, KeptTypes
<1>3. Types'
  BY <1>0, <1>1, <1>2 DEF Types, KeptTypes
<1>4. \A t \in Requests : Course(t)'
  BY <1>0, <1>1, CourseStays
<1>5. BatchInv'
  <2>1. \A g \in Handlers : g # h => batch'[g] = batch[g] /\ goPc'[g] = goPc[g]
    BY <1>0, <1>1 DEF Types, KeptTypes
  <2>2. \A g \in Handlers : goPc'[g] \notin {"determine", "pop", "reply", "release"} => batch'[g] = {}
    BY <1>0, <1>1, <2>1 DEF BatchInv
  <2>3. ASSUME NEW t \in Requests, goPc'[<<t, "release">>] = "release" PROVE t \notin batch'[<<t, "release">>]
    <3>1. PICK g \in Handlers : g = <<t, "release">>
      BY DEF Handlers, Kinds
    <3>2. CASE g = h
      <4>1. t = s
        BY <3>1, <3>2
      <4> QED BY <1>1, <1>2, <2>3, <3>1, <3>2, <4>1
    <3>3. CASE g # h
      BY <1>0, <2>1, <2>3, <3>1, <3>3 DEF BatchInv
    <3> QED BY <3>2, <3>3
  <2> QED BY <2>2, <2>3 DEF BatchInv
<1>6. ASSUME NEW t \in Requests, t # s PROVE KeeperInv(t)'
  <2>0. KeeperInv(t)
    BY <1>0
  <2>1. goPc'[<<t, "prepare">>] = goPc[<<t, "prepare">>] /\ goPc'[<<t, "release">>] = goPc[<<t, "release">>]
    BY <1>1, <1>6 DEF Kinds
  <2>2. node'[t] = "idle" \/ goPc'[<<t, "prepare">>] \in {"sweep", "determine", "wait"} => Keepers(t) = {}
    BY <2>0, <2>1 DEF KeeperInv
  <2>3. CASE t \in leases \cap expired
    <3>1. <<t, "table">> \in Keepers(t) /\ \A k, l \in Keepers(t) : k = l
      BY <2>0, <2>3, KeeperElements DEF KeeperInv
    <3>2. goPc[<<t, "prepare">>] # "upstream" /\ goPc[<<t, "release">>] # "release"
      <4>1. <<t, "prepare">> \notin Keepers(t) /\ <<t, "release">> \notin Keepers(t)
        BY <3>1
      <4> QED BY <4>1, KeeperElements
    <3>3. t \notin leases'
      BY <1>6, <2>3
    <3>a. goPc'[<<t, "prepare">>] # "upstream" /\ goPc'[<<t, "release">>] # "release"
      BY <2>1, <3>2
    <3>4. Keepers(t) = {<<t, "table">>} /\ Keepers(t)' = {h}
      BY <2>3, <3>3, <3>a, Popped
    <3>5. /\ Keepers(t)' = {} <=> Keepers(t) = {}
          /\ \A k, l \in Keepers(t)' : k = l
          /\ node'[t] = "idle" \/ goPc'[<<t, "prepare">>] \in {"sweep", "determine", "wait"} => Keepers(t)' = {}
      BY <2>2, <3>4
    <3> QED BY <2>0, <3>5, KeptOn
  <2>4. CASE t \notin leases \cap expired
    <3>1. t \in leases' <=> t \in leases
      BY <1>6, <2>4
    <3>2. Keepers(t)' = Keepers(t)
      BY <2>1, <2>4, <3>1, NotPopped
    <3>3. /\ Keepers(t)' = {} <=> Keepers(t) = {}
          /\ \A k, l \in Keepers(t)' : k = l
          /\ node'[t] = "idle" \/ goPc'[<<t, "prepare">>] \in {"sweep", "determine", "wait"} => Keepers(t)' = {}
      BY <2>0, <2>2, <3>2 DEF KeeperInv
    <3> QED BY <2>0, <3>3, KeptOn
  <2> QED BY <2>3, <2>4
<1>7. CountInv'
  BY <1>0 DEF CountInv, Owners
<1>8. \A t \in Requests : Course(t)' /\ KeeperInv(t)'
  BY <1>4, <1>6
<1> QED BY <1>3, <1>5, <1>7, <1>8 DEF LeaseInv

(* What the three of them have in common.                                  *)
LEMMA PopTypes ==
  ASSUME Types, NEW h \in Handlers, NEW added \in SUBSET Requests, NEW removed, PopExpired(h, added, removed),
         UNCHANGED <<storeVars, poolVars, nodeVars, authVars, got, ctxDone>>
  PROVE  /\ PoolTypeOK' /\ OtherTypes' /\ leases' \in SUBSET Requests
         /\ UNCHANGED <<node, accountID, owned, inUse>>
         /\ batch' = [batch EXCEPT ![h] = leases \cap expired]
<1>1. PoolTypeOK'
  BY PoolStays
<1>2. leases' \in SUBSET Requests /\ batch' = [batch EXCEPT ![h] = leases \cap expired] /\ expired' = expired
      /\ overtaken' \in SUBSET Requests
  BY DEF PopExpired, Types, KeptTypes, OtherTypes
<1>3. /\ UNCHANGED <<node, accountID, owned, inUse>>
      /\ switched' = switched /\ tried' = tried /\ got' = got /\ ctxDone' = ctxDone
  BY DEF nodeVars, authVars, poolVars
<1>4. OtherTypes'
  BY <1>2, <1>3 DEF Types, OtherTypes
<1> QED BY <1>1, <1>2, <1>3, <1>4

LEMMA SweepStep ==
  ASSUME LeaseInv, NEW s \in Requests, NEW kind \in Kinds, Sweep(<<s, kind>>)
  PROVE  LeaseInv'
<1>0. Types /\ BatchInv /\ Course(s) /\ KeeperInv(s)
  BY DEF LeaseInv
<1>1. PICK h \in Handlers : h = <<s, kind>>
  BY DEF Handlers
<1>2. kind \in {"prepare", "release"}
  BY <1>0 DEF Course, Kinds, Sweep
<1>3. PICK v \in HandlerStates : /\ v \in {"determine", "pop"}
                                 /\ v = AfterSweep[kind]
  BY <1>2 DEF AfterSweep, HandlerStates
<1>4. /\ goPc[h] = "sweep" /\ goPc' = [goPc EXCEPT ![h] = v] /\ PopExpired(h, {}, {})
      /\ UNCHANGED <<storeVars, poolVars, nodeVars, authVars, got, ctxDone>>
  BY <1>1, <1>3 DEF Sweep, GoTo
<1>5. /\ PoolTypeOK' /\ OtherTypes' /\ leases' \in SUBSET Requests
      /\ UNCHANGED <<node, accountID, owned, inUse>>
      /\ batch' = [batch EXCEPT ![h] = leases \cap expired]
  <2>1. Types /\ {} \in SUBSET Requests
    BY <1>0
  <2> QED BY <1>4, <2>1, PopTypes
<1>6. leases' = leases \ expired /\ batch[h] = {}
  BY <1>0, <1>4 DEF PopExpired, BatchInv
<1>7. /\ goPc'[h] = v
      /\ \A l \in Kinds : l # kind => goPc'[<<s, l>>] = goPc[<<s, l>>]
  BY <1>0, <1>1, <1>4, HandlerMoves
<1>8. Course(s)'
  BY <1>0, <1>1, <1>2, <1>3, <1>4, <1>5, <1>7 DEF Course, Kinds, AfterSweep
<1>9. /\ goPc'[<<s, "prepare">>] = "upstream" <=> goPc[<<s, "prepare">>] = "upstream"
      /\ goPc'[<<s, "release">>] = "release" <=> goPc[<<s, "release">>] = "release"
      /\ node'[s] = "idle" \/ goPc'[<<s, "prepare">>] \in {"sweep", "determine", "wait"} =>
          node[s] = "idle" \/ goPc[<<s, "prepare">>] \in {"sweep", "determine", "wait"}
  BY <1>1, <1>2, <1>3, <1>4, <1>5, <1>7 DEF Kinds
<1>10. KeeperInv(s)'
  <2>1. CASE s \in leases \cap expired
    <3>1. <<s, "table">> \in Keepers(s) /\ \A k, l \in Keepers(s) : k = l
      BY <1>0, <2>1, KeeperElements DEF KeeperInv
    <3>2. <<s, "prepare">> \notin Keepers(s) /\ <<s, "release">> \notin Keepers(s)
      BY <3>1
    <3>3. goPc'[<<s, "prepare">>] # "upstream" /\ goPc'[<<s, "release">>] # "release"
      BY <1>9, <3>2, KeeperElements
    <3>4. Keepers(s) = {<<s, "table">>} /\ Keepers(s)' = {h}
      BY <1>5, <1>6, <2>1, <3>3, Popped
    <3>5. /\ Keepers(s)' = {} <=> Keepers(s) = {}
          /\ \A k, l \in Keepers(s)' : k = l
          /\ node'[s] = "idle" \/ goPc'[<<s, "prepare">>] \in {"sweep", "determine", "wait"} => Keepers(s)' = {}
          /\ accountID'[s] = accountID[s] /\ owned'[s] = owned[s]
      BY <1>0, <1>5, <1>9, <3>4 DEF KeeperInv
    <3> QED BY <1>0, <3>5, KeptOn
  <2>2. CASE s \notin leases \cap expired
    <3>1. s \in leases' <=> s \in leases
      BY <1>6, <2>2
    <3>2. Keepers(s)' = Keepers(s)
      BY <1>5, <1>6, <1>9, <2>2, <3>1, NotPopped
    <3>3. /\ Keepers(s)' = {} <=> Keepers(s) = {}
          /\ \A k, l \in Keepers(s)' : k = l
          /\ node'[s] = "idle" \/ goPc'[<<s, "prepare">>] \in {"sweep", "determine", "wait"} => Keepers(s)' = {}
          /\ accountID'[s] = accountID[s] /\ owned'[s] = owned[s]
      BY <1>0, <1>5, <1>9, <3>2 DEF KeeperInv
    <3> QED BY <1>0, <3>3, KeptOn
  <2> QED BY <2>1, <2>2
<1>11. /\ \A t \in Requests \ {s} : t \in leases' <=> t \in leases \ expired
       /\ v \in {"determine", "pop", "reply", "release"}
       /\ v = "release" => s \notin leases \cap expired
  BY <1>3, <1>6
<1> QED BY <1>1, <1>4, <1>5, <1>6, <1>8, <1>10, <1>11, PopStep

(* The stream's slot passes from the prepare handler to the table.         *)
LEMMA HoldStep ==
  ASSUME LeaseInv, NEW s \in Requests, holdStreamLease(s)
  PROVE  LeaseInv'
<1>0. Types /\ BatchInv /\ Course(s) /\ KeeperInv(s)
  BY DEF LeaseInv
<1>1. PICK kind \in Kinds, h \in Handlers, v \in HandlerStates : kind = "prepare" /\ h = <<s, kind>> /\ v = "reply"
  BY DEF Handlers, Kinds, HandlerStates
<1>4. /\ goPc[h] = "upstream" /\ goPc' = [goPc EXCEPT ![h] = v] /\ PopExpired(h, {s}, {})
      /\ UNCHANGED <<storeVars, poolVars, nodeVars, authVars, got, ctxDone>>
  BY <1>1 DEF holdStreamLease, GoTo
<1>5. /\ PoolTypeOK' /\ OtherTypes' /\ leases' \in SUBSET Requests
      /\ UNCHANGED <<node, accountID, owned, inUse>>
      /\ batch' = [batch EXCEPT ![h] = leases \cap expired]
  <2>1. Types /\ {s} \in SUBSET Requests
    BY <1>0
  <2> QED BY <1>4, <2>1, PopTypes
<1>6. leases' = (leases \ expired) \cup {s} /\ batch[h] = {}
  BY <1>0, <1>4 DEF PopExpired, BatchInv
<1>7. /\ goPc'[h] = v
      /\ \A l \in Kinds : l # kind => goPc'[<<s, l>>] = goPc[<<s, l>>]
  <2>1. Types /\ h = <<s, kind>>
    BY <1>0, <1>1
  <2> QED BY <1>4, <2>1, HandlerMoves
<1>8. Course(s)'
  BY <1>0, <1>1, <1>4, <1>5, <1>7 DEF Course, Kinds
<1>9. Keepers(s) = {<<s, "prepare">>}
  BY <1>0, <1>1, <1>4, KeeperElements DEF KeeperInv
<1>10. /\ s \notin leases /\ goPc[<<s, "release">>] # "release"
       /\ \A g \in Handlers : s \notin batch[g]
  <2>1. \A g \in Handlers : g # h => s \notin batch[g]
    BY <1>1, <1>9, KeeperElements
  <2>2. <<s, "table">> \notin Keepers(s) /\ <<s, "release">> \notin Keepers(s)
    BY <1>9
  <2> QED BY <1>6, <2>1, <2>2, KeeperElements
<1>11. \A g \in Handlers : s \notin batch'[g]
  BY <1>0, <1>5, <1>10 DEF Types, KeptTypes
<1>12. /\ goPc'[<<s, "prepare">>] = "reply" /\ goPc'[<<s, "release">>] # "release" /\ s \in leases'
  BY <1>1, <1>6, <1>7, <1>10 DEF Kinds
<1>13. Keepers(s)' = {<<s, "table">>}
  BY <1>11, <1>12 DEF Keepers
<1>14. node[s] # "idle"
  BY <1>0, <1>1, <1>4 DEF Course
<1>15. KeeperInv(s)'
  <2>1. /\ Keepers(s)' = {} <=> Keepers(s) = {}
        /\ \A k, l \in Keepers(s)' : k = l
        /\ node'[s] = "idle" \/ goPc'[<<s, "prepare">>] \in {"sweep", "determine", "wait"} => Keepers(s)' = {}
        /\ accountID'[s] = accountID[s] /\ owned'[s] = owned[s]
    BY <1>5, <1>9, <1>12, <1>13, <1>14
  <2> QED BY <1>0, <2>1, KeptOn
<1>16. /\ \A t \in Requests \ {s} : t \in leases' <=> t \in leases \ expired
       /\ v \in {"determine", "pop", "reply", "release"}
       /\ v = "release" => s \notin leases \cap expired
       /\ h = <<s, kind>>
  BY <1>1, <1>6
<1> QED BY <1>4, <1>5, <1>6, <1>8, <1>15, <1>16, PopStep

(* The slot passes from the table to the release handler, unless the lease *)
(* has expired or is gone.                                                 *)
LEMMA PopLeaseStep ==
  ASSUME LeaseInv, NEW s \in Requests, releaseStreamLease(s)
  PROVE  LeaseInv'
<1>0. Types /\ BatchInv /\ Course(s) /\ KeeperInv(s)
  BY DEF LeaseInv
<1>1. PICK kind \in Kinds, h \in Handlers : kind = "release" /\ h = <<s, kind>>
  BY DEF Handlers, Kinds
<1>2. PICK v \in HandlerStates : v = IF s \in leases \ expired THEN "release" ELSE "reply"
  BY DEF HandlerStates
<1>4. /\ goPc[h] = "pop" /\ goPc' = [goPc EXCEPT ![h] = v] /\ PopExpired(h, {}, {s}) /\ batch[h] = {}
      /\ UNCHANGED <<storeVars, poolVars, nodeVars, authVars, got, ctxDone>>
  BY <1>1, <1>2 DEF releaseStreamLease, GoTo, Ready
<1>5. /\ PoolTypeOK' /\ OtherTypes' /\ leases' \in SUBSET Requests
      /\ UNCHANGED <<node, accountID, owned, inUse>>
      /\ batch' = [batch EXCEPT ![h] = leases \cap expired]
  <2>1. Types /\ {} \in SUBSET Requests
    BY <1>0
  <2> QED BY <1>4, <2>1, PopTypes
<1>6. leases' = (leases \ expired) \ {s}
  BY <1>4 DEF PopExpired
<1>7. /\ goPc'[h] = v
      /\ \A l \in Kinds : l # kind => goPc'[<<s, l>>] = goPc[<<s, l>>]
  <2>1. Types /\ h = <<s, kind>>
    BY <1>0, <1>1
  <2> QED BY <1>4, <2>1, HandlerMoves
<1>8. Course(s)'
  BY <1>0, <1>1, <1>2, <1>4, <1>5, <1>7 DEF Course, Kinds
<1>9. /\ goPc'[<<s, "prepare">>] = goPc[<<s, "prepare">>]
      /\ goPc[<<s, "release">>] = "pop" /\ goPc'[<<s, "release">>] = v
  BY <1>1, <1>4, <1>7 DEF Kinds
<1>10. ASSUME s \in leases PROVE KeeperInv(s)'
  <2>1. Keepers(s) = {<<s, "table">>}
    BY <1>0, <1>10, KeeperElements DEF KeeperInv
  <2>2. /\ goPc[<<s, "prepare">>] # "upstream"
        /\ \A g \in Handlers : s \notin batch[g]
    <3>1. \A g \in Handlers : s \notin batch[g]
      <4>1. \A g \in Handlers : g # <<s, "table">>
        BY DEF Handlers, Kinds
      <4>2. \A g \in Handlers : g \notin Keepers(s)
        BY <2>1, <4>1
      <4> QED BY <4>2, KeeperElements
    <3>2. <<s, "prepare">> \notin Keepers(s)
      BY <2>1
    <3> QED BY <3>1, <3>2, KeeperElements
  <2>3. /\ node[s] # "idle" /\ goPc[<<s, "prepare">>] \notin {"sweep", "determine", "wait"}
    BY <1>0, <2>1 DEF KeeperInv
  <2>4. \E k : Keepers(s)' = {k}
    <3>1. CASE s \in expired
      BY <1>2, <1>5, <1>6, <1>9, <1>10, <2>2, <3>1, Popped
    <3>2. CASE s \notin expired
      <4>1. \A g \in Handlers : s \notin batch'[g]
        BY <1>0, <1>5, <2>2, <3>2 DEF Types, KeptTypes
      <4>2. Keepers(s)' = {<<s, "release">>}
        BY <1>2, <1>6, <1>9, <1>10, <2>2, <3>2, <4>1 DEF Keepers
      <4> QED BY <4>2
    <3> QED BY <3>1, <3>2
  <2>5. /\ Keepers(s)' = {} <=> Keepers(s) = {}
        /\ \A k, l \in Keepers(s)' : k = l
        /\ node'[s] = "idle" \/ goPc'[<<s, "prepare">>] \in {"sweep", "determine", "wait"} => Keepers(s)' = {}
        /\ accountID'[s] = accountID[s] /\ owned'[s] = owned[s]
    BY <1>5, <1>9, <2>1, <2>3, <2>4
  <2> QED BY <1>0, <2>5, KeptOn
<1>11. ASSUME s \notin leases PROVE KeeperInv(s)'
  <2>1. s \notin leases \cap expired /\ (s \in leases' <=> s \in leases) /\ v = "reply"
    BY <1>2, <1>6, <1>11
  <2>2. /\ goPc'[<<s, "prepare">>] = "upstream" <=> goPc[<<s, "prepare">>] = "upstream"
        /\ goPc'[<<s, "release">>] = "release" <=> goPc[<<s, "release">>] = "release"
    BY <1>9, <2>1
  <2>3. Keepers(s)' = Keepers(s)
    BY <1>4, <1>5, <2>1, <2>2, NotPopped
  <2>4. /\ Keepers(s)' = {} <=> Keepers(s) = {}
        /\ \A k, l \in Keepers(s)' : k = l
        /\ node'[s] = "idle" \/ goPc'[<<s, "prepare">>] \in {"sweep", "determine", "wait"} => Keepers(s)' = {}
        /\ accountID'[s] = accountID[s] /\ owned'[s] = owned[s]
    BY <1>0, <1>5, <1>9, <2>3 DEF KeeperInv
  <2> QED BY <1>0, <2>4, KeptOn
<1>12. /\ \A t \in Requests \ {s} : t \in leases' <=> t \in leases \ expired
       /\ v \in {"determine", "pop", "reply", "release"}
       /\ v = "release" => s \notin leases \cap expired
       /\ h = <<s, kind>>
  BY <1>1, <1>2, <1>6
<1>13. KeeperInv(s)'
  BY <1>10, <1>11
<1> QED BY <1>4, <1>5, <1>8, <1>12, <1>13, PopStep

-----------------------------------------------------------------------------
(* Steps that take a slot or give one back.                                *)

LEMMA OwnersFinite == ASSUME NEW a PROVE IsFiniteSet(Owners(a)) /\ Cardinality(Owners(a)) \in Nat
<1>1. Owners(a) \subseteq Requests
  BY DEF Owners
<1> QED BY <1>1, PoolAssumption, FS_Subset, FS_CardinalityType

(* What a stream keeps while it is another's turn.                         *)
LEMMA OthersKeep ==
  ASSUME NEW t \in Requests, KeeperInv(t), Keepers(t)' = Keepers(t), node'[t] = node[t],
         goPc'[<<t, "prepare">>] = goPc[<<t, "prepare">>],
         accountID'[t] = accountID[t], owned'[t] = owned[t]
  PROVE  KeeperInv(t)'
BY DEF KeeperInv

LEMMA GrantStep ==
  ASSUME LeaseInv, NEW s \in Requests, PrepareGranted(s)
  PROVE  LeaseInv'
<1>0. Types /\ BatchInv /\ CountInv /\ Course(s) /\ KeeperInv(s)
  BY DEF LeaseInv
<1>a. \A t \in Requests : Course(t) /\ KeeperInv(t)
  BY DEF LeaseInv
<1>1. PICK kind \in Kinds, h \in Handlers, v \in HandlerStates :
        kind = "prepare" /\ h = <<s, kind>> /\ v = "upstream"
  BY DEF Handlers, Kinds, HandlerStates
<1>2. PICK a \in Accounts : /\ acquireLocked(a, NoAccount, {})
                            /\ accountID' = [accountID EXCEPT ![s] = a]
                            /\ owned' = [owned EXCEPT ![s][a] = @ + 1]
  BY DEF PrepareGranted
<1>3. /\ goPc[h] = "determine" /\ goPc' = [goPc EXCEPT ![h] = v] /\ batch[h] = {}
      /\ UNCHANGED <<storeVars, nodeVars, tableVars, tried, batch, got, ctxDone>>
  BY <1>1 DEF PrepareGranted, GoTo, Ready
<1>4. PoolTypeOK'
  <2>1. PoolTypeOK /\ UNCHANGED storeVars /\ acquireLocked(a, NoAccount, {})
    BY <1>0, <1>2, <1>3 DEF Types
  <2> QED BY <2>1, AcquireType
<1>5. UNCHANGED <<node, switched, leases, expired, overtaken, tried, batch, got, ctxDone>>
  BY <1>3 DEF nodeVars, tableVars
<1>6. OtherTypes'
  BY <1>0, <1>5 DEF Types, OtherTypes
<1>7. /\ goPc' \in [Handlers -> HandlerStates]
      /\ goPc'[h] = v
      /\ \A g \in Handlers : g # h => goPc'[g] = goPc[g]
      /\ \A l \in Kinds : l # kind => goPc'[<<s, l>>] = goPc[<<s, l>>]
      /\ \A t \in Requests : t # s => \A l \in Kinds : goPc'[<<t, l>>] = goPc[<<t, l>>]
  <2>1. Types /\ h = <<s, kind>>
    BY <1>0, <1>1
  <2> QED BY <1>3, <2>1, HandlerMoves
<1>8. Course(s)'
  BY <1>0, <1>1, <1>3, <1>5, <1>7 DEF Course, Kinds
<1>9. \A t \in Requests : t # s => Course(t)'
  BY <1>a, <1>5, <1>7, CourseStays
<1>10. BatchInv'
  <2>1. \A g \in Handlers : goPc'[g] \notin {"determine", "pop", "reply", "release"} => batch'[g] = {}
    BY <1>0, <1>3, <1>5, <1>7 DEF BatchInv
  <2>2. \A t \in Requests : goPc'[<<t, "release">>] = goPc[<<t, "release">>]
    BY <1>1, <1>7 DEF Kinds
  <2> QED BY <1>0, <1>5, <2>1, <2>2 DEF BatchInv
<1>11. Keepers(s) = {} /\ \A b \in Accounts : owned[s][b] = 0
  BY <1>0, <1>1, <1>3 DEF KeeperInv
<1>12. owned \in [Requests -> [Accounts -> Nat]] /\ accountID \in [Requests -> Accounts \cup {NoAccount}]
  BY <1>0 DEF Types, KeptTypes
<1>13. /\ owned' \in [Requests -> [Accounts -> Nat]]
       /\ \A b \in Accounts : owned'[s][b] = IF b = a THEN 1 ELSE 0
       /\ \A t \in Requests : t # s => owned'[t] = owned[t]
  <2>0. owned[s] \in [Accounts -> Nat] /\ owned[s][a] + 1 \in Nat
    BY <1>12
  <2>a. [owned[s] EXCEPT ![a] = @ + 1] \in [Accounts -> Nat]
    BY <2>0
  <2>1. PICK after \in [Accounts -> Nat] : after = [owned[s] EXCEPT ![a] = @ + 1]
    BY <2>a
  <2>2. owned' = [owned EXCEPT ![s] = after]
    BY <1>2, <1>12, <2>1
  <2>3. \A b \in Accounts : after[b] = IF b = a THEN 1 ELSE 0
    BY <1>11, <1>12, <2>1
  <2>4. owned' \in [Requests -> [Accounts -> Nat]]
    BY <1>12, <2>2
  <2>5. owned'[s] = after /\ \A t \in Requests : t # s => owned'[t] = owned[t]
    BY <1>12, <2>2
  <2> QED BY <2>3, <2>4, <2>5
<1>14. /\ accountID' \in [Requests -> Accounts \cup {NoAccount}] /\ accountID'[s] = a
       /\ \A t \in Requests : t # s => accountID'[t] = accountID[t]
  BY <1>2, <1>12
<1>15. Types'
  BY <1>0, <1>4, <1>5, <1>6, <1>7, <1>13, <1>14 DEF Types, KeptTypes
<1>16. Keepers(s)' = {<<s, "prepare">>}
  <2>1. \A g \in Handlers : s \notin batch[g]
    BY <1>11, KeeperElements
  <2>2. s \notin leases /\ goPc[<<s, "release">>] # "release"
    BY <1>11, KeeperElements
  <2>3. goPc'[<<s, "prepare">>] = "upstream" /\ goPc'[<<s, "release">>] # "release"
    BY <1>1, <1>7, <2>2 DEF Kinds
  <2> QED BY <1>5, <2>1, <2>2, <2>3 DEF Keepers
<1>17. KeeperInv(s)'
  <2>1. node'[s] # "idle" /\ goPc'[<<s, "prepare">>] = "upstream"
    BY <1>0, <1>1, <1>3, <1>5, <1>7 DEF Course
  <2> QED BY <1>13, <1>14, <1>16, <2>1 DEF KeeperInv
<1>18. ASSUME NEW t \in Requests, t # s PROVE KeeperInv(t)'
  <2>1. goPc'[<<t, "prepare">>] = goPc[<<t, "prepare">>] /\ goPc'[<<t, "release">>] = goPc[<<t, "release">>]
    BY <1>7, <1>18 DEF Kinds
  <2>2. Keepers(t)' = Keepers(t)
    BY <1>5, <2>1, SameKeepers
  <2>3. KeeperInv(t) /\ node'[t] = node[t] /\ accountID'[t] = accountID[t] /\ owned'[t] = owned[t]
    BY <1>a, <1>5, <1>13, <1>14, <1>18
  <2> QED BY <2>1, <2>2, <2>3, OthersKeep
<1>19. CountInv'
  <2>0. inUse \in [Accounts -> Nat] /\ inUse' = [inUse EXCEPT ![a] = @ + 1]
    BY <1>0, <1>2 DEF Types, PoolTypeOK, acquireLocked
  <2>1. s \notin Owners(a) /\ Owners(a)' = Owners(a) \cup {s}
    BY <1>11, <1>13 DEF Owners
  <2>2. Cardinality(Owners(a)') = Cardinality(Owners(a)) + 1
    BY <2>1, OwnersFinite, FS_AddElement
  <2>3. \A b \in Accounts : b # a => Owners(b)' = Owners(b)
    BY <1>11, <1>13 DEF Owners
  <2>4. ASSUME NEW b \in Accounts PROVE inUse'[b] = Cardinality(Owners(b)')
    <3>1. inUse[b] = Cardinality(Owners(b))
      BY <1>0 DEF CountInv
    <3>2. CASE b = a
      BY <2>0, <2>2, <3>1, <3>2
    <3>3. CASE b # a
      BY <2>0, <2>3, <3>1, <3>3
    <3> QED BY <3>2, <3>3
  <2> QED BY <2>4 DEF CountInv, Owners
<1>20. \A t \in Requests : Course(t)' /\ KeeperInv(t)'
  BY <1>8, <1>9, <1>17, <1>18
<1> QED BY <1>10, <1>15, <1>19, <1>20 DEF LeaseInv

(* A release by a keeper gives the stream's one slot back.                 *)
LEMMA GiveBack ==
  ASSUME LeaseInv, NEW s \in Requests, Keepers(s) # {}, AuthRelease(s), UNCHANGED storeVars
  PROVE  /\ PoolTypeOK' /\ CountInv'
         /\ owned' \in [Requests -> [Accounts -> Nat]]
         /\ \A b \in Accounts : owned'[s][b] = 0
         /\ \A t \in Requests : t # s => owned'[t] = owned[t]
<1>0. Types /\ CountInv /\ KeeperInv(s)
  BY DEF LeaseInv
<1>1. PICK a \in Accounts : a = accountID[s]
  BY <1>0 DEF KeeperInv
<1>2. /\ owned \in [Requests -> [Accounts -> Nat]] /\ inUse \in [Accounts -> Nat]
      /\ \A b \in Accounts : owned[s][b] = IF b = a THEN 1 ELSE 0
  BY <1>0, <1>1 DEF KeeperInv, Types, KeptTypes, PoolTypeOK
<1>3. Release(a) /\ owned' = [owned EXCEPT ![s][a] = @ - 1]
  BY <1>1, <1>2 DEF AuthRelease
<1>4. PoolTypeOK'
  BY <1>0, <1>3, ReleaseType DEF Types
<1>5. s \in Owners(a) /\ Cardinality(Owners(a)) \in Nat \ {0}
  <2>1. s \in Owners(a)
    BY <1>2 DEF Owners
  <2> QED BY <2>1, OwnersFinite, FS_EmptySet
<1>6. inUse[a] > 0 /\ inUse' = [inUse EXCEPT ![a] = @ - 1]
  <2>1. inUse[a] > 0
    BY <1>0, <1>2, <1>5 DEF CountInv
  <2> QED BY <1>3, <2>1 DEF Release
<1>7. /\ owned' \in [Requests -> [Accounts -> Nat]]
      /\ \A b \in Accounts : owned'[s][b] = 0
      /\ \A t \in Requests : t # s => owned'[t] = owned[t]
  <2>0. owned[s] \in [Accounts -> Nat] /\ owned[s][a] - 1 \in Nat
    BY <1>2
  <2>a. [owned[s] EXCEPT ![a] = @ - 1] \in [Accounts -> Nat]
    BY <2>0
  <2>1. PICK after \in [Accounts -> Nat] : after = [owned[s] EXCEPT ![a] = @ - 1]
    BY <2>a
  <2>2. owned' = [owned EXCEPT ![s] = after]
    BY <1>2, <1>3, <2>1
  <2>3. \A b \in Accounts : after[b] = 0
    BY <1>2, <2>1
  <2>4. owned' \in [Requests -> [Accounts -> Nat]]
    BY <1>2, <2>2
  <2>5. owned'[s] = after /\ \A t \in Requests : t # s => owned'[t] = owned[t]
    BY <1>2, <2>2
  <2> QED BY <2>3, <2>4, <2>5
<1>8. Owners(a)' = Owners(a) \ {s}
  BY <1>2, <1>7 DEF Owners
<1>9. Cardinality(Owners(a)') = Cardinality(Owners(a)) - 1
  BY <1>5, <1>8, OwnersFinite, FS_RemoveElement
<1>10. \A b \in Accounts : b # a => Owners(b)' = Owners(b)
  BY <1>2, <1>7 DEF Owners
<1>11. ASSUME NEW b \in Accounts PROVE inUse'[b] = Cardinality(Owners(b)')
  <2>1. inUse[b] = Cardinality(Owners(b))
    BY <1>0 DEF CountInv
  <2>2. CASE b = a
    BY <1>2, <1>5, <1>6, <1>9, <2>1, <2>2
  <2>3. CASE b # a
    BY <1>2, <1>6, <1>10, <2>1, <2>3
  <2> QED BY <2>2, <2>3
<1>12. CountInv'
  BY <1>11 DEF CountInv, Owners
<1> QED BY <1>4, <1>7, <1>12

(* A stream without keepers, whose slot has just been given back.          *)
LEMMA KeptNoMore ==
  ASSUME NEW s \in Requests, Keepers(s)' = {}, \A b \in Accounts : owned'[s][b] = 0
  PROVE  KeeperInv(s)'
BY DEF KeeperInv

(* The handler that swept releases an expired lease.                       *)
LEMMA DropStep ==
  ASSUME LeaseInv, NEW h \in Handlers, DropExpired(h)
  PROVE  LeaseInv'
<1>0. Types /\ BatchInv /\ \A t \in Requests : Course(t) /\ KeeperInv(t)
  BY DEF LeaseInv
<1>1. /\ batch \in [Handlers -> SUBSET Requests]
      /\ UNCHANGED <<storeVars, nodeVars, tableVars, accountID, tried, goPc, got, ctxDone>>
  BY <1>0 DEF DropExpired, Types, KeptTypes
<1>2. PICK s \in Requests : s \in batch[h] /\ AuthRelease(s) /\ batch' = [batch EXCEPT ![h] = @ \ {s}]
  BY <1>1 DEF DropExpired
<1>3. UNCHANGED <<node, switched, leases, expired, overtaken, accountID, tried, goPc, got, ctxDone>>
  BY <1>1 DEF nodeVars, tableVars
<1>4. Keepers(s) = {h}
  <2>1. h \in Keepers(s)
    BY <1>2, KeeperElements
  <2> QED BY <1>0, <2>1, ZenonT(60) DEF KeeperInv
<1>5. /\ PoolTypeOK' /\ CountInv'
      /\ owned' \in [Requests -> [Accounts -> Nat]]
      /\ \A b \in Accounts : owned'[s][b] = 0
      /\ \A t \in Requests : t # s => owned'[t] = owned[t]
  <2>1. Keepers(s) # {} /\ AuthRelease(s) /\ UNCHANGED storeVars
    BY <1>1, <1>2, <1>4
  <2> QED BY <2>1, GiveBack
<1>6. /\ batch' \in [Handlers -> SUBSET Requests] /\ batch'[h] = batch[h] \ {s}
      /\ \A g \in Handlers : g # h => batch'[g] = batch[g]
  BY <1>1, <1>2
<1>7. Types'
  BY <1>0, <1>3, <1>5, <1>6 DEF Types, KeptTypes, OtherTypes
<1>8. BatchInv'
  <2>1. \A g \in Handlers : batch'[g] \subseteq batch[g]
    BY <1>6
  <2>2. \A g \in Handlers : goPc'[g] \notin {"determine", "pop", "reply", "release"} => batch'[g] = {}
    BY <1>0, <1>3, <2>1 DEF BatchInv
  <2>3. \A t \in Requests : <<t, "release">> \in Handlers
    BY DEF Handlers, Kinds
  <2>4. \A t \in Requests : goPc'[<<t, "release">>] = "release" => t \notin batch'[<<t, "release">>]
    BY <1>0, <1>3, <2>1, <2>3 DEF BatchInv
  <2> QED BY <2>2, <2>4 DEF BatchInv
<1>9. Keepers(s)' = {}
  <2>1. \A g \in Handlers : s \notin batch'[g]
    <3>1. \A g \in Handlers : g # h => s \notin batch[g]
      BY <1>4, KeeperElements
    <3> QED BY <1>6, <3>1
  <2>2. s \notin leases'
    <3>1. h # <<s, "table">>
      BY DEF Handlers, Kinds
    <3>2. <<s, "table">> \notin Keepers(s)
      BY <1>4, <3>1
    <3> QED BY <1>3, <3>2, KeeperElements
  <2>3. goPc'[<<s, "prepare">>] # "upstream"
    <3>1. goPc[h] # "upstream"
      BY <1>0, <1>2 DEF BatchInv
    <3>2. goPc[<<s, "prepare">>] = "upstream" => h = <<s, "prepare">>
      BY <1>4, KeeperElements
    <3> QED BY <1>3, <3>1, <3>2
  <2>4. goPc'[<<s, "release">>] # "release"
    <3>1. goPc[<<s, "release">>] = "release" => h = <<s, "release">>
      BY <1>4, KeeperElements
    <3>2. goPc[<<s, "release">>] = "release" => s \notin batch[<<s, "release">>]
      BY <1>0 DEF BatchInv
    <3> QED BY <1>2, <1>3, <3>1, <3>2
  <2> QED BY <2>1, <2>2, <2>3, <2>4 DEF Keepers
<1>10. KeeperInv(s)'
  BY <1>5, <1>9, KeptNoMore
<1>11. ASSUME NEW t \in Requests, t # s PROVE KeeperInv(t)'
  <2>1. \A g \in Handlers : t \in batch'[g] <=> t \in batch[g]
    BY <1>6, <1>11
  <2>2. Keepers(t)' = Keepers(t)
    BY <1>3, <2>1 DEF Keepers
  <2>3. /\ KeeperInv(t) /\ node'[t] = node[t] /\ accountID'[t] = accountID[t] /\ owned'[t] = owned[t]
        /\ goPc'[<<t, "prepare">>] = goPc[<<t, "prepare">>]
    BY <1>0, <1>3, <1>5, <1>11
  <2> QED BY <2>2, <2>3, OthersKeep
<1>12. \A t \in Requests : Course(t)'
  BY <1>0, <1>3, CourseStays
<1>13. \A t \in Requests : Course(t)' /\ KeeperInv(t)'
  BY <1>10, <1>11, <1>12
<1> QED BY <1>5, <1>7, <1>8, <1>13 DEF LeaseInv

(* A handler that keeps the slot itself releases it and answers.           *)
LEMMA EndStep ==
  ASSUME LeaseInv, NEW s \in Requests, NEW kind \in Kinds, NEW outcome \in {"ok", "failed"},
         \/ kind = "prepare" /\ goPc[<<s, kind>>] = "upstream"
         \/ kind = "release" /\ goPc[<<s, kind>>] = "release",
         batch[<<s, kind>>] = {}, AuthRelease(s), Respond(s, kind, outcome),
         UNCHANGED <<storeVars, tableVars, accountID, tried, batch, got, ctxDone>>
  PROVE  LeaseInv'
<1>0. Types /\ BatchInv /\ Course(s) /\ KeeperInv(s)
  BY DEF LeaseInv
<1>a. \A t \in Requests : Course(t) /\ KeeperInv(t)
  BY DEF LeaseInv
<1>1. PICK h \in Handlers, v \in HandlerStates : h = <<s, kind>> /\ v = "none"
  BY DEF Handlers, HandlerStates
<1>2. /\ goPc' = [goPc EXCEPT ![<<s, kind>>] = "none"] /\ UNCHANGED switched
      /\ \E w \in NodeStates : node' = [node EXCEPT ![s] = w] /\ (w = "idle" => node[s] = "idle")
      /\ Course(s)'
  BY <1>0, Answered
<1>3. PICK w \in NodeStates : node' = [node EXCEPT ![s] = w]
  BY <1>2
<1>4. Keepers(s) = {h}
  <2>1. h \in Keepers(s)
    BY <1>1, KeeperElements
  <2> QED BY <1>0, <2>1 DEF KeeperInv
<1>5. /\ PoolTypeOK' /\ CountInv'
      /\ owned' \in [Requests -> [Accounts -> Nat]]
      /\ \A b \in Accounts : owned'[s][b] = 0
      /\ \A t \in Requests : t # s => owned'[t] = owned[t]
  <2>1. Keepers(s) # {} /\ UNCHANGED storeVars
    BY <1>4
  <2> QED BY <2>1, GiveBack
<1>6. UNCHANGED <<switched, leases, expired, overtaken, accountID, tried, batch, got, ctxDone>>
  BY <1>2 DEF tableVars
<1>7. /\ goPc' \in [Handlers -> HandlerStates]
      /\ goPc'[h] = v
      /\ \A g \in Handlers : g # h => goPc'[g] = goPc[g]
      /\ \A l \in Kinds : l # kind => goPc'[<<s, l>>] = goPc[<<s, l>>]
      /\ \A t \in Requests : t # s => \A l \in Kinds : goPc'[<<t, l>>] = goPc[<<t, l>>]
  <2>1. Types /\ goPc' = [goPc EXCEPT ![h] = v] /\ h = <<s, kind>>
    BY <1>0, <1>1, <1>2
  <2> QED BY <2>1, HandlerMoves, ZenonT(60)
<1>8. /\ node' \in [Requests -> NodeStates] /\ node'[s] = w
      /\ \A t \in Requests : t # s => node'[t] = node[t]
  BY <1>0, <1>3, NodeMoves
<1>9. Types'
  BY <1>0, <1>5, <1>6, <1>7, <1>8 DEF Types, KeptTypes, OtherTypes
<1>10. BatchInv'
  <2>1. \A g \in Handlers : goPc'[g] \notin {"determine", "pop", "reply", "release"} => batch'[g] = {}
    BY <1>0, <1>1, <1>6, <1>7 DEF BatchInv
  <2>2. \A t \in Requests : goPc'[<<t, "release">>] = "release" => goPc[<<t, "release">>] = "release"
    <3>1. \A t \in Requests : <<t, "release">> \in Handlers
      BY DEF Handlers, Kinds
    <3> QED BY <1>1, <1>7, <3>1
  <2> QED BY <1>0, <1>6, <2>1, <2>2 DEF BatchInv
<1>11. Keepers(s)' = {}
  <2>1. \A g \in Handlers : s \notin batch[g]
    BY <1>1, <1>4, KeeperElements
  <2>2. s \notin leases
    <3>1. h # <<s, "table">>
      BY DEF Handlers, Kinds
    <3> QED BY <1>4, <3>1, KeeperElements
  <2>3. goPc'[<<s, "prepare">>] # "upstream" /\ goPc'[<<s, "release">>] # "release"
    <3>1. /\ kind # "prepare" => goPc[<<s, "prepare">>] # "upstream"
          /\ kind # "release" => goPc[<<s, "release">>] # "release"
      BY <1>1, <1>4, KeeperElements
    <3> QED BY <1>1, <1>7, <3>1 DEF Kinds
  <2> QED BY <1>6, <2>1, <2>2, <2>3 DEF Keepers
<1>12. KeeperInv(s)'
  BY <1>5, <1>11, KeptNoMore
<1>13. ASSUME NEW t \in Requests, t # s PROVE KeeperInv(t)'
  <2>1. goPc'[<<t, "prepare">>] = goPc[<<t, "prepare">>] /\ goPc'[<<t, "release">>] = goPc[<<t, "release">>]
    BY <1>7, <1>13 DEF Kinds
  <2>2. Keepers(t)' = Keepers(t)
    BY <1>6, <2>1, SameKeepers
  <2>3. KeeperInv(t) /\ node'[t] = node[t] /\ accountID'[t] = accountID[t] /\ owned'[t] = owned[t]
    BY <1>a, <1>5, <1>6, <1>8, <1>13
  <2> QED BY <2>1, <2>2, <2>3, OthersKeep
<1>14. \A t \in Requests : t # s => Course(t)'
  BY <1>a, <1>7, <1>8, CourseStays
<1>15. \A t \in Requests : Course(t)' /\ KeeperInv(t)'
  BY <1>2, <1>12, <1>13, <1>14
<1> QED BY <1>5, <1>9, <1>10, <1>15 DEF LeaseInv

-----------------------------------------------------------------------------
(* Every step.                                                             *)

LEMMA LeaseInit == Init => LeaseInv
<1> SUFFICES ASSUME Init PROVE LeaseInv
  OBVIOUS
<1>1. Types
  <2>1. PICK runtime0 \in InitialRuntimes : PoolInit(InitialAccounts, runtime0, {})
    BY DEF Init
  <2>2. InitialAccounts \in Seq(Accounts) /\ runtime0 \in RuntimeSettings /\ {} \in SUBSET Accounts
    BY <2>1, LeaseAssumption
  <2>3. PoolTypeOK
    BY <2>1, <2>2, NewPoolType
  <2>4. KeptTypes /\ OtherTypes
    BY DEF Init, KeptTypes, OtherTypes
  <2> QED BY <2>3, <2>4 DEF Init, Types, NodeStates, HandlerStates
<1>2. \A s \in Requests : \A kind \in Kinds : goPc[<<s, kind>>] = "none"
  BY DEF Init, Handlers
<1>3. \A s \in Requests : Keepers(s) = {}
  BY <1>2 DEF Init, Keepers, Kinds
<1>4. \A s \in Requests : Course(s)
  BY <1>2 DEF Init, Course, Kinds
<1>5. \A s \in Requests : \A a \in Accounts : owned[s][a] = 0
  BY DEF Init
<1>6. \A s \in Requests : KeeperInv(s)
  BY <1>3, <1>5 DEF KeeperInv
<1>7. BatchInv
  BY <1>2 DEF Init, BatchInv, Kinds
<1>8. CountInv
  <2>1. \A a \in Accounts : Owners(a) = {}
    BY <1>5 DEF Owners
  <2>2. \A a \in Accounts : inUse[a] = 0
    BY DEF Init, PoolInit
  <2> QED BY <2>1, <2>2, FS_EmptySet DEF CountInv
<1> QED BY <1>1, <1>4, <1>6, <1>7, <1>8 DEF LeaseInv

LEMMA HandlersStep ==
  ASSUME LeaseInv, Switching = {}, NEW s \in Requests, NEW kind \in Kinds, HandlerStep(s, kind)
  PROVE  LeaseInv'
<1>0. BatchInv /\ Course(s)
  BY DEF LeaseInv
<1>1. PICK h \in Handlers : h = <<s, kind>>
  BY DEF Handlers
<1>2. CASE Sweep(<<s, kind>>)
  BY <1>2, SweepStep
<1>3. CASE DropExpired(<<s, kind>>)
  BY <1>1, <1>3, DropStep
<1>4. CASE Reply(<<s, kind>>) \/ (kind = "prepare" /\ PrepareRefused(s)) \/ UpstreamEnds(s, kind)
  BY <1>4, QuietAnswerStep
<1>5. CASE kind = "prepare" /\ PrepareGranted(s)
  BY <1>5, GrantStep
<1>6. CASE PrepareQueued(s) \/ PrepareWoken(s)
  BY <1>6, WaitStep
<1>7. CASE kind = "prepare" /\ PrepareFails(s)
  <2>1. /\ goPc[<<s, kind>>] = "upstream" /\ AuthRelease(s) /\ Respond(s, kind, "failed")
        /\ UNCHANGED <<storeVars, tableVars, accountID, tried, batch, got, ctxDone>>
    BY <1>7 DEF PrepareFails
  <2>2. batch[<<s, kind>>] = {}
    BY <1>0, <1>1, <2>1 DEF BatchInv
  <2> QED BY <1>7, <2>1, <2>2, EndStep
<1>8. CASE kind = "prepare" /\ holdStreamLease(s)
  BY <1>8, HoldStep
<1>9. CASE lookupStreamLease(s, kind)
  BY <1>9, LookupStep
<1>10. ~SwitchGivesBack(s, kind)
  BY <1>0 DEF SwitchGivesBack, Course, Kinds
<1>11. ~SwitchAcquires(s, kind) /\ ~SwitchAssigns(s, kind) /\ ~SwitchFindsNone(s, kind)
  BY <1>0 DEF SwitchAcquires, SwitchAssigns, SwitchFindsNone, Course, Kinds
<1>12. CASE kind = "release" /\ releaseStreamLease(s)
  BY <1>12, PopLeaseStep
<1>13. CASE kind = "release" /\ ReleaseLeased(s)
  <2>1. /\ goPc[<<s, kind>>] = "release" /\ AuthRelease(s) /\ Respond(s, kind, "ok")
        /\ batch[<<s, kind>>] = {}
        /\ UNCHANGED <<storeVars, tableVars, accountID, tried, batch, got, ctxDone>>
    BY <1>13 DEF ReleaseLeased, Ready
  <2> QED BY <1>13, <2>1, EndStep
<1> QED
  BY <1>2, <1>3, <1>4, <1>5, <1>6, <1>7, <1>8, <1>9, <1>10, <1>11, <1>12, <1>13 DEF HandlerStep

LEMMA LeaseStays == LeaseInv /\ UNCHANGED vars => LeaseInv'
<1> SUFFICES ASSUME LeaseInv, UNCHANGED vars PROVE LeaseInv'
  OBVIOUS
<1>1. UNCHANGED <<storeVars, poolVars>>
  BY DEF vars
<1>2. /\ UNCHANGED <<node, switched, leases, expired, overtaken, accountID, tried, owned, goPc, batch, got, ctxDone, inUse>>
  BY DEF vars, nodeVars, tableVars, authVars, goVars, poolVars
<1>3. Types'
  BY <1>1, <1>2, PoolStays DEF LeaseInv, Types, KeptTypes, OtherTypes
<1>4. \A s \in Requests : Course(s)' /\ KeeperInv(s)'
  <2>1. \A s \in Requests : Keepers(s)' = Keepers(s)
    BY <1>2 DEF Keepers
  <2>2. ASSUME NEW s \in Requests PROVE Course(s)' /\ KeeperInv(s)'
    <3>1. Course(s) /\ KeeperInv(s)
      BY DEF LeaseInv
    <3>2. Course(s)'
      BY <1>2, <3>1, CourseStays
    <3>3. KeeperInv(s)'
      BY <1>2, <2>1, <3>1, OthersKeep
    <3> QED BY <3>2, <3>3
  <2> QED BY <2>2
<1>5. BatchInv' /\ CountInv'
  BY <1>2 DEF LeaseInv, BatchInv, CountInv, Owners
<1> QED BY <1>3, <1>4, <1>5 DEF LeaseInv

LEMMA LeaseStep == ASSUME Switching = {} PROVE LeaseInv /\ [Next]_vars => LeaseInv'
<1> SUFFICES ASSUME LeaseInv, [Next]_vars PROVE LeaseInv'
  OBVIOUS
<1>1. CASE UNCHANGED vars
  BY <1>1, LeaseStays
<1>2. CASE AllClosed
  BY <1>2, LeaseStays DEF AllClosed
<1>3. ASSUME NEW s \in Requests, NodePrepare(s) \/ NodePow(s) \/ NodeRelease(s) PROVE LeaseInv'
  BY <1>3, CallStep
<1>4. ASSUME NEW s \in Requests, CallLost(s) \/ NodeDies(s) \/ Expire(s) PROVE LeaseInv'
  BY <1>4, FaultStep
<1>5. \A s \in Requests : ~NodeSwitch(s)
  BY DEF NodeSwitch
<1>6. ASSUME NEW s \in Requests, NEW kind \in Kinds, HandlerStep(s, kind) PROVE LeaseInv'
  BY <1>6, HandlersStep
<1> QED BY <1>1, <1>2, <1>3, <1>4, <1>5, <1>6 DEF Next

-----------------------------------------------------------------------------
(* The property.                                                           *)

(* A stream's slots, counted, are its keepers, counted.                    *)
LEMMA KeepersMatchSlots ==
  ASSUME LeaseInv, NEW s \in Requests
  PROVE  Cardinality(Keepers(s)) = Cardinality(OwnedSlots(s))
<1>1. KeeperInv(s)
  BY DEF LeaseInv
<1>2. Cardinality(Handlers) \in Nat \ {0}
  <2>1. IsFiniteSet(Kinds)
    <3>1. ASSUME NEW x, NEW y PROVE IsFiniteSet({x, y})
      <4>1. {x, y} = {x} \cup {y}
        OBVIOUS
      <4>2. IsFiniteSet({x}) /\ IsFiniteSet({y})
        BY FS_Singleton
      <4>3. IsFiniteSet({x} \cup {y})
        BY <4>2, FS_Union
      <4> QED BY <4>1, <4>3
    <3>2. Kinds = {"prepare", "pow"} \cup {"switch", "release"}
      BY DEF Kinds
    <3>3. IsFiniteSet({"prepare", "pow"}) /\ IsFiniteSet({"switch", "release"})
      BY <3>1
    <3> QED BY <3>2, <3>3, FS_Union
  <2>2. IsFiniteSet(Handlers)
    BY <2>1, PoolAssumption, FS_Product DEF Handlers
  <2>3. <<s, "pow">> \in Handlers
    BY DEF Handlers, Kinds
  <2> QED BY <2>2, <2>3, FS_CardinalityType, FS_EmptySet
<1>3. CASE Keepers(s) = {}
  <2>1. OwnedSlots(s) = {}
    BY <1>1, <1>2, <1>3 DEF KeeperInv, OwnedSlots
  <2> QED BY <1>3, <2>1
<1>4. CASE Keepers(s) # {}
  <2>1. PICK k : Keepers(s) = {k}
    BY <1>1, <1>4 DEF KeeperInv
  <2>2. PICK a \in Accounts : a = accountID[s]
    BY <1>1, <1>4 DEF KeeperInv
  <2>3. \A b \in Accounts : owned[s][b] = IF b = a THEN 1 ELSE 0
    BY <1>1, <1>4, <2>2 DEF KeeperInv
  <2>4. OwnedSlots(s) = {<<a, 1>>}
    <3>1. 1 \in 1..Cardinality(Handlers)
      BY <1>2
    <3>2. <<a, 1>> \in OwnedSlots(s)
      BY <2>3, <3>1 DEF OwnedSlots
    <3>3. \A slot \in OwnedSlots(s) : slot = <<a, 1>>
      BY <1>2, <2>3 DEF OwnedSlots
    <3> QED BY <3>2, <3>3
  <2> QED BY <2>1, <2>4, FS_Singleton
<1> QED BY <1>3, <1>4

LEMMA LeaseProperty == LeaseInv => OneKeeperPerSlot
<1> SUFFICES ASSUME LeaseInv PROVE OneKeeperPerSlot
  OBVIOUS
<1>1. TypeOK
  BY DEF LeaseInv, Types, KeptTypes, OtherTypes, Course, TypeOK
<1>2. \A s \in Requests : Cardinality(Keepers(s)) = Cardinality(OwnedSlots(s))
  BY KeepersMatchSlots
<1>3. \A a \in Accounts : inUse[a] = Cardinality({s \in Requests : owned[s][a] > 0})
  BY DEF LeaseInv, CountInv, Owners
<1> QED BY <1>1, <1>2, <1>3 DEF OneKeeperPerSlot

(* While upstream never asks for another account, every slot taken for a   *)
(* stream has exactly one keeper (a handler, the lease table or a sweep of *)
(* it), whichever calls are lost, Node functions die and leases expire,    *)
(* and the pool counts these slots and no others.                          *)
THEOREM EverySlotHasAKeeper ==
  ASSUME Switching = {} PROVE Spec => []OneKeeperPerSlot
<1>1. LeaseInv /\ [Next]_vars => LeaseInv'
  BY LeaseStep
<1> QED BY <1>1, LeaseInit, LeaseProperty, PTL DEF Spec
=============================================================================
