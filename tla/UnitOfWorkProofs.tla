-------------------------- MODULE UnitOfWorkProofs --------------------------
(***************************************************************************)
(* Units of work are atomic and truthful for any number of tasks, statements  *)
(* and cancellations, and one await alone leaks a transaction.                *)
(***************************************************************************)
EXTENDS UnitOfWork, SequenceTheorems, TLAPS

Users == Tasks \union {Closer}

(* The lock is held by the task that uses the connection; whoever waits for   *)
(* it is in line once.                                                        *)
Locks ==
  /\ \A t \in Tasks : pc[t] \in Points => holder = t
  /\ closer = "rollback" => holder = Closer
  /\ closer \in {"lock", "rollback"} => closing
  /\ \A i \in DOMAIN waiters : waiters[i] \in Tasks =>
       /\ pc[waiters[i]] = "lock"
       /\ \A j \in DOMAIN waiters : waiters[i] = waiters[j] => i = j

(* Writes and commits are sent by a task whose every earlier request has been *)
(* served, so that one of them is only ever the first of the queue; a BEGIN   *)
(* is the only request of its task.                                           *)
Queue ==
  \A i \in DOMAIN requests :
    /\ requests[i][2] \in {"write", "commit"} => i = 1 /\ inTx
    /\ requests[i][2] \in {"begin", "write", "commit"} => requests[i][1] \in Tasks
    /\ requests[i][2] = "begin" =>
         /\ pc[requests[i][1]] \in {"begin", "left"}
         /\ \A j \in DOMAIN requests : requests[j][1] = requests[i][1] => i = j
    /\ requests[i][1] \in Tasks => pc[requests[i][1]] \notin {"outside", "lock"}

(* The rows: outside a transaction nothing is pending, a COMMIT on its way    *)
(* commits one whole unit and nothing else.                                   *)
Rows ==
  /\ ~inTx => \A t \in Tasks : pending[t] = 0
  /\ \A t \in Tasks : durable[t] \in {0, NWrites}
  /\ \A i \in DOMAIN requests, t \in Tasks : requests[i] = <<t, "write">> => pending[t] < NWrites
  /\ \A i \in DOMAIN requests, t \in Tasks : requests[i] = <<t, "commit">> =>
       /\ durable[t] = 0 /\ pending[t] = NWrites
       /\ \A u \in Tasks \ {t} : pending[u] = 0

NothingSent == Len(requests) = 0
Alone(t, statement) == Len(requests) = 1 /\ requests[1] = <<t, statement>>

(* What a task knows at each of its awaits.                                   *)
AtStart(t) == asked[t] = 0 /\ durable[t] = 0 /\ reply[t] = NoReply

Begun(t) ==
  /\ reply[t] = <<"begin", "ok">> /\ NothingSent /\ inTx
  /\ \A u \in Tasks : pending[u] = 0

AtBegin(t) ==
  /\ asked[t] = 0 /\ durable[t] = 0
  /\ \/ /\ reply[t] = NoReply
        /\ Len(requests) > 0 /\ requests[Len(requests)] = <<t, "begin">>
     \/ Begun(t)
     \/ reply[t] = <<"begin", "error">>

AtWrite(t) ==
  /\ durable[t] = 0 /\ inTx
  /\ \A u \in Tasks \ {t} : pending[u] = 0
  /\ \/ reply[t] = NoReply /\ Alone(t, "write") /\ pending[t] + 1 = asked[t]
     \/ reply[t] = <<"write", "ok">> /\ NothingSent /\ pending[t] = asked[t]

AtCommit(t) ==
  \/ reply[t] = NoReply /\ Alone(t, "commit")
  \/ reply[t] = <<"commit", "ok">> /\ NothingSent /\ ~inTx /\ durable[t] = NWrites

Stage(t) ==
  /\ pc[t] \in {"outside", "lock"} => AtStart(t)
  /\ pc[t] = "begin" => AtBegin(t)
  /\ pc[t] = "write" => AtWrite(t)
  /\ pc[t] = "commit" => AtCommit(t)
  /\ reply[t][1] = "begin" => \A i \in DOMAIN requests : requests[i][1] # t

(* What a caller is told.                                                     *)
Told(t) ==
  /\ pc[t] \in {"outside", "lock", "begin", "write", "commit"} => outcome[t] = "none"
  /\ pc[t] \in {"rollback", "left"} => outcome[t] # "none"
  /\ outcome[t] = "committed" => pc[t] = "left" /\ durable[t] = NWrites
  /\ outcome[t] = "failed" =>
       /\ pc[t] \in {"rollback", "left"} /\ durable[t] = 0
       /\ \A i \in DOMAIN requests : requests[i] # <<t, "commit">>

(* A transaction is open because a unit uses it, or its end is on its way, or *)
(* it is the empty one of a task cancelled at its BEGIN.                      *)
Used == \E t \in Tasks : (pc[t] = "begin" /\ Begun(t)) \/ pc[t] \in {"write", "commit"}
Ending == \E i \in DOMAIN requests : requests[i][2] \in {"commit", "rollback"}
Leaked ==
  /\ \A t \in Tasks : pending[t] = 0
  /\ \A i \in DOMAIN requests : requests[i][2] # "write"
  /\ \E t \in Tasks : pc[t] = "left" /\ reply[t] = <<"begin", "ok">>
Accounted == inTx /\ Available => Used \/ Ending \/ Leaked

UInv ==
  TypeOK /\ Locks /\ Queue /\ Rows /\ (\A t \in Tasks : Stage(t) /\ Told(t)) /\ Accounted

-----------------------------------------------------------------------------
(* Facts about the queues *)

LEMMA QueueDomains ==
  ASSUME TypeOK
  PROVE  /\ DOMAIN requests = 1..Len(requests) /\ Len(requests) \in Nat
         /\ DOMAIN waiters = 1..Len(waiters) /\ Len(waiters) \in Nat
         /\ \A i \in DOMAIN requests :
              /\ requests[i] \in Users \X Points
              /\ requests[i] = <<requests[i][1], requests[i][2]>>
         /\ \A i \in DOMAIN waiters : waiters[i] \in Users
  BY DEF TypeOK, Users

LEMMA AskFacts ==
  ASSUME TypeOK, NEW u \in Users, NEW statement \in Points, Ask(u, statement)
  PROVE  /\ requests' \in Seq(Users \X Points)
         /\ Len(requests') = Len(requests) + 1
         /\ DOMAIN requests' = 1..(Len(requests) + 1)
         /\ requests'[Len(requests) + 1] = <<u, statement>>
         /\ \A i \in DOMAIN requests : i \in DOMAIN requests' /\ requests'[i] = requests[i]
         /\ reply' \in [Users -> {NoReply} \union (Points \X {"ok", "error"})]
         /\ reply'[u] = NoReply
         /\ \A v \in Users \ {u} : reply'[v] = reply[v]
         /\ UNCHANGED <<inTx, pending, durable>>
<1>1. requests \in Seq(Users \X Points) /\ <<u, statement>> \in Users \X Points
  BY DEF TypeOK, Users
<1>2. requests' = Append(requests, <<u, statement>>)
  BY DEF Ask
<1>3. /\ requests' \in Seq(Users \X Points)
      /\ Len(requests') = Len(requests) + 1
      /\ requests'[Len(requests) + 1] = <<u, statement>>
      /\ \A i \in 1..Len(requests) : requests'[i] = requests[i]
  BY <1>1, <1>2
<1>4. /\ reply' \in [Users -> {NoReply} \union (Points \X {"ok", "error"})]
      /\ reply'[u] = NoReply
      /\ \A v \in Users \ {u} : reply'[v] = reply[v]
  BY DEF Ask, TypeOK, Users
<1>5. /\ DOMAIN requests = 1..Len(requests) /\ Len(requests) \in Nat
      /\ DOMAIN requests' = 1..(Len(requests) + 1)
  BY <1>1, <1>3
<1> QED BY <1>3, <1>4, <1>5 DEF Ask, connectionVars

(* What a step of t leaves of the other tasks, which do not use the           *)
(* connection, is as it was.                                                  *)
LEMMA OthersKeep ==
  ASSUME UInv, NEW u \in Tasks, pc[u] \notin Points,
         pc'[u] = pc[u], asked'[u] = asked[u], outcome'[u] = outcome[u],
         durable'[u] = durable[u], reply'[u] = reply[u],
         \A i \in DOMAIN requests' : requests'[i][1] = u =>
           i \in DOMAIN requests /\ requests'[i] = requests[i]
  PROVE  Stage(u)' /\ Told(u)'
<1>1. Stage(u) /\ Told(u)
  BY DEF UInv
<1>2. pc'[u] \notin {"begin", "write", "commit"}
  BY DEF Points
<1>3. Stage(u)'
  BY <1>1, <1>2 DEF Stage, AtStart
<1>4. \A i \in DOMAIN requests' : requests'[i] = <<u, "commit">> =>
        i \in DOMAIN requests /\ requests[i] = <<u, "commit">>
  OBVIOUS
<1>5. Told(u)'
  BY <1>1, <1>4 DEF Told
<1> QED BY <1>3, <1>5

LEMMA UInvInit == Init => UInv
<1> SUFFICES ASSUME Init PROVE UInv
  OBVIOUS
<1>1. TypeOK
  <2>1. 0 \in 0..NWrites /\ 0 \in 0..MaxCancels
    BY UnitAssumption
  <2>2. /\ asked \in [Tasks -> 0..NWrites] /\ pending \in [Tasks -> 0..NWrites]
        /\ durable \in [Tasks -> 0..NWrites]
    BY <2>1 DEF Init, NoRows
  <2>3. /\ pc \in [Tasks -> {"outside", "lock", "left"} \union Points]
        /\ outcome \in [Tasks -> {"none", "committed", "failed", "cancelled"}]
        /\ reply \in [Tasks \union {Closer} -> {NoReply} \union (Points \X {"ok", "error"})]
    BY DEF Init
  <2>4. waiters \in Seq(Tasks \union {Closer}) /\ requests \in Seq((Tasks \union {Closer}) \X Points)
    BY DEF Init
  <2> QED BY <2>1, <2>2, <2>3, <2>4 DEF Init, TypeOK
<1>2. Locks /\ Queue
  BY DEF Init, Locks, Queue, Points
<1>3. Rows /\ Accounted
  BY DEF Init, Rows, Accounted, NoRows
<1>4. ASSUME NEW t \in Tasks PROVE Stage(t) /\ Told(t)
  BY DEF Init, Stage, Told, AtStart, NoRows, NoReply
<1> QED BY <1>1, <1>2, <1>3, <1>4 DEF UInv

-----------------------------------------------------------------------------
(* Entering *)

(* When the lock is free nobody uses the connection.                          *)
LEMMA FreeLock ==
  ASSUME UInv, holder = Nobody
  PROVE  closer # "rollback" /\ \A t \in Tasks : pc[t] \notin Points
  BY UnitAssumption DEF UInv, Locks

LEMMA EnterKeeps ==
  ASSUME UInv, NEW t \in Tasks, Enter(t)
  PROVE  UInv'
<1>1. /\ TypeOK /\ Locks /\ Queue /\ Rows /\ Accounted
      /\ \A u \in Tasks : Stage(u) /\ Told(u)
  BY DEF UInv
<1>2. /\ pc[t] = "outside" /\ pc' = [pc EXCEPT ![t] = "lock"] /\ waiters' = Append(waiters, t)
      /\ UNCHANGED <<asked, outcome, holder, requests, reply, inTx, pending, durable, closing, closer, cancels>>
  BY DEF Enter, threadVars, connectionVars, closeVars
<1>3. \A u \in Tasks : pc'[u] = IF u = t THEN "lock" ELSE pc[u]
  BY <1>1, <1>2 DEF TypeOK
<1>4. /\ waiters' \in Seq(Users) /\ DOMAIN waiters' = 1..(Len(waiters) + 1)
      /\ waiters'[Len(waiters) + 1] = t
      /\ \A i \in DOMAIN waiters : waiters'[i] = waiters[i]
  BY <1>1, <1>2 DEF TypeOK, Users
<1>5. TypeOK'
  BY <1>1, <1>2, <1>4 DEF TypeOK, Users
<1>6. Locks'
  <2>1. \A i \in DOMAIN waiters : waiters[i] # t
    BY <1>1, <1>2 DEF Locks
  <2>2. \A i \in DOMAIN waiters' : i \in DOMAIN waiters \/ i = Len(waiters) + 1
    BY <1>1, <1>4, QueueDomains
  <2> QED BY <1>1, <1>2, <1>3, <1>4, <2>1, <2>2 DEF Locks, Points
<1>7. Queue'
  BY <1>1, <1>2, <1>3, QueueDomains DEF Queue, Users
<1>8. Rows'
  BY <1>1, <1>2 DEF Rows
<1>9. ASSUME NEW u \in Tasks PROVE Stage(u)' /\ Told(u)'
  BY <1>1, <1>2, <1>3 DEF Stage, AtStart, AtBegin, AtWrite, AtCommit, Begun, Alone, NothingSent, Told
<1>10. Accounted'
  <2>1. Used => Used'
    BY <1>2, <1>3 DEF Used, Begun, NothingSent
  <2>2. Leaked => Leaked'
    BY <1>2, <1>3 DEF Leaked
  <2> QED BY <1>1, <1>2, <2>1, <2>2 DEF Accounted, Available, Ending
<1> QED BY <1>5, <1>6, <1>7, <1>8, <1>9, <1>10 DEF UInv

-----------------------------------------------------------------------------
(* Leaving, and sending a request: what all the steps of a task are made of   *)

(* The line for the lock stays, or loses its first.                           *)
LineMoves(t) ==
  \/ pc[t] # "lock" /\ waiters' = waiters
  \/ waiters # <<>> /\ Head(waiters) = t /\ waiters' = Tail(waiters)

LEMMA LineFacts ==
  ASSUME TypeOK, Locks, NEW t \in Users, LineMoves(t),
         pc' = pc \/ (t \in Tasks /\ \E now : pc' = [pc EXCEPT ![t] = now])
  PROVE  /\ waiters' \in Seq(Users)
         /\ \A i \in DOMAIN waiters' : waiters'[i] \in Tasks =>
              /\ waiters'[i] # t
              /\ pc'[waiters'[i]] = "lock"
              /\ \A j \in DOMAIN waiters' : waiters'[i] = waiters'[j] => i = j
<1>1. waiters \in Seq(Users) /\ DOMAIN waiters = 1..Len(waiters) /\ Len(waiters) \in Nat
  BY DEF TypeOK, Users
<1>2. CASE pc[t] # "lock" /\ waiters' = waiters /\ t \in Tasks
  <2>1. \A i \in DOMAIN waiters : waiters[i] # t
    BY <1>2 DEF Locks
  <2> QED BY <1>1, <1>2, <2>1 DEF Locks, TypeOK
<1>3. CASE pc[t] # "lock" /\ waiters' = waiters /\ t \notin Tasks
  BY <1>1, <1>3 DEF Locks, TypeOK
<1>4. CASE waiters # <<>> /\ Head(waiters) = t /\ waiters' = Tail(waiters)
  <2>1. /\ waiters' \in Seq(Users) /\ DOMAIN waiters' = 1..(Len(waiters) - 1)
        /\ \A i \in DOMAIN waiters' : waiters'[i] = waiters[i + 1] /\ i + 1 \in DOMAIN waiters /\ i + 1 # 1
        /\ waiters[1] = t /\ 1 \in DOMAIN waiters
    BY <1>1, <1>4
  <2>2. \A i \in DOMAIN waiters' : waiters'[i] \in Tasks => waiters'[i] # t
    BY <2>1 DEF Locks
  <2>3. ASSUME NEW i \in DOMAIN waiters', waiters'[i] \in Tasks
        PROVE  /\ pc'[waiters'[i]] = "lock"
               /\ \A j \in DOMAIN waiters' : waiters'[i] = waiters'[j] => i = j
    <3>1. pc[waiters'[i]] = "lock"
      BY <2>1, <2>3 DEF Locks
    <3>2. pc'[waiters'[i]] = "lock"
      BY <2>2, <2>3, <3>1 DEF TypeOK
    <3>3. ASSUME NEW j \in DOMAIN waiters', waiters'[i] = waiters'[j] PROVE i = j
      <4>1. waiters[i + 1] = waiters[j + 1] /\ waiters[i + 1] \in Tasks
        BY <2>1, <2>3, <3>3
      <4>2. i + 1 = j + 1
        BY <2>1, <4>1 DEF Locks
      <4> QED BY <1>1, <2>1, <4>2
    <3> QED BY <3>2, <3>3
  <2> QED BY <2>1, <2>2, <2>3
<1> QED BY <1>2, <1>3, <1>4 DEF LineMoves

(* A task leaves with an outcome that is true, and nothing but an accounted   *)
(* transaction behind it.                                                     *)
LEMMA LeaveKeeps ==
  ASSUME UInv, NEW t \in Tasks, NEW seen \in {"committed", "failed", "cancelled"},
         Leave(t, seen), UNCHANGED <<asked, closing, closer>>, cancels' \in 0..MaxCancels,
         pc[t] # "outside", holder = t \/ holder = Nobody, LineMoves(t),
         seen = "committed" => durable[t] = NWrites,
         seen = "failed" => durable[t] = 0 /\ \A i \in DOMAIN requests : requests[i] # <<t, "commit">>,
         inTx /\ Available => Ending \/ Leaked'
  PROVE  UInv'
<1>1. /\ TypeOK /\ Locks /\ Queue /\ Rows
      /\ \A u \in Tasks : Stage(u) /\ Told(u)
  BY DEF UInv
<1>2. /\ pc' = [pc EXCEPT ![t] = "left"] /\ outcome' = [outcome EXCEPT ![t] = seen] /\ holder' = Nobody
      /\ UNCHANGED <<requests, reply, inTx, pending, durable>>
  BY DEF Leave, threadVars, connectionVars
<1>3. \A u \in Tasks : /\ pc'[u] = IF u = t THEN "left" ELSE pc[u]
                       /\ outcome'[u] = IF u = t THEN seen ELSE outcome[u]
  BY <1>1, <1>2 DEF TypeOK
<1>4. closer # "rollback" /\ \A u \in Tasks \ {t} : pc[u] \notin Points
  BY <1>1, UnitAssumption DEF Locks
<1>5. t \in Users
  BY DEF Users
<1>6. /\ waiters' \in Seq(Users)
      /\ \A i \in DOMAIN waiters' : waiters'[i] \in Tasks =>
              /\ pc'[waiters'[i]] = "lock"
              /\ \A j \in DOMAIN waiters' : waiters'[i] = waiters'[j] => i = j
  BY <1>1, <1>2, <1>5, LineFacts
<1>7. TypeOK'
  BY <1>1, <1>2, <1>6 DEF TypeOK, Users
<1>8. Locks'
  BY <1>1, <1>2, <1>3, <1>4, <1>6 DEF Locks, Points
<1>9. Queue'
  BY <1>1, <1>2, <1>3 DEF Queue
<1>10. Rows'
  BY <1>1, <1>2 DEF Rows
<1>11. ASSUME NEW u \in Tasks \ {t} PROVE Stage(u)' /\ Told(u)'
  BY <1>2, <1>3, <1>4, OthersKeep
<1>12. Stage(t)' /\ Told(t)'
  BY <1>1, <1>2, <1>3 DEF Stage, Told
<1>13. Accounted'
  BY <1>2 DEF Accounted, Available, Ending
<1> QED BY <1>7, <1>8, <1>9, <1>10, <1>11, <1>12, <1>13 DEF UInv

(* What a task must know to send a statement.                                 *)
MaySend(t, statement, seen) ==
  \/ /\ statement = "begin" /\ seen = "none" /\ asked' = asked /\ pc[t] = "lock"
  \/ /\ statement = "write" /\ seen = "none" /\ pc[t] \in {"begin", "write"} /\ NothingSent /\ inTx
     /\ durable[t] = 0 /\ \A u \in Tasks \ {t} : pending[u] = 0
     /\ pending[t] < NWrites /\ pending[t] + 1 = asked'[t]
  \/ /\ statement = "commit" /\ seen = "none" /\ pc[t] = "write" /\ NothingSent /\ inTx
     /\ durable[t] = 0 /\ \A u \in Tasks \ {t} : pending[u] = 0
     /\ pending[t] = NWrites
  \/ /\ statement = "rollback" /\ pc[t] \in {"begin", "write", "commit"}
     /\ \A i \in DOMAIN requests : requests[i] # <<t, "begin">>
     /\ \/ seen = "cancelled"
        \/ /\ seen = "failed" /\ durable[t] = 0
           /\ \A i \in DOMAIN requests : requests[i] # <<t, "commit">>

LEMMA AwaitKeeps ==
  ASSUME UInv, NEW t \in Tasks, NEW statement \in Points, NEW seen \in {"none", "failed", "cancelled"},
         Await(t, statement, seen), holder' = t, holder = t \/ holder = Nobody,
         UNCHANGED <<closing, closer>>, cancels' \in 0..MaxCancels,
         asked' \in [Tasks -> 0..NWrites], \A u \in Tasks \ {t} : asked'[u] = asked[u],
         LineMoves(t), MaySend(t, statement, seen)
  PROVE  UInv'
<1>1. /\ TypeOK /\ Locks /\ Queue /\ Rows /\ Accounted
      /\ \A u \in Tasks : Stage(u) /\ Told(u)
  BY DEF UInv
<1> DEFINE N == Len(requests)
<1>2. t \in Users /\ pc[t] # "outside"
  BY DEF Users, MaySend
<1>3. /\ pc' = [pc EXCEPT ![t] = statement] /\ outcome' = [outcome EXCEPT ![t] = seen]
      /\ Ask(t, statement)
  BY DEF Await
<1>4. /\ requests' \in Seq(Users \X Points)
      /\ Len(requests') = N + 1
      /\ DOMAIN requests' = 1..(N + 1) /\ DOMAIN requests = 1..N /\ N \in Nat
      /\ requests'[N + 1] = <<t, statement>>
      /\ \A i \in DOMAIN requests : i \in DOMAIN requests' /\ requests'[i] = requests[i]
      /\ reply' \in [Users -> {NoReply} \union (Points \X {"ok", "error"})]
      /\ reply'[t] = NoReply
      /\ \A v \in Users \ {t} : reply'[v] = reply[v]
      /\ UNCHANGED <<inTx, pending, durable>>
  BY <1>1, <1>2, <1>3, AskFacts, QueueDomains
<1> HIDE DEF N
<1>5. \A u \in Tasks : /\ pc'[u] = IF u = t THEN statement ELSE pc[u]
                       /\ outcome'[u] = IF u = t THEN seen ELSE outcome[u]
  BY <1>1, <1>3 DEF TypeOK
<1>6. closer # "rollback" /\ \A u \in Tasks \ {t} : pc[u] \notin Points
  BY <1>1, UnitAssumption DEF Locks
<1>7. /\ waiters' \in Seq(Users)
      /\ \A i \in DOMAIN waiters' : waiters'[i] \in Tasks =>
              /\ pc'[waiters'[i]] = "lock"
              /\ \A j \in DOMAIN waiters' : waiters'[i] = waiters'[j] => i = j
  BY <1>1, <1>2, <1>3, LineFacts
<1>8. \A i \in DOMAIN requests' : i \in DOMAIN requests \/ i = N + 1
  BY <1>4
<1>9. TypeOK'
  BY <1>1, <1>3, <1>4, <1>7 DEF TypeOK, Users
<1>10. Locks'
  BY <1>1, <1>5, <1>6, <1>7 DEF Locks
<1>11. Queue'
  <2>1. statement \in {"write", "commit"} => N + 1 = 1 /\ inTx
    BY <1>4 DEF MaySend, NothingSent, N
  <2>2. statement = "begin" => \A i \in DOMAIN requests : requests[i][1] # t
    BY <1>1 DEF MaySend, Queue
  <2>3. \A i \in DOMAIN requests : requests[i][1] = t => requests[i][2] # "begin"
    <3> SUFFICES ASSUME NEW i \in DOMAIN requests, requests[i][1] = t, requests[i][2] = "begin" PROVE FALSE
      OBVIOUS
    <3>1. requests[i] = <<t, "begin">>
      BY <1>1, QueueDomains
    <3>2. pc[t] \in {"begin", "left"}
      BY <1>1 DEF Queue
    <3>3. statement # "begin" /\ statement # "rollback" /\ statement # "commit"
      BY <2>2, <3>1, <3>2 DEF MaySend
    <3> QED BY <1>4, <3>3 DEF MaySend, NothingSent, N
  <2> SUFFICES ASSUME NEW i \in DOMAIN requests'
               PROVE  /\ requests'[i][2] \in {"write", "commit"} => i = 1 /\ inTx'
                      /\ requests'[i][2] \in {"begin", "write", "commit"} => requests'[i][1] \in Tasks
                      /\ requests'[i][2] = "begin" =>
                           /\ pc'[requests'[i][1]] \in {"begin", "left"}
                           /\ \A j \in DOMAIN requests' : requests'[j][1] = requests'[i][1] => i = j
                      /\ requests'[i][1] \in Tasks => pc'[requests'[i][1]] \notin {"outside", "lock"}
    BY DEF Queue
  <2>4. CASE i = N + 1
    <3>1. requests'[i][1] = t /\ requests'[i][2] = statement
      BY <1>4, <2>4
    <3>2. statement = "begin" => \A j \in DOMAIN requests' : requests'[j][1] = t => i = j
      BY <1>4, <1>8, <2>2, <2>4
    <3> QED BY <1>4, <1>5, <2>1, <2>4, <3>1, <3>2 DEF Points
  <2>5. CASE i \in DOMAIN requests
    <3>1. requests'[i] = requests[i]
      BY <1>4, <2>5
    <3>2. requests[i][2] = "begin" => requests[i][1] # t
      BY <2>3, <2>5
    <3>3. /\ requests[i][2] \in {"write", "commit"} => i = 1 /\ inTx'
          /\ requests[i][2] \in {"begin", "write", "commit"} => requests[i][1] \in Tasks
      BY <1>1, <1>4, <2>5 DEF Queue
    <3>4. requests[i][2] = "begin" =>
             /\ pc'[requests[i][1]] \in {"begin", "left"}
             /\ \A j \in DOMAIN requests' : requests'[j][1] = requests[i][1] => i = j
      <4> SUFFICES ASSUME requests[i][2] = "begin"
                   PROVE  /\ pc'[requests[i][1]] \in {"begin", "left"}
                          /\ \A j \in DOMAIN requests' : requests'[j][1] = requests[i][1] => i = j
        OBVIOUS
      <4>1. /\ requests[i][1] \in Tasks \ {t} /\ pc[requests[i][1]] \in {"begin", "left"}
            /\ \A j \in DOMAIN requests : requests[j][1] = requests[i][1] => i = j
        BY <1>1, <2>5, <3>2 DEF Queue
      <4>2. requests'[N + 1][1] # requests[i][1]
        BY <1>4, <4>1
      <4> QED BY <1>4, <1>5, <1>8, <4>1, <4>2
    <3>5. requests[i][1] \in Tasks => pc'[requests[i][1]] \notin {"outside", "lock"}
      BY <1>1, <1>5, <2>5 DEF Queue, Points
    <3> QED BY <3>1, <3>3, <3>4, <3>5
  <2> QED BY <1>8, <2>4, <2>5
<1>12. Rows'
  <2>1. statement = "write" => pending[t] < NWrites
    BY DEF MaySend
  <2>2. statement = "commit" =>
          durable[t] = 0 /\ pending[t] = NWrites /\ \A u \in Tasks \ {t} : pending[u] = 0
    BY DEF MaySend
  <2>3. ASSUME NEW i \in DOMAIN requests', NEW u \in Tasks, requests'[i] = <<u, "write">>
        PROVE  pending[u] < NWrites
    <3>1. CASE i = N + 1
      <4>1. u = t /\ statement = "write"
        BY <1>4, <2>3, <3>1
      <4> QED BY <2>1, <4>1
    <3>2. CASE i \in DOMAIN requests
      <4>1. requests[i] = <<u, "write">>
        BY <1>4, <2>3, <3>2
      <4> QED BY <1>1, <3>2, <4>1 DEF Rows
    <3> QED BY <1>8, <2>3, <3>1, <3>2
  <2>4. ASSUME NEW i \in DOMAIN requests', NEW u \in Tasks, requests'[i] = <<u, "commit">>
        PROVE  durable[u] = 0 /\ pending[u] = NWrites /\ \A v \in Tasks \ {u} : pending[v] = 0
    <3>1. CASE i = N + 1
      <4>1. u = t /\ statement = "commit"
        BY <1>4, <2>4, <3>1
      <4> QED BY <2>2, <4>1
    <3>2. CASE i \in DOMAIN requests
      <4>1. requests[i] = <<u, "commit">>
        BY <1>4, <2>4, <3>2
      <4> QED BY <1>1, <3>2, <4>1 DEF Rows
    <3> QED BY <1>8, <2>4, <3>1, <3>2
  <2> QED BY <1>1, <1>4, <2>3, <2>4 DEF Rows
<1>13. ASSUME NEW u \in Tasks \ {t} PROVE Stage(u)' /\ Told(u)'
  <2>1. \A i \in DOMAIN requests' : requests'[i][1] = u =>
          i \in DOMAIN requests /\ requests'[i] = requests[i]
    BY <1>4, <1>8
  <2>2. u \in Users
    BY DEF Users
  <2> QED BY <1>4, <1>5, <1>6, <2>1, <2>2, OthersKeep
<1>14. Stage(t)'
  <2>1. statement = "begin" => AtBegin(t)'
    BY <1>1, <1>4 DEF MaySend, AtBegin, Stage, AtStart
  <2>2. statement = "write" => AtWrite(t)'
    BY <1>4 DEF MaySend, AtWrite, Alone, NothingSent, N
  <2>3. statement = "commit" => AtCommit(t)'
    BY <1>4 DEF MaySend, AtCommit, Alone, NothingSent, N
  <2>4. pc'[t] = statement /\ statement \notin {"outside", "lock"} /\ reply'[t][1] # "begin"
    BY <1>4, <1>5 DEF Points, NoReply
  <2> QED BY <2>1, <2>2, <2>3, <2>4 DEF Stage
<1>15. Told(t)'
  <2>1. statement # "rollback" <=> seen = "none"
    BY DEF MaySend
  <2>2. seen = "failed" => /\ statement = "rollback" /\ durable[t] = 0
                           /\ \A i \in DOMAIN requests : requests[i] # <<t, "commit">>
    BY DEF MaySend
  <2>3. seen = "failed" => \A i \in DOMAIN requests' : requests'[i] # <<t, "commit">>
    BY <1>4, <1>8, <2>2
  <2>4. pc'[t] = statement /\ outcome'[t] = seen /\ statement \in {"begin", "write", "commit", "rollback"}
    BY <1>5 DEF Points
  <2> QED BY <1>4, <2>1, <2>2, <2>3, <2>4 DEF Told
<1>16. Accounted'
  <2>1. CASE statement = "begin"
    <3>1. pc[t] = "lock" /\ \A u \in Tasks : pc[u] \notin {"begin", "write", "commit"}
      BY <1>6, <2>1 DEF MaySend, Points
    <3>0. ~Used
      BY <3>1 DEF Used
    <3>2. inTx /\ Available => Ending \/ Leaked
      BY <1>1, <3>0 DEF Accounted
    <3>3. Ending => Ending'
      BY <1>4 DEF Ending
    <3>4. ASSUME Leaked PROVE Leaked'
      <4>1. \A i \in DOMAIN requests' : requests'[i][2] # "write"
        BY <1>4, <1>8, <2>1, <3>4 DEF Leaked
      <4>2. PICK u \in Tasks : pc[u] = "left" /\ reply[u] = <<"begin", "ok">>
        BY <3>4 DEF Leaked
      <4>3. pc'[u] = "left" /\ reply'[u] = <<"begin", "ok">>
        BY <1>4, <1>5, <3>1, <4>2 DEF Users
      <4> QED BY <1>4, <3>4, <4>1, <4>3 DEF Leaked
    <3> QED BY <1>4, <3>2, <3>3, <3>4 DEF Accounted, Available
  <2>2. CASE statement \in {"write", "commit"}
    BY <1>5, <2>2 DEF Accounted, Used
  <2>3. CASE statement = "rollback"
    BY <1>4, <2>3 DEF Accounted, Ending
  <2> QED BY <2>1, <2>2, <2>3 DEF Points
<1> QED BY <1>9, <1>10, <1>11, <1>12, <1>13, <1>14, <1>15, <1>16 DEF UInv

-----------------------------------------------------------------------------
(* The steps of a task *)

LEMMA AcquireKeeps ==
  ASSUME UInv, NEW t \in Tasks, Acquire(t)
  PROVE  UInv'
<1>1. /\ TypeOK /\ Locks /\ Stage(t)
  BY DEF UInv
<1>2. /\ holder = Nobody /\ waiters # <<>> /\ Head(waiters) = t /\ waiters' = Tail(waiters)
      /\ UNCHANGED <<asked, closing, closer, cancels>>
  BY DEF Acquire, Granted, closeVars
<1>3. LineMoves(t) /\ pc[t] = "lock"
  <2>1. waiters[1] = t /\ 1 \in DOMAIN waiters
    BY <1>1, <1>2, QueueDomains DEF TypeOK
  <2> QED BY <1>1, <1>2, <2>1 DEF LineMoves, Locks
<1>4. durable[t] = 0 /\ \A i \in DOMAIN requests : requests[i] # <<t, "commit">>
  BY <1>1, <1>3 DEF UInv, Stage, AtStart, Queue
<1>5. cancels' \in 0..MaxCancels /\ asked' \in [Tasks -> 0..NWrites]
  BY <1>1, <1>2 DEF TypeOK
<1>6. CASE Available
  <2>1. holder' = t /\ Await(t, "begin", "none")
    BY <1>6 DEF Acquire
  <2>2. MaySend(t, "begin", "none")
    BY <1>2, <1>3 DEF MaySend
  <2> QED BY <1>2, <1>3, <1>5, <2>1, <2>2, AwaitKeeps DEF Points
<1>7. CASE ~Available
  BY <1>2, <1>3, <1>4, <1>5, <1>7, LeaveKeeps DEF Acquire
<1> QED BY <1>6, <1>7

LEMMA BeginRefusedKeeps ==
  ASSUME UInv, NEW t \in Tasks, BeginRefused(t)
  PROVE  UInv'
<1>1. /\ TypeOK /\ Locks /\ Queue /\ Stage(t) /\ Accounted
  BY DEF UInv
<1>2. /\ pc[t] = "begin" /\ reply[t] = <<"begin", "error">> /\ Leave(t, "failed")
      /\ UNCHANGED <<asked, waiters, closing, closer, cancels>>
  BY DEF BeginRefused, closeVars
<1>3. LineMoves(t) /\ holder = t /\ cancels' \in 0..MaxCancels
  BY <1>1, <1>2 DEF LineMoves, Locks, Points, TypeOK
<1>4. durable[t] = 0 /\ \A i \in DOMAIN requests : requests[i] # <<t, "commit">>
  BY <1>1, <1>2 DEF Stage, AtBegin
<1>5. ~Used
  BY <1>1, <1>2, <1>3 DEF Used, Begun, Locks, Points
<1>6. Leaked => Leaked'
  <2> SUFFICES ASSUME Leaked PROVE Leaked'
    OBVIOUS
  <2>1. PICK u \in Tasks : pc[u] = "left" /\ reply[u] = <<"begin", "ok">>
    BY DEF Leaked
  <2>2. pc'[u] = "left" /\ reply'[u] = <<"begin", "ok">> /\ UNCHANGED <<pending, requests>>
    BY <1>1, <1>2, <2>1 DEF Leave, threadVars, connectionVars, TypeOK
  <2> QED BY <2>2 DEF Leaked
<1>7. inTx /\ Available => Ending \/ Leaked'
  BY <1>1, <1>5, <1>6 DEF Accounted
<1> QED BY <1>2, <1>3, <1>4, <1>7, LeaveKeeps

LEMMA RollBackKeeps ==
  ASSUME UInv, NEW t \in Tasks, NEW seen \in {"failed", "cancelled"}, RollBack(t, seen),
         cancels' \in 0..MaxCancels, pc[t] \in {"begin", "write", "commit"},
         \A i \in DOMAIN requests : requests[i] # <<t, "begin">>,
         seen = "failed" => durable[t] = 0 /\ \A i \in DOMAIN requests : requests[i] # <<t, "commit">>
  PROVE  UInv'
<1>1. /\ TypeOK /\ Locks
  BY DEF UInv
<1>2. UNCHANGED <<asked, waiters, closing, closer>>
  BY DEF RollBack, closeVars
<1>3. LineMoves(t) /\ holder = t /\ asked' \in [Tasks -> 0..NWrites]
  BY <1>1, <1>2 DEF LineMoves, Locks, Points, TypeOK
<1>4. CASE Available
  <2>1. Await(t, "rollback", seen) /\ holder' = t
    BY <1>3, <1>4 DEF RollBack
  <2>2. MaySend(t, "rollback", seen)
    BY DEF MaySend
  <2> QED BY <1>2, <1>3, <2>1, <2>2, AwaitKeeps DEF Points
<1>5. CASE ~Available
  BY <1>2, <1>3, <1>5, LeaveKeeps DEF RollBack
<1> QED BY <1>4, <1>5

(* A task whose BEGIN or write was answered is alone with the connection.     *)
LEMMA AnsweredFacts ==
  ASSUME UInv, NEW t \in Tasks, Answered(t, "begin") \/ Answered(t, "write")
  PROVE  /\ pc[t] \in {"begin", "write"} /\ holder = t /\ NothingSent /\ inTx
         /\ durable[t] = 0 /\ pending[t] = asked[t]
         /\ \A u \in Tasks \ {t} : pending[u] = 0
         /\ DOMAIN requests = {}
<1>1. TypeOK /\ Locks /\ Stage(t)
  BY DEF UInv
<1>2. CASE Answered(t, "begin")
  BY <1>1, <1>2, QueueDomains DEF Answered, Stage, AtBegin, Begun, NothingSent, Locks, Points, NoReply
<1>3. CASE Answered(t, "write")
  BY <1>1, <1>3, QueueDomains DEF Answered, Stage, AtWrite, NothingSent, Locks, Points, NoReply
<1> QED BY <1>2, <1>3

LEMMA BodyWritesKeeps ==
  ASSUME UInv, NEW t \in Tasks, BodyWrites(t)
  PROVE  UInv'
<1>1. TypeOK
  BY DEF UInv
<1>2. /\ asked[t] < NWrites /\ asked' = [asked EXCEPT ![t] = @ + 1] /\ Await(t, "write", "none")
      /\ UNCHANGED <<holder, waiters, closing, closer, cancels>>
  BY DEF BodyWrites, lockVars, closeVars
<1>3. /\ pc[t] \in {"begin", "write"} /\ holder = t /\ NothingSent /\ inTx
      /\ durable[t] = 0 /\ pending[t] = asked[t]
      /\ \A u \in Tasks \ {t} : pending[u] = 0
  BY AnsweredFacts DEF BodyWrites
<1>4. /\ asked' \in [Tasks -> 0..NWrites] /\ \A u \in Tasks \ {t} : asked'[u] = asked[u]
      /\ asked'[t] = asked[t] + 1 /\ cancels' \in 0..MaxCancels
  BY <1>1, <1>2, UnitAssumption DEF TypeOK
<1>5. MaySend(t, "write", "none") /\ LineMoves(t) /\ holder' = t
  BY <1>2, <1>3, <1>4 DEF MaySend, LineMoves
<1> QED BY <1>2, <1>3, <1>4, <1>5, AwaitKeeps DEF Points

LEMMA CommitKeeps ==
  ASSUME UInv, NEW t \in Tasks, Commit(t)
  PROVE  UInv'
<1>1. TypeOK
  BY DEF UInv
<1>2. /\ Answered(t, "write") /\ asked[t] = NWrites /\ Await(t, "commit", "none")
      /\ UNCHANGED <<asked, holder, waiters, closing, closer, cancels>>
  BY DEF Commit, lockVars, closeVars
<1>3. /\ pc[t] = "write" /\ holder = t /\ NothingSent /\ inTx
      /\ durable[t] = 0 /\ pending[t] = asked[t]
      /\ \A u \in Tasks \ {t} : pending[u] = 0
  BY <1>2, AnsweredFacts DEF Answered
<1>4. /\ asked' \in [Tasks -> 0..NWrites] /\ cancels' \in 0..MaxCancels
  BY <1>1, <1>2 DEF TypeOK
<1>5. MaySend(t, "commit", "none") /\ LineMoves(t) /\ holder' = t
  BY <1>2, <1>3 DEF MaySend, LineMoves
<1> QED BY <1>2, <1>3, <1>4, <1>5, AwaitKeeps DEF Points

LEMMA BodyGivesUpKeeps ==
  ASSUME UInv, NEW t \in Tasks, BodyGivesUp(t)
  PROVE  UInv'
<1>1. RollBack(t, "failed") /\ cancels' \in 0..MaxCancels
  BY DEF BodyGivesUp, UInv, TypeOK
<1>2. pc[t] \in {"begin", "write"} /\ durable[t] = 0 /\ DOMAIN requests = {}
  BY AnsweredFacts DEF BodyGivesUp
<1> QED BY <1>1, <1>2, RollBackKeeps

LEMMA FinishKeeps ==
  ASSUME UInv, NEW t \in Tasks, Finish(t)
  PROVE  UInv'
<1>1. /\ TypeOK /\ Locks /\ Queue /\ Stage(t) /\ Told(t) /\ Accounted
  BY DEF UInv
<1>2. UNCHANGED <<asked, waiters, closing, closer, cancels>>
  BY DEF Finish, closeVars
<1>3. pc[t] \in {"commit", "rollback"}
  BY DEF Finish, Answered
<1>4. LineMoves(t) /\ holder = t /\ cancels' \in 0..MaxCancels
  BY <1>1, <1>2, <1>3 DEF LineMoves, Locks, Points, TypeOK
<1>5. CASE Answered(t, "commit") /\ Leave(t, "committed")
  <2>1. ~inTx /\ durable[t] = NWrites
    BY <1>1, <1>5 DEF Answered, Stage, AtCommit, NoReply
  <2> QED BY <1>2, <1>3, <1>4, <1>5, <2>1, LeaveKeeps
<1>6. CASE Answered(t, "rollback") /\ Leave(t, outcome[t])
  <2>1. ~Used
    <3>1. \A u \in Tasks : pc[u] \notin {"begin", "write", "commit"}
      BY <1>1, <1>4, <1>6 DEF Answered, Locks, Points
    <3> QED BY <3>1 DEF Used
  <2>2. ASSUME Leaked PROVE Leaked'
    <3>1. PICK u \in Tasks : pc[u] = "left" /\ reply[u] = <<"begin", "ok">>
      BY <2>2 DEF Leaked
    <3>2. pc'[u] = "left" /\ reply'[u] = <<"begin", "ok">> /\ UNCHANGED <<pending, requests>>
      BY <1>1, <1>6, <3>1 DEF Leave, threadVars, connectionVars, TypeOK
    <3> QED BY <2>2, <3>2 DEF Leaked
  <2>3. outcome[t] # "committed" /\ outcome[t] \in {"none", "committed", "failed", "cancelled"}
    BY <1>1, <1>6 DEF Told, Answered, TypeOK
  <2>4. outcome[t] # "none"
    BY <1>1, <1>6 DEF Told, Answered
  <2>5. outcome[t] = "failed" => durable[t] = 0 /\ \A i \in DOMAIN requests : requests[i] # <<t, "commit">>
    BY <1>1 DEF Told
  <2>6. inTx /\ Available => Ending \/ Leaked'
    BY <1>1, <2>1, <2>2 DEF Accounted
  <2> QED BY <1>2, <1>3, <1>4, <1>6, <2>3, <2>4, <2>5, <2>6, LeaveKeeps
<1> QED BY <1>5, <1>6 DEF Finish

(* A cancelled waiter was in line once, and is no more.                       *)
LEMMA CancelWaitingKeeps ==
  ASSUME UInv, NEW t \in Tasks, CancelWaiting(t)
  PROVE  UInv'
<1>1. /\ TypeOK /\ Locks /\ Queue /\ Rows /\ Accounted
      /\ \A u \in Tasks : Stage(u) /\ Told(u)
  BY DEF UInv
<1>2. /\ pc[t] = "lock" /\ pc' = [pc EXCEPT ![t] = "left"] /\ outcome' = [outcome EXCEPT ![t] = "cancelled"]
      /\ cancels < MaxCancels /\ cancels' = cancels + 1
      /\ UNCHANGED <<asked, holder, requests, reply, inTx, pending, durable, closing, closer>>
  BY DEF CancelWaiting, Cancellable, threadVars, connectionVars, closeVars
<1>3. PICK k \in DOMAIN waiters : waiters[k] = t /\ waiters' = RemoveAt(waiters, k)
  BY DEF CancelWaiting
<1>4. \A u \in Tasks : /\ pc'[u] = IF u = t THEN "left" ELSE pc[u]
                       /\ outcome'[u] = IF u = t THEN "cancelled" ELSE outcome[u]
  BY <1>1, <1>2 DEF TypeOK
<1>5. /\ waiters' \in Seq(Users) /\ DOMAIN waiters' = 1..(Len(waiters) - 1)
      /\ \A i \in DOMAIN waiters' : /\ i < k => waiters'[i] = waiters[i]
                                    /\ i >= k => waiters'[i] = waiters[i + 1]
  <2>1. waiters \in Seq(Users) /\ k \in 1..Len(waiters) /\ Len(waiters) \in Nat
    BY <1>1, <1>3 DEF TypeOK, Users
  <2> DEFINE front == SubSeq(waiters, 1, k - 1)
             back == SubSeq(waiters, k + 1, Len(waiters))
  <2>2. front \in Seq(Users) /\ Len(front) = k - 1 /\ \A i \in 1..(k - 1) : front[i] = waiters[i]
    BY <2>1
  <2>3. /\ back \in Seq(Users) /\ Len(back) = Len(waiters) - k
        /\ \A i \in 1..(Len(waiters) - k) : back[i] = waiters[k + i]
    BY <2>1
  <2>4. waiters' = front \o back
    BY <1>3 DEF RemoveAt
  <2> HIDE DEF front, back
  <2>5. waiters' \in Seq(Users) /\ Len(waiters') = Len(waiters) - 1
    BY <2>1, <2>2, <2>3, <2>4
  <2>6. ASSUME NEW i \in 1..(Len(waiters) - 1)
        PROVE  /\ i < k => waiters'[i] = waiters[i]
               /\ i >= k => waiters'[i] = waiters[i + 1]
    <3> DEFINE K == Len(front)
    <3>3. K = k - 1 /\ K \in Nat /\ i \in 1..(K + Len(back))
      BY <2>1, <2>2, <2>3
    <3>4. (front \o back)[i] = IF i <= K THEN front[i] ELSE back[i - K]
      BY <2>2, <2>3, <3>3, ConcatProperties
    <3> HIDE DEF K
    <3>1. CASE i < k
      BY <2>1, <2>2, <2>4, <3>1, <3>3, <3>4
    <3>2. CASE i >= k
      <4>1. waiters'[i] = back[i - (k - 1)]
        BY <2>1, <2>4, <3>2, <3>3, <3>4
      <4>2. i - (k - 1) \in 1..(Len(waiters) - k) /\ k + (i - (k - 1)) = i + 1
        BY <2>1, <3>2
      <4>3. back[i - (k - 1)] = waiters[k + (i - (k - 1))]
        BY <2>3, <4>2
      <4> QED BY <2>1, <3>2, <4>1, <4>2, <4>3
    <3> QED BY <2>1, <3>1, <3>2
  <2> QED BY <2>5, <2>6
<1>6. DOMAIN waiters = 1..Len(waiters) /\ Len(waiters) \in Nat /\ k \in 1..Len(waiters)
  BY <1>1, <1>3, QueueDomains
<1>7. TypeOK'
  <2>1. cancels' \in 0..MaxCancels
    BY <1>1, <1>2, UnitAssumption DEF TypeOK
  <2> QED BY <1>1, <1>2, <1>5, <2>1 DEF TypeOK, Users
<1>8. Locks'
  <2> DEFINE from(i) == IF i < k THEN i ELSE i + 1
  <2>1. ASSUME NEW i \in DOMAIN waiters'
        PROVE  from(i) \in DOMAIN waiters /\ waiters'[i] = waiters[from(i)] /\ from(i) # k
    BY <1>5, <1>6
  <2>2. ASSUME NEW i \in DOMAIN waiters', waiters'[i] \in Tasks
        PROVE  /\ pc'[waiters'[i]] = "lock"
               /\ \A j \in DOMAIN waiters' : waiters'[i] = waiters'[j] => i = j
    <3>1. waiters[from(i)] # t /\ pc[waiters[from(i)]] = "lock"
      BY <1>1, <1>3, <2>1, <2>2 DEF Locks
    <3>2. ASSUME NEW j \in DOMAIN waiters', waiters'[i] = waiters'[j] PROVE i = j
      <4>1. from(i) = from(j)
        BY <1>1, <2>1, <2>2, <3>2 DEF Locks
      <4> QED BY <1>5, <1>6, <4>1
    <3> QED BY <1>4, <2>1, <2>2, <3>1, <3>2
  <2> QED BY <1>1, <1>2, <1>4, <2>2 DEF Locks, Points
<1>9. Queue'
  BY <1>1, <1>2, <1>4 DEF Queue
<1>10. Rows'
  BY <1>1, <1>2 DEF Rows
<1>11. ASSUME NEW u \in Tasks \ {t} PROVE Stage(u)' /\ Told(u)'
  BY <1>1, <1>2, <1>4 DEF Stage, AtStart, AtBegin, AtWrite, AtCommit, Begun, Alone, NothingSent, Told
<1>12. Stage(t)' /\ Told(t)'
  BY <1>1, <1>2, <1>4 DEF Stage, Told
<1>13. Accounted'
  <2>1. Used => Used'
    BY <1>2, <1>4 DEF Used, Begun, NothingSent
  <2>2. Leaked => Leaked'
    BY <1>2, <1>4 DEF Leaked
  <2> QED BY <1>1, <1>2, <2>1, <2>2 DEF Accounted, Available, Ending
<1> QED BY <1>7, <1>8, <1>9, <1>10, <1>11, <1>12, <1>13 DEF UInv

(* What is left behind at a BEGIN is an empty transaction.                    *)
LEMMA CancelBeginKeeps ==
  ASSUME UInv, NEW t \in Tasks, CancelBegin(t)
  PROVE  UInv'
<1>1. /\ TypeOK /\ Locks /\ Stage(t) /\ Accounted
  BY DEF UInv
<1>2. /\ pc[t] = "begin" /\ Leave(t, "cancelled") /\ cancels < MaxCancels /\ cancels' = cancels + 1
      /\ UNCHANGED <<asked, waiters, closing, closer>>
  BY DEF CancelBegin, Cancellable, closeVars
<1>3. LineMoves(t) /\ holder = t /\ cancels' \in 0..MaxCancels
  BY <1>1, <1>2, UnitAssumption DEF LineMoves, Locks, Points, TypeOK
<1>4. pc' = [pc EXCEPT ![t] = "left"] /\ UNCHANGED <<reply, pending, requests>>
  BY <1>2 DEF Leave, threadVars, connectionVars
<1>5. Used => Leaked'
  <2> SUFFICES ASSUME Used PROVE Leaked'
    OBVIOUS
  <2>1. Begun(t)
    BY <1>1, <1>2, <1>3 DEF Used, Locks, Points
  <2>2. DOMAIN requests = {}
    BY <1>1, <2>1, QueueDomains DEF Begun, NothingSent
  <2>3. pc'[t] = "left" /\ reply'[t] = <<"begin", "ok">>
    BY <1>1, <1>4, <2>1 DEF Begun, TypeOK
  <2> QED BY <1>4, <2>1, <2>2, <2>3 DEF Leaked, Begun
<1>6. ASSUME Leaked PROVE Leaked'
  <2>1. PICK u \in Tasks : pc[u] = "left" /\ reply[u] = <<"begin", "ok">>
    BY <1>6 DEF Leaked
  <2>2. pc'[u] = "left" /\ reply'[u] = <<"begin", "ok">>
    BY <1>1, <1>4, <2>1 DEF TypeOK
  <2> QED BY <1>4, <1>6, <2>2 DEF Leaked
<1>7. inTx /\ Available => Ending \/ Leaked'
  BY <1>1, <1>5, <1>6 DEF Accounted
<1> QED BY <1>2, <1>3, <1>7, LeaveKeeps

LEMMA CancelStatementKeeps ==
  ASSUME UInv, NEW t \in Tasks, CancelStatement(t)
  PROVE  UInv'
<1>1. /\ pc[t] \in {"write", "commit"} /\ RollBack(t, "cancelled")
      /\ cancels < MaxCancels /\ cancels' = cancels + 1
  BY DEF CancelStatement, Cancellable
<1>2. cancels' \in 0..MaxCancels
  BY <1>1, UnitAssumption DEF UInv, TypeOK
<1>3. \A i \in DOMAIN requests : requests[i] # <<t, "begin">>
  <2> SUFFICES ASSUME NEW i \in DOMAIN requests, requests[i] = <<t, "begin">> PROVE FALSE
    OBVIOUS
  <2>1. requests[i][1] = t /\ requests[i][2] = "begin"
    OBVIOUS
  <2> QED BY <1>1, <2>1 DEF UInv, Queue
<1> QED BY <1>1, <1>2, <1>3, RollBackKeeps

LEMMA CancelRollbackKeeps ==
  ASSUME UInv, NEW t \in Tasks, CancelRollback(t)
  PROVE  UInv'
<1>1. /\ TypeOK /\ Locks /\ Accounted
  BY DEF UInv
<1>2. /\ pc[t] = "rollback" /\ Leave(t, "cancelled") /\ cancels < MaxCancels /\ cancels' = cancels + 1
      /\ UNCHANGED <<asked, waiters, closing, closer>>
  BY DEF CancelRollback, Cancellable, closeVars
<1>3. LineMoves(t) /\ holder = t /\ cancels' \in 0..MaxCancels
  BY <1>1, <1>2, UnitAssumption DEF LineMoves, Locks, Points, TypeOK
<1>4. ~Used
  <2>1. \A u \in Tasks : pc[u] \notin {"begin", "write", "commit"}
    BY <1>1, <1>2, <1>3 DEF Locks, Points
  <2> QED BY <2>1 DEF Used
<1>5. ASSUME Leaked PROVE Leaked'
  <2>1. PICK u \in Tasks : pc[u] = "left" /\ reply[u] = <<"begin", "ok">>
    BY <1>5 DEF Leaked
  <2>2. pc'[u] = "left" /\ reply'[u] = <<"begin", "ok">> /\ UNCHANGED <<pending, requests>>
    BY <1>1, <1>2, <2>1 DEF Leave, threadVars, connectionVars, TypeOK
  <2> QED BY <1>5, <2>2 DEF Leaked
<1>6. inTx /\ Available => Ending \/ Leaked'
  BY <1>1, <1>4, <1>5 DEF Accounted
<1> QED BY <1>2, <1>3, <1>6, LeaveKeeps

-----------------------------------------------------------------------------
(* Closing *)

LEMMA CloseBeginsKeeps ==
  ASSUME UInv, CloseBegins
  PROVE  UInv'
<1>1. /\ TypeOK /\ Locks /\ Queue /\ Rows
      /\ \A u \in Tasks : Stage(u) /\ Told(u)
  BY DEF UInv
<1>2. /\ closing' = TRUE /\ closer' = "lock" /\ waiters' = Append(waiters, Closer)
      /\ UNCHANGED <<pc, asked, outcome, holder, requests, reply, inTx, pending, durable, cancels>>
  BY DEF CloseBegins, threadVars, connectionVars
<1>3. /\ waiters' \in Seq(Users) /\ DOMAIN waiters' = 1..(Len(waiters) + 1)
      /\ waiters'[Len(waiters) + 1] = Closer
      /\ \A i \in DOMAIN waiters : waiters'[i] = waiters[i]
  BY <1>1, <1>2 DEF TypeOK, Users
<1>4. TypeOK'
  BY <1>1, <1>2, <1>3 DEF TypeOK, Users
<1>5. Locks'
  <2>1. \A i \in DOMAIN waiters' : i \in DOMAIN waiters \/ i = Len(waiters) + 1
    BY <1>1, <1>3, QueueDomains
  <2> QED BY <1>1, <1>2, <1>3, <2>1, UnitAssumption DEF Locks
<1>6. Queue' /\ Rows'
  BY <1>1, <1>2 DEF Queue, Rows
<1>7. ASSUME NEW u \in Tasks PROVE Stage(u)' /\ Told(u)'
  BY <1>1, <1>2 DEF Stage, AtStart, AtBegin, AtWrite, AtCommit, Begun, Alone, NothingSent, Told
<1>8. Accounted'
  BY <1>2 DEF Accounted, Available
<1> QED BY <1>4, <1>5, <1>6, <1>7, <1>8 DEF UInv

LEMMA CloseAcquiresKeeps ==
  ASSUME UInv, CloseAcquires
  PROVE  UInv'
<1>1. /\ TypeOK /\ Locks /\ Queue /\ Rows
      /\ \A u \in Tasks : Stage(u) /\ Told(u)
  BY DEF UInv
<1>2. /\ closer = "lock" /\ holder = Nobody /\ waiters # <<>> /\ Head(waiters) = Closer
      /\ holder' = Closer /\ waiters' = Tail(waiters) /\ closer' = "rollback" /\ Ask(Closer, "rollback")
      /\ UNCHANGED <<pc, asked, outcome, closing, cancels>>
  BY DEF CloseAcquires, Granted
<1>3. Closer \in Users /\ Closer \notin Tasks /\ "rollback" \in Points
  BY UnitAssumption DEF Users, Points
<1> DEFINE N == Len(requests)
<1>4. /\ requests' \in Seq(Users \X Points)
      /\ Len(requests') = N + 1
      /\ DOMAIN requests' = 1..(N + 1) /\ DOMAIN requests = 1..N /\ N \in Nat
      /\ requests'[N + 1] = <<Closer, "rollback">>
      /\ \A i \in DOMAIN requests : i \in DOMAIN requests' /\ requests'[i] = requests[i]
      /\ reply' \in [Users -> {NoReply} \union (Points \X {"ok", "error"})]
      /\ \A v \in Users \ {Closer} : reply'[v] = reply[v]
      /\ UNCHANGED <<inTx, pending, durable>>
  BY <1>1, <1>2, <1>3, AskFacts, QueueDomains
<1> HIDE DEF N
<1>5. LineMoves(Closer)
  BY <1>2 DEF LineMoves
<1>6. /\ waiters' \in Seq(Users)
      /\ \A i \in DOMAIN waiters' : waiters'[i] \in Tasks =>
              /\ pc'[waiters'[i]] = "lock"
              /\ \A j \in DOMAIN waiters' : waiters'[i] = waiters'[j] => i = j
  BY <1>1, <1>2, <1>3, <1>5, LineFacts
<1>7. \A u \in Tasks : pc[u] \notin Points
  BY <1>2, FreeLock
<1>8. \A i \in DOMAIN requests' : i \in DOMAIN requests \/ i = N + 1
  BY <1>4
<1>9. requests'[N + 1][1] = Closer /\ requests'[N + 1][2] = "rollback"
  BY <1>4
<1>10. TypeOK'
  BY <1>1, <1>2, <1>4, <1>6 DEF TypeOK, Users
<1>11. Locks'
  BY <1>1, <1>2, <1>6, <1>7 DEF Locks
<1>12. Queue'
  <2> SUFFICES ASSUME NEW i \in DOMAIN requests'
               PROVE  /\ requests'[i][2] \in {"write", "commit"} => i = 1 /\ inTx'
                      /\ requests'[i][2] \in {"begin", "write", "commit"} => requests'[i][1] \in Tasks
                      /\ requests'[i][2] = "begin" =>
                           /\ pc'[requests'[i][1]] \in {"begin", "left"}
                           /\ \A j \in DOMAIN requests' : requests'[j][1] = requests'[i][1] => i = j
                      /\ requests'[i][1] \in Tasks => pc'[requests'[i][1]] \notin {"outside", "lock"}
    BY DEF Queue
  <2>1. CASE i = N + 1
    BY <1>3, <1>9, <2>1
  <2>2. CASE i \in DOMAIN requests
    <3>1. requests'[i] = requests[i] /\ (requests[i][2] = "begin" => requests[i][1] \in Tasks)
      BY <1>1, <1>4, <2>2 DEF Queue
    <3>2. requests[i][2] = "begin" =>
            \A j \in DOMAIN requests' : requests'[j][1] = requests[i][1] => i = j
      <4> SUFFICES ASSUME requests[i][2] = "begin", NEW j \in DOMAIN requests',
                          requests'[j][1] = requests[i][1]
                   PROVE  i = j
        OBVIOUS
      <4>1. j # N + 1
        BY <1>3, <1>9, <3>1
      <4> QED BY <1>1, <1>4, <1>8, <2>2, <4>1 DEF Queue
    <3> QED BY <1>1, <1>2, <1>4, <2>2, <3>1, <3>2 DEF Queue
  <2> QED BY <1>8, <2>1, <2>2
<1>13. Rows'
  <2>1. \A i \in DOMAIN requests', u \in Tasks : requests'[i] \in {<<u, "write">>, <<u, "commit">>} =>
          i \in DOMAIN requests /\ requests'[i] = requests[i]
    BY <1>4, <1>8
  <2>2. /\ ~inTx' => \A u \in Tasks : pending'[u] = 0
        /\ \A u \in Tasks : durable'[u] \in {0, NWrites}
    BY <1>1, <1>4 DEF Rows
  <2>3. ASSUME NEW i \in DOMAIN requests', NEW u \in Tasks, requests'[i] = <<u, "write">>
        PROVE  pending'[u] < NWrites
    <3>1. i \in DOMAIN requests /\ requests[i] = <<u, "write">>
      BY <2>1, <2>3
    <3> QED BY <1>1, <1>4, <3>1 DEF Rows
  <2>4. ASSUME NEW i \in DOMAIN requests', NEW u \in Tasks, requests'[i] = <<u, "commit">>
        PROVE  /\ durable'[u] = 0 /\ pending'[u] = NWrites
               /\ \A v \in Tasks \ {u} : pending'[v] = 0
    <3>1. i \in DOMAIN requests /\ requests[i] = <<u, "commit">>
      BY <2>1, <2>4
    <3> QED BY <1>1, <1>4, <3>1 DEF Rows
  <2> QED BY <2>2, <2>3, <2>4 DEF Rows
<1>14. ASSUME NEW u \in Tasks PROVE Stage(u)' /\ Told(u)'
  <2>1. \A i \in DOMAIN requests' : requests'[i][1] = u =>
          i \in DOMAIN requests /\ requests'[i] = requests[i]
    BY <1>3, <1>4, <1>8, <1>9
  <2>2. reply'[u] = reply[u]
    BY <1>3, <1>4 DEF Users
  <2> QED BY <1>2, <1>4, <1>7, <2>1, <2>2, OthersKeep
<1>15. Accounted'
  BY <1>1, <1>2 DEF Accounted, Available, Locks
<1> QED BY <1>10, <1>11, <1>12, <1>13, <1>14, <1>15 DEF UInv

LEMMA CloseEndsKeeps ==
  ASSUME UInv, CloseEnds
  PROVE  UInv'
<1>1. /\ TypeOK /\ Locks /\ Queue /\ Rows
      /\ \A u \in Tasks : Stage(u) /\ Told(u)
  BY DEF UInv
<1>2. /\ closer = "rollback" /\ closer' = "closed" /\ closing' = FALSE /\ holder' = Nobody
      /\ UNCHANGED <<pc, asked, outcome, waiters, requests, reply, inTx, pending, durable, cancels>>
  BY DEF CloseEnds, threadVars, connectionVars
<1>3. TypeOK'
  BY <1>1, <1>2 DEF TypeOK
<1>4. \A u \in Tasks : pc[u] \notin Points
  BY <1>1, <1>2, UnitAssumption DEF Locks
<1>5. Locks'
  BY <1>1, <1>2, <1>4 DEF Locks
<1>6. Queue' /\ Rows'
  BY <1>1, <1>2 DEF Queue, Rows
<1>7. ASSUME NEW u \in Tasks PROVE Stage(u)' /\ Told(u)'
  BY <1>1, <1>2 DEF Stage, AtStart, AtBegin, AtWrite, AtCommit, Begun, Alone, NothingSent, Told
<1>8. Accounted'
  BY <1>2 DEF Accounted, Available
<1> QED BY <1>3, <1>5, <1>6, <1>7, <1>8 DEF UInv

-----------------------------------------------------------------------------
(* The thread serves the first request: of the rest none writes or commits,   *)
(* and the rows are those of the one unit that has the connection.            *)
LEMMA ThreadServesKeeps ==
  ASSUME UInv, ThreadServes
  PROVE  UInv'
<1>1. /\ TypeOK /\ Locks /\ Queue /\ Rows /\ Accounted
      /\ \A u \in Tasks : Stage(u) /\ Told(u)
  BY DEF UInv
<1> DEFINE N == Len(requests)
           t == requests[1][1]
           statement == requests[1][2]
           result == IF statement = "begin" /\ inTx THEN "error" ELSE "ok"
<1>2. /\ requests \in Seq(Users \X Points) /\ requests # <<>> /\ N \in Nat /\ N >= 1
      /\ DOMAIN requests = 1..N /\ 1 \in DOMAIN requests
      /\ requests[1] \in Users \X Points /\ Head(requests) = requests[1]
  BY <1>1 DEF ThreadServes, TypeOK, Users
<1>3. t \in Users /\ statement \in Points /\ requests[1] = <<t, statement>>
  BY <1>2
<1>4. /\ Serve(statement, t) /\ reply' = [reply EXCEPT ![t] = <<statement, result>>]
      /\ requests' = Tail(requests)
      /\ UNCHANGED <<pc, asked, outcome, holder, waiters, closing, closer, cancels>>
  BY <1>2 DEF ThreadServes, lockVars, closeVars
<1>5. /\ requests' \in Seq(Users \X Points) /\ Len(requests') = N - 1 /\ DOMAIN requests' = 1..(N - 1)
      /\ \A i \in DOMAIN requests' : requests'[i] = requests[i + 1] /\ i + 1 \in DOMAIN requests /\ i + 1 # 1
  BY <1>2, <1>4
<1>6. \A i \in DOMAIN requests : i # 1 => i - 1 \in DOMAIN requests' /\ requests'[i - 1] = requests[i]
  BY <1>2, <1>5
<1>7. /\ reply' \in [Users -> {NoReply} \union (Points \X {"ok", "error"})]
      /\ reply'[t] = <<statement, result>>
      /\ \A v \in Users \ {t} : reply'[v] = reply[v]
  BY <1>1, <1>3, <1>4 DEF TypeOK, Users
<1>8. /\ statement \in {"write", "commit"} => inTx
      /\ statement \in {"begin", "write", "commit"} => t \in Tasks
      /\ t \in Tasks => pc[t] \notin {"outside", "lock"}
      /\ statement = "begin" => /\ pc[t] \in {"begin", "left"}
                                /\ \A j \in DOMAIN requests : requests[j][1] = t => j = 1
  BY <1>1, <1>2 DEF Queue
<1>9. statement = "write" => pending[t] < NWrites
  BY <1>1, <1>2, <1>3, <1>8 DEF Rows
<1>10. statement = "commit" =>
         durable[t] = 0 /\ pending[t] = NWrites /\ \A u \in Tasks \ {t} : pending[u] = 0
  BY <1>1, <1>2, <1>3, <1>8 DEF Rows
<1> HIDE DEF N, t, statement, result
(* The four statements.                                                       *)
<1>11. statement = "begin" => inTx' /\ UNCHANGED <<pending, durable>>
  BY <1>4 DEF Serve
<1>12. statement = "write" => /\ pending' = [pending EXCEPT ![t] = @ + 1] /\ UNCHANGED <<inTx, durable>>
  BY <1>4, <1>8 DEF Serve
<1>13. statement = "commit" =>
         /\ durable' = [u \in Tasks |-> durable[u] + pending[u]] /\ pending' = NoRows /\ ~inTx'
  BY <1>4 DEF Serve
<1>14. statement = "rollback" => pending' = NoRows /\ ~inTx' /\ UNCHANGED durable
  BY <1>4 DEF Serve
<1>15. statement \in {"begin", "write", "commit", "rollback"}
  BY <1>3 DEF Points
<1>16. pending \in [Tasks -> 0..NWrites] /\ durable \in [Tasks -> 0..NWrites] /\ NWrites \in Nat \ {0}
  BY <1>1, UnitAssumption DEF TypeOK
<1>17. \A u \in Tasks : \/ durable'[u] = durable[u]
                        \/ statement = "commit" /\ u = t /\ durable[u] = 0 /\ durable'[u] = NWrites
  BY <1>10, <1>11, <1>12, <1>13, <1>14, <1>15, <1>16
<1>18. \A i \in DOMAIN requests' : requests'[i][2] \notin {"write", "commit"}
  BY <1>1, <1>5 DEF Queue
<1>19. pending' \in [Tasks -> 0..NWrites] /\ durable' \in [Tasks -> 0..NWrites] /\ inTx' \in BOOLEAN
  <2>1. CASE statement = "begin"
    BY <1>4, <1>11, <1>16, <2>1 DEF Serve
  <2>2. CASE statement = "write"
    <3>1. t \in Tasks /\ pending[t] + 1 \in 0..NWrites
      BY <1>8, <1>9, <1>16, <2>2
    <3>2. pending' \in [Tasks -> 0..NWrites]
      BY <1>12, <1>16, <2>2, <3>1
    <3>3. inTx' = inTx /\ durable' = durable /\ inTx \in BOOLEAN
      BY <1>1, <1>12, <2>2 DEF TypeOK
    <3> QED BY <1>16, <3>2, <3>3
  <2>3. CASE statement = "commit"
    <3>1. pending' \in [Tasks -> 0..NWrites]
      BY <1>13, <1>16, <2>3 DEF NoRows
    <3>2. durable' \in [Tasks -> 0..NWrites]
      <4>1. \A u \in Tasks : durable[u] + pending[u] \in 0..NWrites
        BY <1>10, <1>16, <2>3
      <4> QED BY <1>13, <2>3, <4>1
    <3>3. inTx' = FALSE
      BY <1>4, <2>3 DEF Serve
    <3> QED BY <3>1, <3>2, <3>3
  <2>4. CASE statement = "rollback"
    <3>1. pending' \in [Tasks -> 0..NWrites] /\ durable' \in [Tasks -> 0..NWrites]
      BY <1>14, <1>16, <2>4 DEF NoRows
    <3>2. inTx' = FALSE
      BY <1>4, <2>4 DEF Serve
    <3> QED BY <3>1, <3>2
  <2> QED BY <1>15, <2>1, <2>2, <2>3, <2>4
<1>20. TypeOK'
  BY <1>1, <1>4, <1>5, <1>7, <1>19 DEF TypeOK, Users
<1>21. Locks'
  BY <1>1, <1>4 DEF Locks
<1>22. Queue'
  <2> SUFFICES ASSUME NEW i \in DOMAIN requests'
               PROVE  /\ requests'[i][2] \in {"write", "commit"} => i = 1 /\ inTx'
                      /\ requests'[i][2] \in {"begin", "write", "commit"} => requests'[i][1] \in Tasks
                      /\ requests'[i][2] = "begin" =>
                           /\ pc'[requests'[i][1]] \in {"begin", "left"}
                           /\ \A j \in DOMAIN requests' : requests'[j][1] = requests'[i][1] => i = j
                      /\ requests'[i][1] \in Tasks => pc'[requests'[i][1]] \notin {"outside", "lock"}
    BY DEF Queue
  <2>1. requests'[i] = requests[i + 1] /\ i + 1 \in DOMAIN requests
    BY <1>5
  <2>2. ASSUME requests[i + 1][2] = "begin", NEW j \in DOMAIN requests', requests'[j][1] = requests'[i][1]
        PROVE  i = j
    <3>1. requests[j + 1][1] = requests[i + 1][1] /\ j + 1 \in DOMAIN requests
      BY <1>5, <2>1, <2>2
    <3>2. i + 1 = j + 1
      BY <1>1, <2>1, <2>2, <3>1 DEF Queue
    <3> QED BY <1>2, <1>5, <3>2
  <2>3. /\ requests[i + 1][2] \in {"begin", "write", "commit"} => requests[i + 1][1] \in Tasks
        /\ requests[i + 1][2] = "begin" => pc[requests[i + 1][1]] \in {"begin", "left"}
        /\ requests[i + 1][1] \in Tasks => pc[requests[i + 1][1]] \notin {"outside", "lock"}
    BY <1>1, <2>1 DEF Queue
  <2> QED BY <1>4, <1>18, <2>1, <2>2, <2>3
<1>23. Rows'
  <2>1. ~inTx' => \A u \in Tasks : pending'[u] = 0
    BY <1>8, <1>11, <1>12, <1>13, <1>14, <1>15 DEF NoRows
  <2>2. \A u \in Tasks : durable'[u] \in {0, NWrites}
    BY <1>1, <1>17 DEF Rows
  <2> QED BY <1>18, <2>1, <2>2 DEF Rows
<1>24. \A i \in DOMAIN requests', u \in Tasks : requests'[i][1] = u =>
         \E j \in DOMAIN requests : j # 1 /\ requests[j] = requests'[i]
  BY <1>5
<1>25. ASSUME NEW u \in Tasks PROVE Stage(u)'
  <2>1. Stage(u) /\ u \in Users
    BY <1>1 DEF Users
  <2>2. CASE pc[u] \in {"outside", "lock"}
    <3>1. u # t
      BY <1>8, <2>2
    <3> QED BY <1>4, <1>7, <1>17, <2>1, <2>2, <3>1 DEF Stage, AtStart, NoReply
  <2>3. CASE pc[u] = "begin"
    <3>1. AtBegin(u) /\ (reply[u][1] = "begin" => \A i \in DOMAIN requests : requests[i][1] # u)
      BY <2>1, <2>3 DEF Stage
    <3>2. CASE u = t
      <4>1. reply[u] = NoReply /\ requests[N] = <<u, "begin">>
        <5>1. requests[1][1] = u
          BY <3>2 DEF t
        <5> QED BY <1>2, <3>1, <5>1 DEF AtBegin, Begun, N
      <4>2. N = 1 /\ statement = "begin"
        <5>1. requests[N][2] = "begin" /\ requests[N][1] = requests[1][1] /\ N \in DOMAIN requests
          BY <1>2, <3>2, <4>1 DEF t
        <5>2. N = 1
          BY <1>1, <1>2, <5>1 DEF Queue
        <5> QED BY <4>1, <5>2 DEF statement
      <4>3. reply'[u] = <<"begin", IF inTx THEN "error" ELSE "ok">>
        BY <1>7, <3>2, <4>2 DEF result
      <4>4. Len(requests') = 0 /\ inTx' /\ UNCHANGED <<pending, durable>>
        BY <1>5, <1>11, <4>2
      <4>5. ~inTx => \A v \in Tasks : pending[v] = 0
        BY <1>1 DEF Rows
      <4>6. AtBegin(u)'
        BY <1>4, <3>1, <4>3, <4>4, <4>5 DEF AtBegin, Begun, NothingSent
      <4> QED BY <1>4, <1>5, <2>3, <4>2, <4>6 DEF Stage
    <3>3. CASE u # t
      <4>1. reply'[u] = reply[u] /\ durable'[u] = durable[u]
        BY <1>7, <1>17, <2>1, <3>3
      <4>2. AtBegin(u)'
        <5>1. ~Begun(u)
          BY <1>2 DEF Begun, NothingSent, N
        <5>2. ASSUME Len(requests) > 0, requests[Len(requests)] = <<u, "begin">>
              PROVE  Len(requests') > 0 /\ requests'[Len(requests')] = <<u, "begin">>
          <6>1. N # 1
            BY <3>3, <5>2 DEF N, t
          <6>2. N \in DOMAIN requests /\ N - 1 = Len(requests') /\ Len(requests') > 0
            BY <1>2, <1>5, <6>1
          <6> QED BY <1>6, <5>2, <6>1, <6>2 DEF N
        <5> QED BY <1>4, <3>1, <4>1, <5>1, <5>2 DEF AtBegin
      <4>3. reply'[u][1] = "begin" => \A i \in DOMAIN requests' : requests'[i][1] # u
        BY <1>5, <3>1, <4>1
      <4> QED BY <1>4, <2>3, <4>2, <4>3 DEF Stage
    <3> QED BY <3>2, <3>3
  <2>4. CASE pc[u] = "write"
    <3>1. AtWrite(u) /\ ~NothingSent
      BY <1>2, <2>1, <2>4 DEF Stage, NothingSent, N
    <3>2. N = 1 /\ t = u /\ statement = "write" /\ pending[u] + 1 = asked[u]
      BY <3>1 DEF AtWrite, Alone, N, t, statement
    <3>3. reply'[u] = <<"write", "ok">> /\ Len(requests') = 0
      BY <1>5, <1>7, <3>2 DEF result
    <3>4. /\ pending'[u] = pending[u] + 1 /\ \A v \in Tasks \ {u} : pending'[v] = pending[v]
          /\ inTx' = inTx /\ durable' = durable
      BY <1>12, <1>16, <3>2
    <3>5. AtWrite(u)'
      BY <1>4, <3>1, <3>2, <3>3, <3>4 DEF AtWrite, NothingSent
    <3> QED BY <1>4, <2>4, <3>3, <3>5 DEF Stage
  <2>5. CASE pc[u] = "commit"
    <3>1. AtCommit(u) /\ ~NothingSent
      BY <1>2, <2>1, <2>5 DEF Stage, NothingSent, N
    <3>2. N = 1 /\ t = u /\ statement = "commit"
      BY <3>1 DEF AtCommit, Alone, N, t, statement
    <3>3. reply'[u] = <<"commit", "ok">> /\ Len(requests') = 0
      BY <1>5, <1>7, <3>2 DEF result
    <3>4. ~inTx' /\ durable'[u] = NWrites
      BY <1>10, <1>13, <1>16, <3>2
    <3>5. AtCommit(u)'
      BY <3>3, <3>4 DEF AtCommit, NothingSent
    <3> QED BY <1>4, <2>5, <3>3, <3>5 DEF Stage
  <2>6. CASE pc[u] \in {"rollback", "left"}
    <3>1. reply'[u][1] = "begin" => \A i \in DOMAIN requests' : requests'[i][1] # u
      <4>1. CASE u = t
        <5>1. reply'[u][1] = statement
          BY <1>7, <4>1
        <5>2. statement = "begin" => \A i \in DOMAIN requests' : requests'[i][1] # u
          BY <1>5, <1>8, <4>1
        <5> QED BY <5>1, <5>2
      <4>2. CASE u # t
        BY <1>5, <1>7, <2>1, <4>2 DEF Stage
      <4> QED BY <4>1, <4>2
    <3> QED BY <1>4, <2>6, <3>1 DEF Stage
  <2>7. pc[u] \in {"outside", "lock", "left", "begin", "write", "commit", "rollback"}
    BY <1>1 DEF TypeOK, Points
  <2> QED BY <2>2, <2>3, <2>4, <2>5, <2>6, <2>7
<1>26. ASSUME NEW u \in Tasks PROVE Told(u)'
  <2>1. Told(u)
    BY <1>1
  <2>2. outcome[u] = "failed" => durable'[u] = durable[u]
    <3>1. outcome[u] = "failed" => requests[1] # <<u, "commit">>
      BY <1>2, <2>1 DEF Told
    <3> QED BY <1>3, <1>17, <3>1
  <2>3. outcome[u] = "failed" => \A i \in DOMAIN requests' : requests'[i] # <<u, "commit">>
    BY <1>5, <2>1 DEF Told
  <2>4. durable[u] = NWrites => durable'[u] = NWrites
    BY <1>17
  <2> QED BY <1>4, <2>1, <2>2, <2>3, <2>4 DEF Told
<1>27. Accounted'
  <2> SUFFICES ASSUME inTx', Available' PROVE Used' \/ Ending' \/ Leaked'
    BY DEF Accounted
  <2>1. statement \in {"begin", "write"} /\ Available
    BY <1>4, <1>13, <1>14, <1>15 DEF Available
  <2>2. ASSUME Ending PROVE Ending'
    <3>1. PICK i \in DOMAIN requests : requests[i][2] \in {"commit", "rollback"}
      BY <2>2 DEF Ending
    <3>2. i # 1
      BY <2>1, <3>1 DEF statement
    <3> QED BY <1>6, <3>1, <3>2 DEF Ending
  <2>3. CASE statement = "begin" /\ ~inTx
    <3>1. reply'[t] = <<"begin", "ok">> /\ t \in Tasks /\ pc[t] \in {"begin", "left"}
      BY <1>7, <1>8, <2>3 DEF result
    <3>2. CASE pc[t] = "begin"
      <4> PICK u \in Tasks : u = t
        BY <3>1
      <4>1. AtBegin(u)'
        BY <1>4, <1>25, <3>2 DEF Stage
      <4>2. Begun(u)'
        BY <3>1, <4>1 DEF AtBegin, NoReply
      <4> QED BY <1>4, <3>2, <4>2 DEF Used
    <3>3. CASE pc[t] = "left"
      <4>1. \A u \in Tasks : pending'[u] = 0
        BY <1>1, <1>11, <2>3 DEF Rows
      <4> QED BY <1>4, <1>18, <3>1, <3>3, <4>1 DEF Leaked
    <3> QED BY <3>1, <3>2, <3>3
  <2>4. CASE statement = "begin" /\ inTx
    <3>1. ~Used
      <4> SUFFICES ASSUME NEW u \in Tasks, (pc[u] = "begin" /\ Begun(u)) \/ pc[u] \in {"write", "commit"}
                   PROVE  FALSE
        BY DEF Used
      <4>1. ~NothingSent
        BY <1>2 DEF NothingSent, N
      <4>2. ~Alone(u, "write") /\ ~Alone(u, "commit")
        BY <2>4 DEF Alone, statement
      <4>3. Stage(u)
        BY <1>1
      <4> QED BY <4>1, <4>2, <4>3 DEF Begun, Stage, AtWrite, AtCommit
    <3>2. ASSUME Leaked PROVE Leaked'
      <4>1. PICK u \in Tasks : pc[u] = "left" /\ reply[u] = <<"begin", "ok">>
        BY <3>2 DEF Leaked
      <4>2. u # t /\ u \in Users
        <5>1. Stage(u) /\ reply[u][1] = "begin"
          BY <1>1, <4>1
        <5> QED BY <1>2, <5>1 DEF Stage, t, Users
      <4>3. pc'[u] = "left" /\ reply'[u] = <<"begin", "ok">> /\ pending' = pending
        BY <1>4, <1>7, <1>11, <2>4, <4>1, <4>2
      <4> QED BY <1>18, <3>2, <4>3 DEF Leaked
    <3> QED BY <1>1, <2>1, <2>2, <2>4, <3>1, <3>2 DEF Accounted
  <2>5. CASE statement = "write"
    <3>1. ~Leaked
      BY <1>2, <2>5 DEF Leaked, statement
    <3>2. ASSUME Used PROVE Used'
      <4>1. PICK u \in Tasks : (pc[u] = "begin" /\ Begun(u)) \/ pc[u] \in {"write", "commit"}
        BY <3>2 DEF Used
      <4>2. ~Begun(u)
        BY <1>2 DEF Begun, NothingSent, N
      <4> QED BY <1>4, <4>1, <4>2 DEF Used
    <3> QED BY <1>1, <1>8, <2>1, <2>2, <2>5, <3>1, <3>2 DEF Accounted
  <2> QED BY <2>1, <2>3, <2>4, <2>5
<1> QED BY <1>20, <1>21, <1>22, <1>23, <1>25, <1>26, <1>27 DEF UInv

-----------------------------------------------------------------------------
LEMMA UInvStep ==
  ASSUME UInv, [Next]_vars
  PROVE  UInv'
<1>1. CASE UNCHANGED vars
  <2>1. UNCHANGED <<pc, asked, outcome, holder, waiters, requests, reply, inTx, pending, durable,
                    closing, closer, cancels>>
    BY <1>1 DEF vars, lockVars, threadVars, connectionVars, closeVars
  <2>2. TypeOK' /\ Locks' /\ Queue' /\ Rows'
    BY <2>1 DEF UInv, TypeOK, Locks, Queue, Rows
  <2>3. Accounted'
    BY <2>1 DEF UInv, Accounted, Available, Used, Begun, NothingSent, Ending, Leaked
  <2>4. ASSUME NEW u \in Tasks PROVE Stage(u)' /\ Told(u)'
    BY <2>1 DEF UInv, Stage, AtStart, AtBegin, AtWrite, AtCommit, Begun, Alone, NothingSent, Told
  <2> QED BY <2>2, <2>3, <2>4 DEF UInv
<1>2. CASE ThreadServes
  BY <1>2, ThreadServesKeeps
<1>3. CASE \E t \in Tasks : Enter(t) \/ Step(t) \/ CancelTask(t)
  <2> PICK t \in Tasks : Enter(t) \/ Step(t) \/ CancelTask(t)
    BY <1>3
  <2>1. CASE Enter(t)
    BY <2>1, EnterKeeps
  <2>2. CASE Step(t)
    BY <2>2, AcquireKeeps, BeginRefusedKeeps, BodyWritesKeeps, CommitKeeps, BodyGivesUpKeeps, FinishKeeps
       DEF Step
  <2>3. CASE CancelTask(t)
    BY <2>3, CancelWaitingKeeps, CancelBeginKeeps, CancelStatementKeeps, CancelRollbackKeeps DEF CancelTask
  <2> QED BY <2>1, <2>2, <2>3
<1>4. CASE CloseBegins \/ CloseAcquires \/ CloseEnds
  BY <1>4, CloseBeginsKeeps, CloseAcquiresKeeps, CloseEndsKeeps
<1> QED BY <1>1, <1>2, <1>3, <1>4 DEF Next

(* Every reachable state of lock, connection, thread and tasks is typed and   *)
(* accounted for, for any tasks, statements, cancellations and a close().     *)
THEOREM UnitsInvariant == Spec => []UInv
  BY UInvInit, UInvStep, PTL DEF Spec

(* A unit of work becomes durable as a whole or not at all (unit_of_work.py). *)
THEOREM UnitsAreAtomic == Spec => []AllOrNothing
<1>1. UInv => AllOrNothing
  BY DEF UInv, Rows, AllOrNothing
<1> QED BY <1>1, UnitsInvariant, PTL

(* The caller of a unit is told what happened to its rows.                    *)
THEOREM OutcomesAreTruthful == Spec => []OutcomeTruthful
<1>1. UInv => OutcomeTruthful
  BY DEF UInv, Told, OutcomeTruthful
<1> QED BY <1>1, UnitsInvariant, PTL

(* A transaction that outlives its unit is empty, and was left at a BEGIN     *)
(* whose await was cancelled: no other way out of a unit leaves one.          *)
THEOREM LeaksAreEmpty == Spec => []OnlyBeginLeaks
<1>1. ASSUME UInv, Quiet, inTx PROVE Leaked
  <2>1. \A t \in Tasks : pc[t] \notin Points
    BY <1>1, FreeLock DEF Quiet
  <2>2. ~Used
    BY <2>1 DEF Used, Points
  <2>3. ~Ending
    BY <1>1 DEF Quiet, Ending
  <2> QED BY <1>1, <2>2, <2>3 DEF UInv, Accounted, Quiet
<1>2. UInv => OnlyBeginLeaks
  <2> SUFFICES ASSUME UInv, Quiet, inTx
               PROVE  pending = NoRows /\ \E t \in Tasks : pc[t] = "left" /\ reply[t] = <<"begin", "ok">>
    BY DEF OnlyBeginLeaks
  <2>1. Leaked
    BY <1>1
  <2>2. pending = NoRows
    BY <2>1 DEF Leaked, NoRows, UInv, TypeOK
  <2> QED BY <2>1, <2>2 DEF Leaked
<1> QED BY <1>2, UnitsInvariant, PTL
=============================================================================
