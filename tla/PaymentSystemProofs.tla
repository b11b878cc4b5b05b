------------------------ MODULE PaymentSystemProofs ------------------------
(***************************************************************************)
(* Proofs about OrderApi and PaymentSystem for any number of requests,     *)
(* keys and connections, whatever fails, with or without a lagging reader. *)
(***************************************************************************)
EXTENDS PaymentSystem, TLAPS

USE RequestAssumption, PaidAssumption

\* A request's row is committed no earlier than WithTransaction's commit, and is
\* there when its job is published; with the job goes the answer CREATED.
RowsInOrder ==
    \A r \in Requests :
        /\ r \in rows => pc[r] \in {"publish", "done"}
        /\ pc[r] = "publish" => r \in rows
        /\ r \in topic => response[r] = "CREATED"

\* While a request with a patient key is being handled, the others with its key
\* rest and their rows are visible, so once it has passed the idempotency check
\* the key has no row.
OneAtATime ==
    \A r \in Requests : KeyOf[r] \in Patient =>
        /\ pc[r] \notin {"new", "done"} => ~KeyBusy(r)
        /\ pc[r] \in {"account", "create", "commit"} =>
              \A q \in rows : KeyOf[q] # KeyOf[r]

\* The inductive invariant of order-api.
ApiInv ==
    /\ TypeOK
    /\ RowsInOrder
    /\ JobsHaveRows
    /\ ConflictHasTwin
    /\ OneAtATime
    /\ OneOrderPerKey

\* What the workers add: only a job that was produced is debited.
WorkersInv == \A r \in Requests : paid[r] > 0 => r \in topic

\* The inductive invariant of the whole system.
SysInv == SysTypeOK /\ ApiInv /\ WorkersInv

-----------------------------------------------------------------------------
(* order-api. *)

LEMMA ApiInit == Init => ApiInv
  BY DEF Init, ApiInv, TypeOK, RowsInOrder, JobsHaveRows, ConflictHasTwin,
         OneAtATime, OneOrderPerKey, Labels, Codes

\* A step of request r that only moves it on, or ends it with an error code.  It
\* needs a guard when it starts a patient key, when it passes the idempotency
\* check, and when it answers that the key exists.
LEMMA MoveInv ==
    ASSUME ApiInv, TypeOK', NEW r \in Requests,
           pc[r] \in {"new", "begin", "check", "account", "create", "commit"},
           pc'[r] \in {"begin", "check", "account", "create", "commit", "done"},
           \A q \in Requests \ {r} : pc'[q] = pc[q] /\ response'[q] = response[q],
           IF pc'[r] = "done"
             THEN response'[r] \in {"IDEMPOTENCY_CONFLICT", "REFUSED", "SERVER_ERROR"}
             ELSE response'[r] = response[r],
           response'[r] = "IDEMPOTENCY_CONFLICT" => KeySeen(r),
           pc[r] = "new" /\ KeyOf[r] \in Patient => ~KeyBusy(r),
           pc'[r] \in {"account", "create", "commit"} =>
              pc[r] \in {"account", "create", "commit"} \/ (pc[r] = "check" /\ ~KeySeen(r)),
           UNCHANGED <<rows, seen, topic>>
    PROVE  ApiInv'
<1>1. rows \subseteq Requests /\ seen \subseteq rows
  BY DEF ApiInv, TypeOK
<1>3. r \notin rows /\ response[r] = "none"
  BY <1>1 DEF ApiInv, TypeOK, RowsInOrder
<1>4. RowsInOrder'
  BY <1>1, <1>3 DEF ApiInv, TypeOK, RowsInOrder
<1>5. JobsHaveRows'
  BY <1>1, <1>3 DEF ApiInv, JobsHaveRows
<1>6. ConflictHasTwin'
  BY <1>1, <1>3 DEF ApiInv, ConflictHasTwin, KeySeen
<1>7. OneOrderPerKey'
  BY <1>1 DEF ApiInv, OneOrderPerKey
<1>8. ASSUME NEW p \in Requests, KeyOf[p] \in Patient, pc'[p] \notin {"new", "done"},
             NEW q \in Requests \ {p}, KeyOf[q] = KeyOf[p]
      PROVE  pc'[q] \in {"new", "done"} /\ q \notin rows \ seen
  <2>1. CASE p = r
    BY <1>1, <1>8, <2>1 DEF ApiInv, OneAtATime, KeyBusy
  <2>2. CASE q = r
    BY <1>1, <1>3, <1>8, <2>2 DEF ApiInv, OneAtATime, KeyBusy
  <2>3. CASE p # r /\ q # r
    BY <1>1, <1>8, <2>3 DEF ApiInv, OneAtATime, KeyBusy
  <2> QED
    BY <2>1, <2>2, <2>3
<1>9. ASSUME NEW p \in Requests, KeyOf[p] \in Patient,
             pc'[p] \in {"account", "create", "commit"}, NEW q \in rows
      PROVE  KeyOf[q] # KeyOf[p]
  <2>1. CASE p # r \/ pc[r] # "check"
    BY <1>1, <1>9, <2>1 DEF ApiInv, OneAtATime
  <2>2. CASE p = r /\ pc[r] = "check"
    BY <1>1, <1>3, <1>9, <2>2 DEF ApiInv, OneAtATime, KeyBusy, KeySeen
  <2> QED
    BY <2>1, <2>2
<1>10. OneAtATime'
  BY <1>8, <1>9 DEF OneAtATime, KeyBusy
<1> QED
  BY <1>4, <1>5, <1>6, <1>7, <1>10 DEF ApiInv

\* An error ends request r before its commit.
LEMMA AnswerInv ==
    ASSUME ApiInv, NEW r \in Requests,
           NEW from \in {"new", "begin", "check", "account", "create"},
           NEW code \in {"IDEMPOTENCY_CONFLICT", "REFUSED", "SERVER_ERROR"},
           Answer(r, from, code),
           code = "IDEMPOTENCY_CONFLICT" => KeySeen(r),
           from = "new" /\ KeyOf[r] \in Patient => ~KeyBusy(r),
           UNCHANGED <<rows, seen, topic>>
    PROVE  ApiInv'
<1>1. TypeOK' /\ pc[r] = from /\ pc'[r] = "done" /\ response'[r] = code
  BY DEF ApiInv, TypeOK, Answer, Goto, Labels, Codes
<1>2. \A q \in Requests \ {r} : pc'[q] = pc[q] /\ response'[q] = response[q]
  BY DEF ApiInv, TypeOK, Answer, Goto
<1> QED
  BY <1>1, <1>2, MoveInv

\* Request r goes on to its next step.
LEMMA GotoInv ==
    ASSUME ApiInv, NEW r \in Requests,
           NEW from \in {"new", "begin", "check", "account", "create"},
           NEW to \in {"begin", "check", "account", "create", "commit"},
           Goto(r, from, to),
           from = "new" /\ KeyOf[r] \in Patient => ~KeyBusy(r),
           to = "account" => from = "check" /\ ~KeySeen(r),
           to \in {"create", "commit"} => from \in {"account", "create"},
           UNCHANGED <<response, rows, seen, topic>>
    PROVE  ApiInv'
<1>1. TypeOK' /\ pc[r] = from /\ pc'[r] = to /\ response[r] = "none"
  BY DEF ApiInv, TypeOK, RowsInOrder, Goto, Labels
<1>2. \A q \in Requests \ {r} : pc'[q] = pc[q] /\ response'[q] = response[q]
  BY DEF ApiInv, TypeOK, Goto
<1> QED
  BY <1>1, <1>2, MoveInv

\* The commit: for a patient key it adds the first row.
LEMMA CommitInv ==
    ASSUME ApiInv, NEW r \in Requests, Commit(r)
    PROVE  ApiInv'
<1>1. /\ pc[r] = "commit" /\ pc'[r] \in {"publish", "done"}
      /\ pc' \in [Requests -> Labels] /\ response' \in [Requests -> Codes]
      /\ \A q \in Requests \ {r} : pc'[q] = pc[q] /\ response'[q] = response[q]
      /\ pc'[r] = "publish" => r \in rows' /\ response'[r] = response[r]
      /\ pc'[r] = "done" => response'[r] = "SERVER_ERROR"
      /\ rows' \in {rows, rows \cup {r}} /\ topic' = topic
  BY DEF ApiInv, TypeOK, Commit, Goto, Answer, Labels, Codes
<1>2. /\ rows \subseteq Requests /\ seen \subseteq rows
      /\ r \notin rows /\ response[r] = "none"
  BY <1>1 DEF ApiInv, TypeOK, RowsInOrder
<1>3. seen' \in {seen, rows'}
  BY DEF Commit
<1>4. TypeOK'
  BY <1>1, <1>2, <1>3 DEF ApiInv, TypeOK
<1>5. RowsInOrder'
  BY <1>1, <1>2 DEF ApiInv, RowsInOrder
<1>6. JobsHaveRows'
  BY <1>1, <1>2 DEF ApiInv, JobsHaveRows
<1>7. ConflictHasTwin'
  BY <1>1, <1>2 DEF ApiInv, ConflictHasTwin
<1>8. OneOrderPerKey'
  BY <1>1, <1>2 DEF ApiInv, OneOrderPerKey, OneAtATime
<1>9. ASSUME NEW p \in Requests, KeyOf[p] \in Patient, pc'[p] \notin {"new", "done"},
             NEW q \in Requests \ {p}, KeyOf[q] = KeyOf[p]
      PROVE  pc'[q] \in {"new", "done"} /\ q \notin rows' \ seen'
  <2>1. pc[p] \notin {"new", "done"}
    BY <1>1, <1>9
  <2>2. pc[q] \in {"new", "done"} /\ q \notin rows \ seen
    BY <1>9, <2>1 DEF ApiInv, OneAtATime, KeyBusy
  <2>3. q # r
    BY <1>1, <2>2
  <2> QED
    BY <1>1, <1>2, <1>3, <2>2, <2>3
<1>10. ASSUME NEW p \in Requests, KeyOf[p] \in Patient,
              pc'[p] \in {"account", "create", "commit"}, NEW q \in rows'
       PROVE  KeyOf[q] # KeyOf[p]
  <2>1. p # r /\ pc[p] = pc'[p]
    BY <1>1, <1>10
  <2>2. KeyOf[r] # KeyOf[p]
    BY <1>1, <1>10, <2>1 DEF ApiInv, OneAtATime, KeyBusy
  <2> QED
    BY <1>1, <1>10, <2>1, <2>2 DEF ApiInv, OneAtATime
<1>11. OneAtATime'
  BY <1>9, <1>10 DEF OneAtATime, KeyBusy
<1> QED
  BY <1>4, <1>5, <1>6, <1>7, <1>8, <1>11 DEF ApiInv

LEMMA PublishInv ==
    ASSUME ApiInv, NEW r \in Requests, PublishOrder(r)
    PROVE  ApiInv'
<1>1. /\ pc[r] = "publish" /\ pc'[r] = "done" /\ response'[r] = "CREATED"
      /\ pc' \in [Requests -> Labels] /\ response' \in [Requests -> Codes]
      /\ \A q \in Requests \ {r} : pc'[q] = pc[q] /\ response'[q] = response[q]
      /\ rows' = rows /\ seen' = seen /\ topic' \in {topic, topic \cup {r}}
      /\ rows \subseteq Requests
  BY DEF ApiInv, TypeOK, PublishOrder, Goto, Answer, Labels, Codes
<1>2. r \in rows
  BY <1>1 DEF ApiInv, RowsInOrder
<1>3. TypeOK' /\ RowsInOrder'
  BY <1>1, <1>2 DEF ApiInv, TypeOK, RowsInOrder
<1>4. JobsHaveRows' /\ ConflictHasTwin' /\ OneOrderPerKey'
  BY <1>1, <1>2 DEF ApiInv, JobsHaveRows, ConflictHasTwin, OneOrderPerKey
<1>5. OneAtATime'
  BY <1>1 DEF ApiInv, OneAtATime, KeyBusy
<1> QED
  BY <1>3, <1>4, <1>5 DEF ApiInv

LEMMA ReplicateInv == ApiInv /\ Replicate => ApiInv'
  BY DEF ApiInv, Replicate, TypeOK, RowsInOrder, JobsHaveRows, ConflictHasTwin,
         OneAtATime, OneOrderPerKey, KeyBusy

LEMMA ApiNext == ApiInv /\ [Next]_vars => ApiInv'
<1> SUFFICES ASSUME ApiInv, [Next]_vars
             PROVE  ApiInv'
  OBVIOUS
<1>1. ASSUME NEW r \in Requests, Arrive(r)
      PROVE  ApiInv'
  <2>1. CASE Answer(r, "new", "REFUSED")
    BY <1>1, <2>1, AnswerInv DEF Arrive
  <2>2. CASE Goto(r, "new", "begin") /\ UNCHANGED response
    BY <1>1, <2>2, GotoInv DEF Arrive
  <2> QED
    BY <1>1, <2>1, <2>2 DEF Arrive
<1>2. ASSUME NEW r \in Requests, Begin(r)
      PROVE  ApiInv'
  <2>1. CASE Answer(r, "begin", "SERVER_ERROR")
    BY <1>2, <2>1, AnswerInv DEF Begin
  <2>2. CASE Goto(r, "begin", "check") /\ UNCHANGED response
    BY <1>2, <2>2, GotoInv DEF Begin
  <2> QED
    BY <1>2, <2>1, <2>2 DEF Begin
<1>3. ASSUME NEW r \in Requests, CheckIdempotency(r)
      PROVE  ApiInv'
  <2>1. CASE KeySeen(r) /\ Answer(r, "check", "IDEMPOTENCY_CONFLICT")
    BY <1>3, <2>1, AnswerInv DEF CheckIdempotency
  <2>2. CASE Answer(r, "check", "SERVER_ERROR")
    BY <1>3, <2>2, AnswerInv DEF CheckIdempotency
  <2>3. CASE ~KeySeen(r) /\ Goto(r, "check", "account") /\ UNCHANGED response
    BY <1>3, <2>3, GotoInv DEF CheckIdempotency
  <2> QED
    BY <1>3, <2>1, <2>2, <2>3 DEF CheckIdempotency
<1>4. ASSUME NEW r \in Requests, CheckAccount(r)
      PROVE  ApiInv'
  <2>1. ASSUME NEW code \in {"REFUSED", "SERVER_ERROR"}, Answer(r, "account", code)
        PROVE  ApiInv'
    BY <1>4, <2>1, AnswerInv DEF CheckAccount
  <2>2. CASE Goto(r, "account", "create") /\ UNCHANGED response
    BY <1>4, <2>2, GotoInv DEF CheckAccount
  <2> QED
    BY <1>4, <2>1, <2>2 DEF CheckAccount
<1>5. ASSUME NEW r \in Requests, Create(r)
      PROVE  ApiInv'
  <2>1. ASSUME NEW code \in {"REFUSED", "SERVER_ERROR"}, Answer(r, "create", code)
        PROVE  ApiInv'
    BY <1>5, <2>1, AnswerInv DEF Create
  <2>2. CASE Goto(r, "create", "commit") /\ UNCHANGED response
    BY <1>5, <2>2, GotoInv DEF Create
  <2> QED
    BY <1>5, <2>1, <2>2 DEF Create
<1>6. ASSUME NEW r \in Requests, Disconnect(r)
      PROVE  ApiInv'
  <2>1. PICK from \in {"begin", "check", "account"} : Answer(r, from, "SERVER_ERROR")
    BY <1>6 DEF Disconnect
  <2> QED
    BY <1>6, <2>1, AnswerInv DEF Disconnect
<1>7. CASE Quiet \/ UNCHANGED vars
  BY <1>7 DEF Quiet, vars, ApiInv, TypeOK, RowsInOrder, JobsHaveRows,
              ConflictHasTwin, OneAtATime, OneOrderPerKey, KeyBusy
<1> QED
  BY <1>1, <1>2, <1>3, <1>4, <1>5, <1>6, <1>7, CommitInv, PublishInv, ReplicateInv
     DEF Next, Handle

-----------------------------------------------------------------------------
(* The whole system. *)

LEMMA SysInitInv == SysInit => SysInv
<1> SUFFICES ASSUME SysInit
             PROVE  SysInv
  OBVIOUS
<1>1. SysTypeOK /\ WorkersInv
  BY ApiInit DEF SysInit, SysTypeOK, ApiInv, Statuses, WorkersInv
<1> QED
  BY <1>1, ApiInit DEF SysInv, SysInit

\* order-api never takes a job back.
LEMMA TopicGrows == [Next]_vars => topic \subseteq topic'
  BY DEF Next, vars, Handle, Arrive, Begin, CheckIdempotency, CheckAccount, Create,
         Commit, PublishOrder, Disconnect, Replicate, Quiet

\* What an attempt at the job of r leaves of the other jobs and of other keys' rows.
LEMMA AttemptEffect ==
    ASSUME SysInv, NEW r \in Requests, Attempt(r)
    PROVE  /\ r \in topic /\ UNCHANGED vars
           /\ status' \in [Requests -> Statuses]
           /\ paid' \in [Requests -> 0 .. MaxPaid]
           /\ \A q \in Requests \ {r} : paid'[q] = paid[q]
           /\ \A q \in Requests \ SameKey(r) : status'[q] = status[q]
<1>1. PICK s \in Statuses : UpdateStatus(r, s)
  BY DEF Attempt, Retry, Fail, Pay, Mark, Statuses
<1>2. /\ status' \in [Requests -> Statuses]
      /\ \A q \in Requests \ SameKey(r) : status'[q] = status[q]
  BY <1>1 DEF UpdateStatus, SysInv, SysTypeOK
<1>3. CASE Pay(r)
  BY <1>2, <1>3 DEF Pay, SysInv, SysTypeOK
<1>4. CASE Retry(r) \/ Fail(r)
  BY <1>2, <1>4 DEF Retry, Fail, Mark, SysInv, SysTypeOK
<1> QED
  BY <1>3, <1>4 DEF Attempt

LEMMA SysNextInv == SysInv /\ [SysNext]_sysVars => SysInv'
<1> SUFFICES ASSUME SysInv, [SysNext]_sysVars
             PROVE  SysInv'
  OBVIOUS
<1>1. CASE [Next]_vars /\ UNCHANGED workerVars
  <2>1. ApiInv' /\ topic \subseteq topic'
    BY <1>1, ApiNext, TopicGrows DEF SysInv
  <2>2. SysTypeOK' /\ WorkersInv'
    BY <1>1, <2>1 DEF SysInv, SysTypeOK, ApiInv, WorkersInv, workerVars
  <2> QED
    BY <2>1, <2>2 DEF SysInv
<1>2. ASSUME NEW r \in Requests, Attempt(r)
      PROVE  SysInv'
  <2>1. UNCHANGED vars
    BY <1>2, AttemptEffect
  <2>2. ApiInv'
    BY <2>1, ApiNext DEF SysInv
  <2>3. SysTypeOK'
    BY <1>2, <2>2, AttemptEffect DEF SysTypeOK, ApiInv
  <2>4. WorkersInv'
    BY <1>2, <2>1, AttemptEffect DEF SysInv, WorkersInv, vars
  <2> QED
    BY <2>2, <2>3, <2>4 DEF SysInv
<1> QED
  BY <1>1, <1>2 DEF SysNext, sysVars

\* The inductive invariant holds in every reachable state of the system.
THEOREM SysInvariance == SysSpec => []SysInv
  BY SysInitInv, SysNextInv, PTL DEF SysSpec

\* Every variable of order-api and of the workers keeps its type, and a request
\* is answered exactly when its handler returns.
THEOREM SysTypeCorrect == SysSpec => []SysTypeOK
  BY SysInvariance, PTL DEF SysInv

\* Whatever fails and whoever interleaves, no job is produced for an order that
\* is not committed, CREATED means there is a row and a refusal that there is none.
THEOREM JobsHaveRowsHolds == SysSpec => []JobsHaveRows
  BY SysInvariance, PTL DEF SysInv, ApiInv

\* An IDEMPOTENCY_CONFLICT is only answered when an order with the key exists.
THEOREM ConflictHasTwinHolds == SysSpec => []ConflictHasTwin
  BY SysInvariance, PTL DEF SysInv, ApiInv

\* For clients that wait before they repeat a key, CheckIdempotency admits one
\* order per key, even when the commit's answer was lost.
THEOREM OneOrderPerKeyHolds == SysSpec => []OneOrderPerKey
  BY SysInvariance, PTL DEF SysInv, ApiInv

\* However order-api fails and however often jobs are delivered, a client is
\* debited only for requests it was told are CREATED, and a waiting client for
\* at most one of those it sent with one key.
THEOREM DebitsAreAcceptedHolds == SysSpec => []DebitsAreAccepted
<1>1. SysInv => DebitsAreAccepted
  BY DEF SysInv, ApiInv, RowsInOrder, JobsHaveRows, OneOrderPerKey, WorkersInv,
         DebitsAreAccepted, SameKey
<1> QED
  BY <1>1, SysInvariance, PTL

\* Whatever the workers do with jobs of any key, in any order and any number of
\* times, the row of a waiting client changes only with its own job.
THEOREM OwnJobWritesHolds == SysSpec => OwnJobWrites
<1>1. ASSUME SysInv, [SysNext]_sysVars
      PROVE  [\A r \in rows : KeyOf[r] \in Patient /\ status'[r] # status[r]
                => Attempt(r)]_sysVars
  <2>1. CASE UNCHANGED status
    BY <2>1
  <2>2. ASSUME NEW p \in Requests, Attempt(p), NEW q \in rows,
               KeyOf[q] \in Patient, status'[q] # status[q]
        PROVE  Attempt(q)
    <3>1. q \in SameKey(p) /\ p \in rows
      BY <1>1, <2>2, AttemptEffect DEF SysInv, ApiInv, TypeOK, JobsHaveRows
    <3> QED
      BY <1>1, <2>2, <3>1 DEF SameKey, SysInv, ApiInv, OneOrderPerKey
  <2> QED
    BY <1>1, <2>1, <2>2 DEF SysNext, workerVars, sysVars
<1> QED
  BY <1>1, SysInvariance, PTL DEF SysSpec, OwnJobWrites
=============================================================================
