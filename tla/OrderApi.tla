------------------------------ MODULE OrderApi ------------------------------
(***************************************************************************)
(* order-api: POST /orders.  OrderHandler.CreateOrder and                  *)
(* OrderServiceImpl.CreateOrder run once per request and concurrently; the *)
(* idempotency check and the balance are read from a read replica while    *)
(* the transaction that inserts the order row holds a connection to the    *)
(* primary, and the payment job is produced to Kafka after the commit.     *)
(*                                                                         *)
(* A request carries a client-chosen idempotency key, which the client may *)
(* repeat.  The clients of Patient keys do so only after the answer, and   *)
(* after the reader has caught up.  The rest of a request is left open: it *)
(* may break a binding rule, name no account or the account of another     *)
(* user.                                                                   *)
(***************************************************************************)
EXTENDS Naturals, FiniteSets

CONSTANTS Requests, Keys,
          KeyOf,         \* IdempotencyID of each request
          Patient,       \* keys whose clients wait before they repeat them
          MaxConns,      \* size of the primary's connection pool
          SharedPool,    \* no replica configured: reads use the primary's pool
          ReplicaLags,   \* may the reader be behind the primary?
          Faults,        \* may database commands fail?
          ProduceFails   \* may Produce, or the delivery it promises, fail?

ASSUME RequestAssumption ==
    /\ KeyOf \in [Requests -> Keys]
    /\ Patient \subseteq Keys
    /\ MaxConns \in Nat \ {0}
    /\ {SharedPool, ReplicaLags, Faults, ProduceFails} \subseteq BOOLEAN
    /\ SharedPool => ~ReplicaLags

VARIABLES
    pc,        \* where each request stands
    response,  \* the code it was answered with
    rows,      \* requests whose orders row is committed (no unique constraint)
    seen,      \* those of them visible on the reader
    topic      \* requests whose payment job is on the order topic

vars == <<pc, response, rows, seen, topic>>

Labels == {"new", "begin", "check", "account", "create", "commit", "publish", "done"}
InTx   == {"check", "account", "create", "commit"}

\* What a client may conclude from the answer.  REFUSED are INVALID_INPUT,
\* NOT_FOUND, INSUFFICIENT_FUNDS and SQL_CONFLICT.
Codes  == {"none", "CREATED", "IDEMPOTENCY_CONFLICT", "REFUSED", "SERVER_ERROR"}

\* A request is answered exactly when its handler returns.
TypeOK ==
    /\ pc \in [Requests -> Labels]
    /\ response \in [Requests -> Codes]
    /\ \A r \in Requests : pc[r] = "done" <=> response[r] # "none"
    /\ rows \subseteq Requests
    /\ seen \subseteq rows
    /\ topic \subseteq Requests

Init ==
    /\ pc = [r \in Requests |-> "new"]
    /\ response = [r \in Requests |-> "none"]
    /\ rows = {} /\ seen = {} /\ topic = {}

-----------------------------------------------------------------------------
Goto(r, from, to) == pc[r] = from /\ pc' = [pc EXCEPT ![r] = to]

\* An error ends the request with its code; WithTransaction rolls back.
Answer(r, from, code) ==
    /\ Goto(r, from, "done")
    /\ response' = [response EXCEPT ![r] = code]

\* Another request with the same key is being handled, or its row is on its way.
KeyBusy(r) ==
    \E q \in Requests \ {r} :
        KeyOf[q] = KeyOf[r] /\ (pc[q] \notin {"new", "done"} \/ q \in rows \ seen)

\* Mutant of Arrive: no return after the answer to a body that does not bind.
ArriveUnbound(r) ==
    /\ KeyOf[r] \in Patient => ~KeyBusy(r)
    /\ Goto(r, "new", "begin")
    /\ \/ response' = [response EXCEPT ![r] = "REFUSED"]
       \/ UNCHANGED response
    /\ UNCHANGED <<rows, seen, topic>>

\* The handler parses the header and binds the body.
Arrive(r) ==
    /\ KeyOf[r] \in Patient => ~KeyBusy(r)
    /\ \/ Answer(r, "new", "REFUSED")
       \/ Goto(r, "new", "begin") /\ UNCHANGED response
    /\ UNCHANGED <<rows, seen, topic>>

\* Connections of the primary's pool; Begin and Query wait for a free one.
ConnFree == Cardinality({r \in Requests : pc[r] \in InTx}) < MaxConns

\* Mutant of ReadConnFree: Query is routed to the writer although there are readers.
ReadsFromWriter == ConnFree

\* getReader: a reader has a pool of its own, unless it is the writer.
ReadConnFree == SharedPool => ConnFree

Begin(r) ==
    /\ ConnFree
    /\ \/ Goto(r, "begin", "check") /\ UNCHANGED response
       \/ Faults /\ Answer(r, "begin", "SERVER_ERROR")
    /\ UNCHANGED <<rows, seen, topic>>

KeySeen(r) == \E q \in seen : KeyOf[q] = KeyOf[r]

\* Mutant of CheckIdempotency: no check.
SkipIdempotency(r) ==
    /\ Goto(r, "check", "account")
    /\ UNCHANGED <<response, rows, seen, topic>>

\* Mutant of CheckIdempotency: a failed query counts as "exists".
ErrorIsConflict(r) ==
    /\ \/ /\ KeySeen(r) \/ Faults
          /\ Answer(r, "check", "IDEMPOTENCY_CONFLICT")
       \/ ~KeySeen(r) /\ Goto(r, "check", "account") /\ UNCHANGED response
    /\ UNCHANGED <<rows, seen, topic>>

\* FindByIdempotencyKey asks a reader, outside the transaction.
CheckIdempotency(r) ==
    /\ ReadConnFree
    /\ \/ KeySeen(r) /\ Answer(r, "check", "IDEMPOTENCY_CONFLICT")
       \/ ~KeySeen(r) /\ Goto(r, "check", "account") /\ UNCHANGED response
       \/ Faults /\ Answer(r, "check", "SERVER_ERROR")
    /\ UNCHANGED <<rows, seen, topic>>

\* FindByID, decryption and the comparison with the amount: the account may be
\* unknown, and its balance is the payment worker's to change.
CheckAccount(r) ==
    /\ ReadConnFree
    /\ \/ Answer(r, "account", "REFUSED")
       \/ Goto(r, "account", "create") /\ UNCHANGED response
       \/ Faults /\ Answer(r, "account", "SERVER_ERROR")
    /\ UNCHANGED <<rows, seen, topic>>

\* Mutant of Create: the job is produced inside the transaction.
CreateAndPublish(r) ==
    /\ Goto(r, "create", "commit")
    /\ topic' = topic \cup {r}
    /\ UNCHANGED <<response, rows, seen>>

\* INSERT ... ON CONFLICT DO NOTHING never conflicts, since ids are generated;
\* only the foreign key (account_id, user_id) can refuse the row.
Create(r) ==
    /\ \/ Goto(r, "create", "commit") /\ UNCHANGED response
       \/ Answer(r, "create", "REFUSED")
       \/ Faults /\ Answer(r, "create", "SERVER_ERROR")
    /\ UNCHANGED <<rows, seen, topic>>

\* WithTransaction commits; the error of a commit the server executed looks
\* the same as that of one it did not.
Commit(r) ==
    /\ \/ /\ Goto(r, "commit", "publish")
          /\ rows' = rows \cup {r}
          /\ UNCHANGED response
       \/ /\ Faults
          /\ Answer(r, "commit", "SERVER_ERROR")
          /\ rows' \in {rows, rows \cup {r}}
    /\ seen' = IF ReplicaLags THEN seen ELSE rows'
    /\ UNCHANGED topic

\* PublishOrder after the commit; its error is logged and the order accepted.
PublishOrder(r) ==
    /\ Answer(r, "publish", "CREATED")
    /\ \/ topic' = topic \cup {r}
       \/ ProduceFails /\ UNCHANGED topic
    /\ UNCHANGED <<rows, seen>>

\* The client goes away: the request's context ends a wait for a connection.
Disconnect(r) ==
    /\ Faults
    /\ \E from \in {"begin", "check", "account"} : Answer(r, from, "SERVER_ERROR")
    /\ UNCHANGED <<rows, seen, topic>>

\* The reader catches up.
Replicate ==
    /\ seen # rows
    /\ seen' = rows
    /\ UNCHANGED <<pc, response, rows, topic>>

\* Every request was answered.
Quiet ==
    /\ \A r \in Requests : pc[r] = "done"
    /\ UNCHANGED vars

Handle(r) ==
    \/ Begin(r) \/ CheckIdempotency(r) \/ CheckAccount(r)
    \/ Create(r) \/ Commit(r) \/ PublishOrder(r)

Next ==
    \/ \E r \in Requests : Arrive(r) \/ Handle(r) \/ Disconnect(r)
    \/ Replicate
    \/ Quiet

\* net/http runs the goroutine of every request; clients need not go away.
Fairness == \A r \in Requests : WF_vars(Handle(r))

Spec == Init /\ [][Next]_vars /\ Fairness

-----------------------------------------------------------------------------
(* Properties. *)

\* No payment job is ever produced for an order that is not committed, whatever
\* fails; a client is only told CREATED for an order it can find, and one that
\* is refused has left no order behind.
JobsHaveRows ==
    /\ topic \subseteq rows
    /\ \A r \in Requests :
          /\ response[r] = "CREATED" => r \in rows
          /\ response[r] \in {"REFUSED", "IDEMPOTENCY_CONFLICT"} => r \notin rows

\* The idempotency check makes a repeated key create one order for patient
\* clients, even when the answer of the first commit was lost.
OneOrderPerKey ==
    \A r, q \in rows : KeyOf[r] = KeyOf[q] /\ KeyOf[r] \in Patient => r = q

\* A request that has begun is answered, though each one holds a connection of
\* the pool while it waits for another to read with: with readers of their own
\* the requests never wait for each other in a circle.
RequestsAnswered == \A r \in Requests : pc[r] = "begin" ~> pc[r] = "done"

\* A request refused for its key has a twin whose order exists.
ConflictHasTwin ==
    \A r \in Requests : response[r] = "IDEMPOTENCY_CONFLICT" =>
        \E q \in rows \ {r} : KeyOf[q] = KeyOf[r]
=============================================================================
