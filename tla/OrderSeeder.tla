----------------------------- MODULE OrderSeeder -----------------------------
(***************************************************************************)
(* The load generator of order-api                                         *)
(* (services/order-api/cmd/seed/order_seeder.go): Run pages through users  *)
(* and accounts and enqueues an order at a time on a bounded channel, a    *)
(* pool of workers sends them, a reporter ticks, and a signal cancels the  *)
(* context all of them watch.  The limiter only delays a worker.  The two  *)
(* seeders do not run together (Makefile, target seed).                    *)
(***************************************************************************)
EXTENDS UserSeeder

CONSTANTS Workers,           \* goroutines, flag maxConcurrentRequests
          TotalOrders,       \* flag noOfOrders
          UserPageSize,      \* flag userPageSize
          AccountsPerUser,   \* flag maxAccountPerUser
          OrdersPerAccount,  \* flag noOfOrdersPerAccount
          ChanCap            \* the largest buffer of the channel, 10000 in the code

ASSUME OrderSeederAssumption ==
    /\ {TotalOrders, AccountsPerUser, OrdersPerAccount} \subseteq Nat
    /\ {UserPageSize, ChanCap} \subseteq Nat \ {0}
    /\ IsFiniteSet(Workers)

VARIABLES
    run,          \* where Run stands
    remaining, page,
    next, last,   \* the users of the page that are left
    slots,        \* orders still to be made for the current user
    jobs,         \* number of orders in the channel
    jobsClosed, stopProg,
    worker,       \* what each worker does
    reporter,     \* is the progress reporter running?
    enqueued, sent, ok, fail,
    cancelled,    \* is the context cancelled?
    planned       \* history: orders the users of the first page query allow

producer  == <<run, remaining, page, next, last, slots, planned>>
channels  == <<jobs, jobsClosed, stopProg>>
outcomes  == <<sent, ok, fail>>
orderVars == <<producer, channels, outcomes, enqueued, worker, reporter, cancelled>>
seedVars  == <<userVars, orderVars>>

RunEnded == run \in {"none", "returned", "failed"}

Capacity == Min({TotalOrders, ChanCap})

STypeOK ==
    /\ seed \in {"none", "users", "accounts", "export", "done", "fatal"}
    /\ \A db \in {primary, reader, tx} :
          /\ db.users \in Seq(0 .. MaxAccounts)
          /\ db.rows \in Nat
    /\ i \in 1 .. NoOfUsers + 1 /\ {inserted, exportAiData, cut} \subseteq BOOLEAN
    /\ orderPageNumber \in Nat /\ orderList \in Seq(Nat) /\ runs \in 0 .. MaxRuns
    /\ run \in {"none", "page", "user", "order", "count", "close", "drain",
                "abort", "wait", "abortWait", "returned", "failed"}
    /\ {remaining, enqueued, sent, ok, fail} \subseteq 0 .. TotalOrders
    /\ {page, next, last, slots, planned} \subseteq Nat
    /\ jobs \in 0 .. Capacity
    /\ {jobsClosed, stopProg, reporter, cancelled} \subseteq BOOLEAN
    /\ worker \in [Workers -> {"none", "idle", "throttled", "sending", "gone"}]

SInit ==
    /\ UserInit
    /\ run = "none" /\ remaining = TotalOrders /\ page = 1
    /\ next = 1 /\ last = 0 /\ slots = 0 /\ planned = 0
    /\ jobs = 0 /\ jobsClosed = FALSE /\ stopProg = FALSE
    /\ worker = [w \in Workers |-> "none"] /\ reporter = FALSE
    /\ enqueued = 0 /\ sent = 0 /\ ok = 0 /\ fail = 0
    /\ cancelled = FALSE

\* Orders to be made for a user with n accounts.
OrdersFor(n) == Min({n, AccountsPerUser}) * OrdersPerAccount

\* Orders to be made for the first n users.
OrdersForFirst(users, n) ==
    LET total[k \in 0 .. Len(users)] ==
            IF k = 0 THEN 0 ELSE total[k - 1] + OrdersFor(users[k])
    IN  total[n]

-----------------------------------------------------------------------------
(* Run, the goroutine that enqueues. *)

\* main calls Run, which starts the reporter and the workers.
StartRun ==
    /\ run = "none" /\ seed = "none"
    /\ run' = "page"
    /\ worker' = [w \in Workers |-> "idle"] /\ reporter' = TRUE
    /\ UNCHANGED <<remaining, page, next, last, slots, planned, channels, outcomes, enqueued, cancelled>>

\* The next page of users.  The break out of the select that looks at the
\* context leaves only the select: it is the query that fails then.
FindUsers ==
    /\ run = "page" /\ remaining > 0
    /\ ~cancelled
    /\ LET users == Page(Len(reader.users), page, UserPageSize)
       IN  IF users = {}
           THEN run' = "close" /\ UNCHANGED <<next, last>>
           ELSE run' = "user" /\ next' = Min(users) /\ last' = Max(users)
    /\ planned' = IF page = 1 THEN OrdersForFirst(reader.users, Len(reader.users)) ELSE planned
    /\ UNCHANGED <<remaining, page, slots, channels, outcomes, enqueued, worker, reporter, cancelled>>

GetAccounts ==
    /\ run = "user" /\ next <= last /\ remaining > 0
    /\ ~cancelled
    /\ slots' = OrdersFor(reader.users[next])
    /\ next' = next + 1
    /\ run' = "order"
    /\ UNCHANGED <<remaining, page, last, planned, channels, outcomes, enqueued, worker, reporter, cancelled>>

\* Either query fails: Run gives up without waiting for its workers.
QueryError ==
    /\ \/ run = "page" /\ remaining > 0
       \/ run = "user" /\ next <= last /\ remaining > 0
    /\ cancelled \/ Faults
    /\ run' = "abort"
    /\ UNCHANGED <<remaining, page, next, last, slots, planned, channels, outcomes, enqueued, worker, reporter, cancelled>>

\* Mutant of Enqueue: the inner loop does not look at remaining.
EnqueuePastTotal ==
    /\ run = "order" /\ slots > 0
    /\ jobs < Capacity
    /\ jobs' = jobs + 1
    /\ run' = "count"
    /\ UNCHANGED <<remaining, page, next, last, slots, planned, jobsClosed, stopProg, outcomes, enqueued, worker, reporter, cancelled>>

\* One case of the select: an order with a new idempotency key is sent.
Enqueue ==
    /\ run = "order" /\ slots > 0 /\ remaining > 0
    /\ jobs < Capacity
    /\ jobs' = jobs + 1
    /\ run' = "count"
    /\ UNCHANGED <<remaining, page, next, last, slots, planned, jobsClosed, stopProg, outcomes, enqueued, worker, reporter, cancelled>>

\* After the send: a worker may have sent the order already.
Count ==
    /\ run = "count"
    /\ enqueued' = enqueued + 1 /\ remaining' = remaining - 1
    /\ slots' = slots - 1
    /\ run' = "order"
    /\ UNCHANGED <<page, next, last, planned, channels, outcomes, worker, reporter, cancelled>>

\* Mutant of SkipOrder: the select has no case for the context.
NeverSkip == FALSE /\ UNCHANGED orderVars

\* The other case of the select: its break skips one order, not the loop.
SkipOrder ==
    /\ run = "order" /\ slots > 0 /\ remaining > 0
    /\ cancelled
    /\ slots' = slots - 1
    /\ UNCHANGED <<run, remaining, page, next, last, planned, channels, outcomes, enqueued, worker, reporter, cancelled>>

\* The three loops end: of a user's orders, of a page's users, of the pages.
NextInLoop ==
    /\ \/ /\ run = "order" /\ (slots = 0 \/ remaining = 0)
          /\ run' = "user" /\ UNCHANGED page
       \/ /\ run = "user" /\ (next > last \/ remaining = 0)
          /\ run' = "page" /\ page' = page + 1
       \/ /\ run = "page" /\ remaining = 0
          /\ run' = "close" /\ UNCHANGED page
    /\ UNCHANGED <<remaining, next, last, slots, planned, channels, outcomes, enqueued, worker, reporter, cancelled>>

CloseJobs ==
    /\ run = "close"
    /\ jobsClosed' = TRUE
    /\ run' = "drain"
    /\ UNCHANGED <<remaining, page, next, last, slots, planned, jobs, stopProg, outcomes, enqueued, worker, reporter, cancelled>>

\* Mutant of WaitForWorkers: workersWG is not waited for.
WaitForNobody ==
    /\ run = "drain"
    /\ stopProg' = TRUE
    /\ run' = "wait"
    /\ UNCHANGED <<remaining, page, next, last, slots, planned, jobs, jobsClosed, outcomes, enqueued, worker, reporter, cancelled>>

WaitForWorkers ==
    /\ run = "drain"
    /\ \A w \in Workers : worker[w] = "gone"
    /\ stopProg' = TRUE
    /\ run' = "wait"
    /\ UNCHANGED <<remaining, page, next, last, slots, planned, jobs, jobsClosed, outcomes, enqueued, worker, reporter, cancelled>>

Abort ==
    /\ run = "abort"
    /\ jobsClosed' = TRUE /\ stopProg' = TRUE
    /\ run' = "abortWait"
    /\ UNCHANGED <<remaining, page, next, last, slots, planned, jobs, outcomes, enqueued, worker, reporter, cancelled>>

\* wg.Wait and the return; after an error main exits with the workers running.
ReturnRun ==
    /\ ~reporter
    /\ \/ run = "wait" /\ run' = "returned"
       \/ run = "abortWait" /\ run' = "failed"
    /\ UNCHANGED <<remaining, page, next, last, slots, planned, channels, outcomes, enqueued, worker, reporter, cancelled>>

-----------------------------------------------------------------------------
(* The workers and the reporter; none of them survives main. *)

TakeJob(w) ==
    /\ worker[w] = "idle" /\ jobs > 0
    /\ jobs' = jobs - 1
    /\ worker' = [worker EXCEPT ![w] = "throttled"]
    /\ UNCHANGED <<producer, jobsClosed, stopProg, outcomes, enqueued, reporter, cancelled>>

NoMoreJobs(w) ==
    /\ worker[w] = "idle" /\ jobs = 0 /\ jobsClosed
    /\ worker' = [worker EXCEPT ![w] = "gone"]
    /\ UNCHANGED <<producer, channels, outcomes, enqueued, reporter, cancelled>>

\* limiter.Wait: with a cancelled context the worker returns, job and all.
LimiterWait(w) ==
    /\ worker[w] = "throttled"
    /\ \/ /\ ~cancelled
          /\ worker' = [worker EXCEPT ![w] = "sending"]
          /\ sent' = sent + 1
       \/ /\ cancelled
          /\ worker' = [worker EXCEPT ![w] = "gone"]
          /\ UNCHANGED sent
    /\ UNCHANGED <<producer, channels, ok, fail, enqueued, reporter, cancelled>>

\* sendOrder gets 201, or another answer, an error or a timeout.
SendOrder(w) ==
    /\ worker[w] = "sending"
    /\ \/ ok' = ok + 1 /\ UNCHANGED fail
       \/ fail' = fail + 1 /\ UNCHANGED ok
    /\ worker' = [worker EXCEPT ![w] = "idle"]
    /\ UNCHANGED <<producer, channels, sent, enqueued, reporter, cancelled>>

ReporterStops ==
    /\ reporter /\ (cancelled \/ stopProg)
    /\ reporter' = FALSE
    /\ UNCHANGED <<producer, channels, outcomes, enqueued, worker, cancelled>>

\* SIGINT or SIGTERM.
Signal ==
    /\ ~RunEnded /\ ~cancelled
    /\ cancelled' = TRUE
    /\ UNCHANGED <<producer, channels, outcomes, enqueued, worker, reporter>>

RunStep ==
    \/ FindUsers \/ GetAccounts \/ QueryError
    \/ Enqueue \/ Count \/ SkipOrder \/ NextInLoop
    \/ CloseJobs \/ WaitForWorkers \/ Abort \/ ReturnRun

WorkerStep(w) ==
    ~RunEnded /\ (TakeJob(w) \/ NoMoreJobs(w) \/ LimiterWait(w) \/ SendOrder(w))

SQuiet == SeedEnded /\ RunEnded /\ UNCHANGED seedVars

SNext ==
    \/ UserNext /\ UNCHANGED orderVars
    \/ StartSeed /\ RunEnded /\ UNCHANGED orderVars
    \/ (StartRun \/ RunStep \/ ReporterStops \/ Signal) /\ UNCHANGED userVars
    \/ \E w \in Workers : WorkerStep(w) /\ UNCHANGED userVars
    \/ SQuiet

\* Programs that were started run, goroutines included; queries and requests
\* have timeouts or fail.  Nobody need start a program or send a signal.
SFairness ==
    /\ WF_seedVars(UserStep /\ UNCHANGED orderVars)
    /\ WF_seedVars(RunStep /\ UNCHANGED userVars)
    /\ WF_seedVars(ReporterStops /\ UNCHANGED userVars)
    /\ \A w \in Workers : WF_seedVars(WorkerStep(w) /\ UNCHANGED userVars)

SSpec == SInit /\ [][SNext]_seedVars /\ SFairness

-----------------------------------------------------------------------------
(* Properties. *)

\* A Run that returns nil and was not interrupted has made one order for every
\* slot of the users it found, up to the total asked for: no page is skipped or
\* read twice.
AllSeeded ==
    run = "returned" /\ ~cancelled => enqueued = Min({TotalOrders, planned})

\* Every order such a Run has enqueued is sent and has its outcome: none is left
\* in the channel or in flight when main prints its totals.
AllAnswered ==
    run = "returned" /\ ~cancelled => sent = enqueued /\ ok + fail = enqueued

\* Both programs come to an end from wherever they are: the export sees its
\* last page, and Run returns although a signal may have stopped all workers
\* with the channel full ("Graceful shutdown on SIGINT/SIGTERM").
SeedersEnd ==
    /\ ~SeedEnded ~> SeedEnded
    /\ ~RunEnded ~> RunEnded
=============================================================================
