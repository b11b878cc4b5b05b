------------------------------ MODULE UserSeeder ------------------------------
(***************************************************************************)
(* The program that fills the database with users, their accounts and, on  *)
(* request, a training dataset it then exports page by page                *)
(* (services/user-api/cmd/seed/user_account_seeder.go).                    *)
(*                                                                         *)
(* The user user_i is the i-th row of users and is represented by the      *)
(* number of its accounts; the rows of the dataset are numbered.  SELECT   *)
(* ... LIMIT ... OFFSET has no ORDER BY: rows are returned in the order of *)
(* the heap, which is that of insertion, as nobody updates these tables.   *)
(***************************************************************************)
EXTENDS Integers, Sequences, FiniteSetsExt

CONSTANTS NoOfUsers,         \* flag noOfUsers
          MaxAccounts,       \* flag maxAccounts
          MaxDatasetOrders,  \* dataset orders per account, 10 in the code
          ExportPageSize,    \* orderPageSize
          Faults,            \* may statements, queries and files fail?
          ReplicaLags,       \* does the reader lag behind the primary?
          MaxRuns            \* bound: runs of the program

ASSUME UserSeederAssumption ==
    /\ {NoOfUsers, MaxRuns} \subseteq Nat
    /\ {MaxAccounts, MaxDatasetOrders, ExportPageSize} \subseteq Nat \ {0}
    /\ {Faults, ReplicaLags} \subseteq BOOLEAN

VARIABLES
    primary, reader,   \* users (each by its number of accounts) and dataset rows
    tx,                \* the database as the open transaction sees it
    seed,              \* where the program stands
    i,                 \* the user it is creating
    inserted,          \* did the INSERT of user i insert a row?
    exportAiData,      \* the flag
    orderPageNumber, orderList,
    cut,               \* history: a page of the export was cut short
    runs

userVars == <<primary, reader, tx, seed, i, inserted, exportAiData,
              orderPageNumber, orderList, cut, runs>>

Empty == [users |-> <<>>, rows |-> 0]

UserInit ==
    /\ primary = Empty /\ reader = Empty /\ tx = Empty
    /\ seed = "none"
    /\ i = 1 /\ inserted = FALSE
    /\ exportAiData = FALSE
    /\ orderPageNumber = 1 /\ orderList = <<>> /\ cut = FALSE
    /\ runs = 0

\* The process has come to its end, or there is none.
SeedEnded == seed \in {"none", "done", "fatal"}

\* Mutant of Page: page numbers are taken to start at 0.
PageFromZero(n, number, size) == (number * size + 1) .. Min({(number + 1) * size, n})

\* LIMIT size OFFSET (number - 1) * size on n rows.
Page(n, number, size) == ((number - 1) * size + 1) .. Min({number * size, n})

-----------------------------------------------------------------------------

\* main, up to the beginning of the transaction.
StartSeed ==
    /\ seed = "none" /\ runs < MaxRuns
    /\ runs' = runs + 1
    /\ exportAiData' \in BOOLEAN
    /\ seed' = "users" /\ tx' = primary
    /\ UNCHANGED <<primary, reader, i, inserted, orderPageNumber, orderList, cut>>

\* An error, or the end of the process: WithTransaction rolls back, Fatal exits.
Fatal ==
    /\ seed' = "fatal"
    /\ UNCHANGED <<primary, reader, tx, i, inserted, exportAiData,
                   orderPageNumber, orderList, cut, runs>>

\* userRepo.Create: ON CONFLICT DO NOTHING, and user_n is a unique name.
InsertUser(db, n) ==
    IF n > Len(db.users) THEN [db EXCEPT !.users = Append(@, 0)] ELSE db

\* accountRepo.Create for all accounts of user n, and k rows of the dataset.
InsertAccounts(db, n, accounts, k) ==
    [users |-> [db.users EXCEPT ![n] = accounts], rows |-> db.rows + k]

\* Mutant of CreateUser: the user is inserted outside of the transaction.
CreateUserAutocommit ==
    /\ seed = "users" /\ i <= NoOfUsers
    /\ inserted' = (i > Len(tx.users))
    /\ tx' = InsertUser(tx, i)
    /\ primary' = InsertUser(primary, i)
    /\ seed' = "accounts"
    /\ UNCHANGED <<reader, i, exportAiData, orderPageNumber, orderList, cut, runs>>

\* The INSERT succeeds even if it inserts nothing.
CreateUser ==
    /\ seed = "users" /\ i <= NoOfUsers
    /\ inserted' = (i > Len(tx.users))
    /\ tx' = InsertUser(tx, i)
    /\ seed' = "accounts"
    /\ UNCHANGED <<primary, reader, i, exportAiData, orderPageNumber, orderList, cut, runs>>

\* The accounts of user i and, for the export, orders of each.  They refer to
\* the id drawn for the user in this run.
CreateAccounts ==
    /\ seed = "accounts" /\ inserted
    /\ \E n \in 1 .. MaxAccounts : \E k \in n .. n * MaxDatasetOrders :
          tx' = InsertAccounts(tx, i, n, IF exportAiData THEN k ELSE 0)
    /\ i' = i + 1 /\ seed' = "users"
    /\ UNCHANGED <<primary, reader, inserted, exportAiData, orderPageNumber, orderList, cut, runs>>

\* Without the row of this user the accounts violate their foreign key.
ForeignKeyViolation == seed = "accounts" /\ ~inserted /\ Fatal

CommitSeed ==
    /\ seed = "users" /\ i > NoOfUsers
    /\ primary' = tx
    /\ \/ seed' = IF exportAiData THEN "export" ELSE "done"
       \/ Faults /\ seed' = "fatal"         \* the answer is lost
    /\ reader' = IF ReplicaLags THEN reader ELSE tx
    /\ UNCHANGED <<tx, i, inserted, exportAiData, orderPageNumber, orderList, cut, runs>>

\* GetAllAiDataset: an empty page ends the export.  The loop over the rows also
\* ends when the connection breaks, and rows.Err() is not asked.
ExportPage ==
    /\ seed = "export"
    /\ LET page == Page(reader.rows, orderPageNumber, ExportPageSize)
       IN  \E n \in (IF Faults THEN 0 ELSE Cardinality(page)) .. Cardinality(page) :
              /\ orderList' = orderList \o [k \in 1 .. n |-> Min(page) + k - 1]
              /\ cut' = (cut \/ n < Cardinality(page))
              /\ seed' = IF n = 0 THEN "done" ELSE "export"
    /\ orderPageNumber' = orderPageNumber + 1
    /\ UNCHANGED <<primary, reader, tx, i, inserted, exportAiData, runs>>

\* The process is gone, with all it knew.
SeedExit ==
    /\ seed \in {"done", "fatal"}
    /\ seed' = "none"
    /\ tx' = Empty /\ i' = 1 /\ inserted' = FALSE /\ exportAiData' = FALSE
    /\ orderPageNumber' = 1 /\ orderList' = <<>> /\ cut' = FALSE
    /\ UNCHANGED <<primary, reader, runs>>

SeedFault == Faults /\ ~SeedEnded /\ Fatal

Replicate ==
    /\ reader # primary
    /\ reader' = primary
    /\ UNCHANGED <<primary, tx, seed, i, inserted, exportAiData, orderPageNumber, orderList, cut, runs>>

UserStep == CreateUser \/ CreateAccounts \/ ForeignKeyViolation \/ CommitSeed
            \/ ExportPage \/ SeedExit

UserNext == UserStep \/ SeedFault \/ Replicate

-----------------------------------------------------------------------------
(* Properties. *)

\* However often the program is run and wherever it fails, the database holds
\* all users or none, and no user without an account: "performs inserts inside
\* a single transaction".
SeededWhole ==
    \A db \in {primary, reader} :
        /\ Len(db.users) \in {0, NoOfUsers}
        /\ \A u \in DOMAIN db.users : db.users[u] > 0

\* A run that ends well has exported every row of the dataset exactly once, or
\* none when the reader had none yet, unless a page was cut short unnoticed.
ExportWhole ==
    seed = "done" /\ exportAiData /\ ~cut =>
        orderList \in {<<>>, [k \in 1 .. primary.rows |-> k]}
=============================================================================
