-------------------------- MODULE OrderSeederProofs --------------------------
(***************************************************************************)
(* Proofs about both seeders for any number of users, accounts, orders,    *)
(* runs and workers, any page sizes and channel, and whatever faults.      *)
(***************************************************************************)
EXTENDS OrderSeeder, NatInduction, FiniteSetTheorems, SequenceTheorems, TLAPS

Databases == [users : Seq(0 .. MaxAccounts), rows : Nat]

UserTypeOK ==
    /\ seed \in {"none", "users", "accounts", "export", "done", "fatal"}
    /\ primary \in Databases /\ reader \in Databases /\ tx \in Databases
    /\ i \in 1 .. NoOfUsers + 1 /\ (seed = "accounts" => i <= NoOfUsers)
    /\ inserted \in BOOLEAN /\ exportAiData \in BOOLEAN /\ cut \in BOOLEAN
    /\ orderPageNumber \in Nat \ {0} /\ orderList \in Seq(Nat) /\ runs \in 0 .. MaxRuns

\* All users or none, each with an account.
Whole(db) ==
    /\ Len(db.users) \in {0, NoOfUsers}
    /\ \A u \in DOMAIN db.users : db.users[u] > 0

\* The transaction holds the users created so far, or what an earlier run has
\* committed: then its first INSERT inserts nothing and the program fails.
TxInv ==
    /\ Whole(primary) /\ Whole(reader)
    /\ seed = "none" => i = 1
    /\ seed = "users" =>
          /\ Len(tx.users) = i - 1 \/ (i = 1 /\ Len(tx.users) = NoOfUsers)
          /\ \A u \in DOMAIN tx.users : tx.users[u] > 0
    /\ seed = "accounts" /\ inserted =>
          /\ Len(tx.users) = i
          /\ \A u \in 1 .. i - 1 : tx.users[u] > 0

\* What is committed once stays: the reader has it or nothing, and a transaction
\* that inserts a row has found the database empty.
CommitInv ==
    /\ reader \in {Empty, primary}
    /\ primary.users = <<>> => primary = Empty
    /\ seed = "users" => (i = 1 /\ tx = primary) \/ (i > 1 /\ primary = Empty)
    /\ seed = "accounts" /\ inserted => primary = Empty

\* The numbers of the first n rows.
FirstRows(n) == [k \in 1 .. n |-> k]

\* The export has read the pages before orderPageNumber, all of one database.
ExportInv ==
    /\ seed \in {"none", "users", "accounts"} =>
          orderPageNumber = 1 /\ orderList = <<>> /\ ~cut
    /\ seed = "export" /\ ~cut =>
          \/ orderPageNumber = 1 /\ orderList = <<>>
          \/ /\ reader = primary
             /\ \E n \in 0 .. primary.rows :
                   /\ orderList = FirstRows(n)
                   /\ \/ n = (orderPageNumber - 1) * ExportPageSize
                      \/ n = primary.rows /\ n <= (orderPageNumber - 1) * ExportPageSize
    /\ ExportWhole

UserInv == UserTypeOK /\ TxInv /\ CommitInv /\ ExportInv

Doing(what) == {w \in Workers : worker[w] = what}

\* An order is in the channel, and maybe sent, before it is counted.
Uncounted == IF run = "count" THEN 1 ELSE 0

RunTypeOK ==
    /\ run \in {"none", "page", "user", "order", "count", "close", "drain",
                "abort", "wait", "abortWait", "returned", "failed"}
    /\ remaining \in Nat /\ enqueued \in Nat
    /\ sent \in Nat /\ ok \in Nat /\ fail \in Nat
    /\ page \in Nat \ {0} /\ next \in Nat \ {0} /\ last \in Nat /\ slots \in Nat /\ planned \in Nat
    /\ jobs \in 0 .. Capacity
    /\ jobsClosed \in BOOLEAN /\ stopProg \in BOOLEAN
    /\ reporter \in BOOLEAN /\ cancelled \in BOOLEAN
    /\ worker \in [Workers -> {"none", "idle", "throttled", "sending", "gone"}]
    /\ run = "none" => \A w \in Workers : worker[w] = "none"

\* The loops of Run: it reads only users its reader has, and counts no order
\* beyond the total.
LoopInv ==
    /\ last <= Len(reader.users)
    /\ enqueued + remaining = TotalOrders
    /\ run = "count" => remaining > 0 /\ slots > 0

\* Every order sent was enqueued, and has an outcome or a worker waits for it.
\* Without a signal none is lost on the way, and workers leave only when the
\* channel is closed and empty.
CountInv ==
    /\ ok + fail + Cardinality(Doing("sending")) = sent
    /\ sent + jobs + Cardinality(Doing("throttled")) <= enqueued + Uncounted
    /\ ~cancelled => sent + jobs + Cardinality(Doing("throttled")) = enqueued + Uncounted

LeaveInv ==
    /\ jobsClosed => run \in {"drain", "wait", "abortWait", "returned", "failed"}
    /\ ~cancelled => \A w \in Workers : worker[w] = "gone" => jobsClosed /\ jobs = 0
    /\ run \in {"wait", "returned"} => \A w \in Workers : worker[w] = "gone"

\* Orders the first n users allow, and the last user of a page.
Upto(n) == OrdersForFirst(reader.users, n)
PageEnd(number) == Min({number * UserPageSize, Len(reader.users)})

\* Run is between two users of a page that is not empty, or between two pages.
Paging == run \in {"user", "order", "count"} \/ (run = "page" /\ page > 1)

\* Run stands at a user of the page it counts, and has made the orders of all
\* users before, or as many as it was asked for; at the end it has all of them.
Plan ==
    /\ run = "none" \/ (run = "page" /\ ~Paging) => page = 1 /\ enqueued = 0 /\ planned = 0
    /\ Paging =>
          /\ Len(reader.users) > 0 /\ planned = Upto(Len(reader.users))
          /\ next <= last + 1
          /\ last = PageEnd(IF run = "page" THEN page - 1 ELSE page)
    /\ run \in {"order", "count"} => enqueued + slots = Upto(next - 1)
    /\ run = "user" => enqueued = Upto(next - 1) \/ (remaining = 0 /\ enqueued <= planned)
    /\ run = "page" /\ Paging =>
          enqueued = Upto(last) \/ (remaining = 0 /\ enqueued <= planned)
    /\ run \in {"close", "drain", "wait", "returned"} => enqueued = Min({TotalOrders, planned})

\* A signal makes Run skip orders.
PlanInv == ~cancelled => Plan

RunInv == RunTypeOK /\ LoopInv /\ PlanInv /\ CountInv /\ LeaveInv

-----------------------------------------------------------------------------
(* Constants, pages and sequences. *)

LEMMA Constants ==
    /\ NoOfUsers \in Nat /\ MaxRuns \in Nat
    /\ MaxAccounts \in Nat \ {0} /\ MaxDatasetOrders \in Nat \ {0}
    /\ ExportPageSize \in Nat \ {0} /\ UserPageSize \in Nat \ {0}
    /\ TotalOrders \in Nat /\ ChanCap \in Nat \ {0}
    /\ AccountsPerUser \in Nat /\ OrdersPerAccount \in Nat
    /\ IsFiniteSet(Workers)
  BY UserSeederAssumption, OrderSeederAssumption

LEMMA MinOfTwo ==
    ASSUME NEW a \in Int, NEW b \in Int
    PROVE  Min({a, b}) = IF a <= b THEN a ELSE b
<1>1. \E x \in {a, b} : \A y \in {a, b} : x <= y
  OBVIOUS
<1>2. Min({a, b}) \in {a, b} /\ \A y \in {a, b} : Min({a, b}) <= y
  BY <1>1 DEF Min
<1> QED
  BY <1>2

LEMMA Ends ==
    ASSUME NEW a \in Int, NEW b \in Int, a <= b
    PROVE  Min(a .. b) = a /\ Max(a .. b) = b
<1>1. a \in a .. b /\ \A y \in a .. b : a <= y
  OBVIOUS
<1>2. Min(a .. b) \in a .. b /\ \A y \in a .. b : Min(a .. b) <= y
  BY <1>1 DEF Min
<1>3. b \in a .. b /\ \A y \in a .. b : b >= y
  OBVIOUS
<1>4. Max(a .. b) \in a .. b /\ \A y \in a .. b : Max(a .. b) >= y
  BY <1>3 DEF Max
<1> QED
  BY <1>1, <1>2, <1>3, <1>4

\* A page holds the rows after those of the pages before it.
LEMMA PageFacts ==
    ASSUME NEW n \in Nat, NEW number \in Nat \ {0}, NEW size \in Nat \ {0}
    PROVE  LET a == (number - 1) * size
               b == IF a + size <= n THEN a + size ELSE n
               p == Page(n, number, size)
           IN  /\ a \in Nat /\ b \in Nat
               /\ number * size = a + size
               /\ p = a + 1 .. b
               /\ Cardinality(p) = IF b > a THEN b - a ELSE 0
               /\ b > a => Min(p) = a + 1 /\ Max(p) = b
<1> DEFINE a == (number - 1) * size
           b == IF a + size <= n THEN a + size ELSE n
<1>1. a \in Nat /\ b \in Nat /\ number * size = a + size
  OBVIOUS
<1> HIDE DEF a
<1>2. Min({a + size, n}) = b
  BY <1>1, MinOfTwo
<1>3. Page(n, number, size) = a + 1 .. b
  BY <1>1, <1>2 DEF Page, a
<1> HIDE DEF b
<1>4. Cardinality(a + 1 .. b) = IF b > a THEN b - a ELSE 0
  BY <1>1, FS_Interval
<1>5. b > a => Min(a + 1 .. b) = a + 1 /\ Max(a + 1 .. b) = b
  BY <1>1, Ends
<1> QED
  BY <1>1, <1>3, <1>4, <1>5 DEF a, b

LEMMA InsertUserFacts ==
    ASSUME NEW db \in Databases, NEW n \in Nat, n > Len(db.users)
    PROVE  /\ InsertUser(db, n) \in Databases
           /\ Len(InsertUser(db, n).users) = Len(db.users) + 1
           /\ \A u \in 1 .. Len(db.users) : InsertUser(db, n).users[u] = db.users[u]
<1>1. /\ db.users \in Seq(0 .. MaxAccounts) /\ 0 \in 0 .. MaxAccounts
      /\ InsertUser(db, n) = [db EXCEPT !.users = Append(@, 0)]
  BY Constants DEF Databases, InsertUser
<1>2. InsertUser(db, n) \in Databases /\ InsertUser(db, n).users = Append(db.users, 0)
  <2> DEFINE new == Append(db.users, 0)
  <2>1. new \in Seq(0 .. MaxAccounts)
    BY <1>1, AppendProperties
  <2>2. InsertUser(db, n) = [db EXCEPT !.users = new]
    BY <1>1
  <2> HIDE DEF new
  <2>3. InsertUser(db, n) \in Databases /\ InsertUser(db, n).users = new
    BY <2>1, <2>2 DEF Databases
  <2> QED
    BY <2>3 DEF new
<1> QED
  BY <1>1, <1>2, AppendProperties

LEMMA InsertAccountsFacts ==
    ASSUME NEW db \in Databases, NEW n \in 1 .. Len(db.users),
           NEW m \in 1 .. MaxAccounts, NEW k \in Nat
    PROVE  LET new == InsertAccounts(db, n, m, k)
           IN  /\ new \in Databases
               /\ Len(new.users) = Len(db.users)
               /\ new.users[n] = m
               /\ \A u \in 1 .. Len(db.users) : u # n => new.users[u] = db.users[u]
<1>1. db.users \in Seq(0 .. MaxAccounts) /\ db.rows \in Nat /\ m \in 0 .. MaxAccounts
  BY Constants DEF Databases
<1>2. DOMAIN db.users = 1 .. Len(db.users)
  BY <1>1
<1>3. /\ [db.users EXCEPT ![n] = m] \in Seq(0 .. MaxAccounts)
      /\ Len([db.users EXCEPT ![n] = m]) = Len(db.users)
      /\ [db.users EXCEPT ![n] = m][n] = m
      /\ \A u \in 1 .. Len(db.users) : u # n => [db.users EXCEPT ![n] = m][u] = db.users[u]
  <2> DEFINE old == db.users
             new == [old EXCEPT ![n] = m]
  <2>1. /\ new \in Seq(0 .. MaxAccounts) /\ Len(new) = Len(old)
        /\ \A u \in 1 .. Len(old) : new[u] = IF u = n THEN m ELSE old[u]
    BY <1>1, ExceptSeq
  <2> QED
    BY <2>1
<1> QED
  BY <1>1, <1>3 DEF Databases, InsertAccounts

LEMMA EmptyType == Empty \in Databases /\ Empty.users = <<>> /\ Empty.rows = 0
  BY DEF Empty, Databases

\* An empty page adds nothing.
LEMMA NoRows ==
    ASSUME NEW l \in Seq(Nat), NEW first
    PROVE  l \o [k \in 1 .. 0 |-> first + k - 1] = l
<1>1. [k \in 1 .. 0 |-> first + k - 1] = <<>>
  OBVIOUS
<1> QED
  BY <1>1, ConcatEmptySeq

LEMMA RowsType ==
    ASSUME NEW l \in Seq(Nat), NEW first \in Nat, NEW n \in Nat
    PROVE  l \o [k \in 1 .. n |-> first + k - 1] \in Seq(Nat)
<1>1. [k \in 1 .. n |-> first + k - 1] \in Seq(Nat)
  <2>1. \A k \in 1 .. n : first + k - 1 \in Nat
    OBVIOUS
  <2> QED
    BY <2>1
<1> QED
  BY <1>1, ConcatProperties

LEMMA RowsFollow ==
    ASSUME NEW m \in Nat, NEW n \in Nat
    PROVE  FirstRows(m) \o [k \in 1 .. n |-> m + 1 + k - 1] = FirstRows(m + n)
<1> DEFINE t == [k \in 1 .. n |-> m + 1 + k - 1]
<1>1. /\ FirstRows(m) \in Seq(Nat) /\ Len(FirstRows(m)) = m
      /\ \A k \in 1 .. m : FirstRows(m)[k] = k
  BY DEF FirstRows
<1>2. FirstRows(m + n) \in Seq(Nat) /\ Len(FirstRows(m + n)) = m + n
      /\ \A k \in 1 .. m + n : FirstRows(m + n)[k] = k
  BY DEF FirstRows
<1>3. t \in Seq(Nat) /\ Len(t) = n /\ \A k \in 1 .. n : t[k] = m + k
  <2>1. \A k \in 1 .. n : m + 1 + k - 1 = m + k /\ m + k \in Nat
    OBVIOUS
  <2>2. t = [k \in 1 .. n |-> m + k]
    BY <2>1
  <2> QED
    BY <2>1, <2>2
<1> HIDE DEF t
<1>4. /\ FirstRows(m) \o t \in Seq(Nat) /\ Len(FirstRows(m) \o t) = m + n
      /\ \A k \in 1 .. m + n : (FirstRows(m) \o t)[k] = IF k <= m THEN FirstRows(m)[k] ELSE t[k - m]
  <2>1. /\ FirstRows(m) \o t \in Seq(Nat)
        /\ Len(FirstRows(m) \o t) = Len(FirstRows(m)) + Len(t)
        /\ \A k \in 1 .. Len(FirstRows(m)) + Len(t) :
              (FirstRows(m) \o t)[k] =
                 IF k <= Len(FirstRows(m)) THEN FirstRows(m)[k] ELSE t[k - Len(FirstRows(m))]
    BY <1>1, <1>3, ConcatProperties
  <2> QED
    BY <1>1, <1>3, <2>1
<1>5. ASSUME NEW k \in 1 .. m + n
      PROVE  (FirstRows(m) \o t)[k] = FirstRows(m + n)[k]
  <2>1. CASE k <= m
    BY <1>1, <1>2, <1>4, <2>1
  <2>2. CASE ~(k <= m)
    <3>1. k - m \in 1 .. n /\ m + (k - m) = k
      BY <2>2
    <3> QED
      BY <1>2, <1>3, <1>4, <2>2, <3>1
  <2> QED
    BY <2>1, <2>2
<1>6. FirstRows(m) \o t = FirstRows(m + n)
  BY <1>2, <1>4, <1>5, SeqEqual
<1> QED
  BY <1>6 DEF t

-----------------------------------------------------------------------------
(* The seeder of users: types and the transaction. *)

LEMMA UserTypeInit == UserInit => UserTypeOK
<1>1. <<>> \in Seq(Nat) /\ 1 \in Nat \ {0} /\ 1 \in 1 .. NoOfUsers + 1 /\ 0 \in 0 .. MaxRuns
  BY Constants
<1> QED
  BY <1>1, EmptyType, Zenon DEF UserInit, UserTypeOK

LEMMA UserTypeNext ==
    ASSUME UserTypeOK, TxInv, UserNext \/ StartSeed
    PROVE  UserTypeOK'
<1>1. CASE StartSeed
  BY <1>1, Constants DEF StartSeed, UserTypeOK
<1>2. CASE CreateUser
  <2>1. tx' \in Databases
    <3>1. CASE i > Len(tx.users)
      BY <1>2, <3>1, InsertUserFacts, Constants DEF CreateUser, UserTypeOK
    <3>2. CASE ~(i > Len(tx.users))
      BY <1>2, <3>2 DEF CreateUser, InsertUser, UserTypeOK
    <3> QED
      BY <3>1, <3>2
  <2>2. inserted' \in BOOLEAN
    BY <1>2 DEF CreateUser
  <2> QED
    BY <1>2, <2>1, <2>2, Constants DEF CreateUser, UserTypeOK
<1>3. CASE CreateAccounts
  <2>1. i \in 1 .. Len(tx.users) /\ i <= NoOfUsers
    BY <1>3 DEF CreateAccounts, UserTypeOK, TxInv
  <2>2. PICK n \in 1 .. MaxAccounts : \E k \in n .. n * MaxDatasetOrders :
              tx' = InsertAccounts(tx, i, n, IF exportAiData THEN k ELSE 0)
    BY <1>3 DEF CreateAccounts
  <2>3. PICK k \in n .. n * MaxDatasetOrders :
              tx' = InsertAccounts(tx, i, n, IF exportAiData THEN k ELSE 0)
    BY <2>2
  <2>4. (IF exportAiData THEN k ELSE 0) \in Nat
    BY Constants
  <2>5. tx' \in Databases
    BY <2>1, <2>3, <2>4, InsertAccountsFacts DEF UserTypeOK
  <2> QED
    BY <1>3, <2>1, <2>5, Constants DEF CreateAccounts, UserTypeOK
<1>4. CASE ExportPage
  <2> DEFINE p == Page(reader.rows, orderPageNumber, ExportPageSize)
  <2>1. reader.rows \in Nat
    BY DEF UserTypeOK, Databases
  <2>2. Cardinality(p) \in Nat /\ (Cardinality(p) > 0 => Min(p) \in Nat)
    <3> DEFINE a == (orderPageNumber - 1) * ExportPageSize
               b == IF a + ExportPageSize <= reader.rows THEN a + ExportPageSize ELSE reader.rows
    <3>1. /\ a \in Nat /\ b \in Nat
          /\ Cardinality(p) = IF b > a THEN b - a ELSE 0
          /\ b > a => Min(p) = a + 1
      BY <2>1, PageFacts, Constants DEF UserTypeOK
    <3> HIDE DEF a, b, p
    <3> QED
      BY <3>1
  <2>3. PICK n \in (IF Faults THEN 0 ELSE Cardinality(p)) .. Cardinality(p) :
              /\ orderList' = orderList \o [k \in 1 .. n |-> Min(p) + k - 1]
              /\ cut' = (cut \/ n < Cardinality(p))
              /\ seed' = IF n = 0 THEN "done" ELSE "export"
    BY <1>4 DEF ExportPage
  <2> HIDE DEF p
  <2>4. n \in Nat /\ n <= Cardinality(p)
    BY <2>2
  <2>5. orderList' \in Seq(Nat)
    <3>1. CASE n = 0
      BY <2>3, <3>1, NoRows DEF UserTypeOK
    <3>2. CASE n > 0
      BY <2>2, <2>3, <2>4, <3>2, RowsType DEF UserTypeOK
    <3> QED
      BY <2>4, <3>1, <3>2
  <2>6. cut' \in BOOLEAN
    BY <2>3
  <2> QED
    BY <1>4, <2>3, <2>5, <2>6 DEF ExportPage, UserTypeOK
<1>5. CASE CommitSeed
  BY <1>5 DEF CommitSeed, UserTypeOK
<1>6. CASE SeedExit
  <2>1. <<>> \in Seq(Nat) /\ 1 \in Nat \ {0} /\ 1 \in 1 .. NoOfUsers + 1
    BY Constants
  <2> QED
    BY <1>6, <2>1, EmptyType, Zenon DEF SeedExit, UserTypeOK
<1>7. CASE Replicate
  BY <1>7 DEF Replicate, UserTypeOK
<1>8. CASE ForeignKeyViolation \/ SeedFault
  BY <1>8 DEF ForeignKeyViolation, SeedFault, Fatal, UserTypeOK
<1> QED
  BY <1>1, <1>2, <1>3, <1>4, <1>5, <1>6, <1>7, <1>8 DEF UserNext, UserStep

LEMMA TxInit == UserInit => TxInv
  BY Constants DEF UserInit, TxInv, Whole, Empty

LEMMA TxNext ==
    ASSUME UserTypeOK, TxInv, UserNext \/ StartSeed
    PROVE  TxInv'
<1>0. /\ tx.users \in Seq(0 .. MaxAccounts) /\ Len(tx.users) \in Nat
      /\ DOMAIN tx.users = 1 .. Len(tx.users)
  BY DEF UserTypeOK, Databases
<1>1. CASE StartSeed
  BY <1>1, <1>0, Constants DEF StartSeed, TxInv, Whole, UserTypeOK
<1>2. CASE CreateUser
  <2>1. UNCHANGED <<primary, reader, i>> /\ seed' = "accounts"
    BY <1>2 DEF CreateUser
  <2>2. ASSUME inserted'
        PROVE  Len(tx'.users) = i /\ \A u \in 1 .. i - 1 : tx'.users[u] > 0
    <3>1. i > Len(tx.users) /\ tx' = InsertUser(tx, i) /\ seed = "users" /\ i <= NoOfUsers
      BY <1>2, <2>2 DEF CreateUser
    <3>2. Len(tx.users) = i - 1
      BY <1>0, <3>1, Constants DEF TxInv, UserTypeOK
    <3>3. /\ Len(tx'.users) = Len(tx.users) + 1
          /\ \A u \in 1 .. Len(tx.users) : tx'.users[u] = tx.users[u]
      BY <3>1, InsertUserFacts, Constants DEF UserTypeOK
    <3>4. \A u \in 1 .. Len(tx.users) : tx.users[u] > 0
      BY <1>0, <3>1 DEF TxInv
    <3>5. i \in Nat
      BY DEF UserTypeOK
    <3>6. Len(tx'.users) = i
      <4>1. \A m \in Nat : m = i - 1 => m + 1 = i
        BY <3>5
      <4> QED
        BY <1>0, <3>2, <3>3, <4>1
    <3>7. 1 .. i - 1 = 1 .. Len(tx.users)
      BY <3>2
    <3> QED
      BY <3>3, <3>4, <3>6, <3>7
  <2> QED
    BY <2>1, <2>2 DEF TxInv, Whole
<1>3. CASE CreateAccounts
  <2>1. i \in 1 .. Len(tx.users) /\ Len(tx.users) = i
    BY <1>3 DEF CreateAccounts, UserTypeOK, TxInv
  <2>2. PICK n \in 1 .. MaxAccounts : \E k \in n .. n * MaxDatasetOrders :
              tx' = InsertAccounts(tx, i, n, IF exportAiData THEN k ELSE 0)
    BY <1>3 DEF CreateAccounts
  <2>3. PICK k \in n .. n * MaxDatasetOrders :
              tx' = InsertAccounts(tx, i, n, IF exportAiData THEN k ELSE 0)
    BY <2>2
  <2>4. (IF exportAiData THEN k ELSE 0) \in Nat
    BY Constants
  <2>5. /\ tx' \in Databases /\ Len(tx'.users) = Len(tx.users)
        /\ tx'.users[i] = n
        /\ \A u \in 1 .. Len(tx.users) : u # i => tx'.users[u] = tx.users[u]
    BY <2>1, <2>3, <2>4, InsertAccountsFacts DEF UserTypeOK
  <2>6. DOMAIN tx'.users = 1 .. Len(tx'.users)
    BY <2>5 DEF Databases
  <2>7. \A u \in 1 .. i - 1 : tx.users[u] > 0
    BY <1>3 DEF CreateAccounts, TxInv
  <2>8. \A u \in DOMAIN tx'.users : tx'.users[u] > 0
    BY <2>1, <2>5, <2>6, <2>7
  <2>9. UNCHANGED <<primary, reader>> /\ i' = i + 1 /\ seed' = "users"
    BY <1>3 DEF CreateAccounts
  <2> QED
    BY <2>1, <2>5, <2>8, <2>9 DEF TxInv, Whole, UserTypeOK
<1>4. CASE CommitSeed
  <2>1. Whole(tx)
    BY <1>0, <1>4, Constants DEF CommitSeed, TxInv, Whole, UserTypeOK
  <2> QED
    BY <1>4, <2>1 DEF CommitSeed, TxInv, Whole
<1>5. CASE ExportPage
  BY <1>5 DEF ExportPage, TxInv, Whole
<1>6. CASE SeedExit
  BY <1>6 DEF SeedExit, TxInv, Whole
<1>7. CASE Replicate
  BY <1>7 DEF Replicate, TxInv, Whole
<1>8. CASE ForeignKeyViolation \/ SeedFault
  BY <1>8 DEF ForeignKeyViolation, SeedFault, Fatal, TxInv, Whole
<1> QED
  BY <1>1, <1>2, <1>3, <1>4, <1>5, <1>6, <1>7, <1>8 DEF UserNext, UserStep

-----------------------------------------------------------------------------
(* The seeder of users: what is committed, and the export. *)

LEMMA CommitInit == UserInit => CommitInv
  BY EmptyType DEF UserInit, CommitInv

LEMMA CommitNext ==
    ASSUME UserTypeOK, TxInv, CommitInv, UserNext \/ StartSeed
    PROVE  CommitInv'
<1>0. /\ tx.users \in Seq(0 .. MaxAccounts) /\ Len(tx.users) \in Nat
      /\ (Len(tx.users) = 0 => tx.users = <<>>) /\ i \in Nat /\ i >= 1
  BY EmptySeq DEF UserTypeOK, Databases
<1>1. CASE StartSeed
  BY <1>1 DEF StartSeed, CommitInv, TxInv
<1>2. CASE CreateUser
  <2>1. ASSUME inserted'
        PROVE  primary = Empty
    <3>1. i > Len(tx.users) /\ seed = "users"
      BY <1>2, <2>1 DEF CreateUser
    <3>2. i = 1 /\ tx = primary => tx.users = <<>>
      BY <1>0, <3>1
    <3> QED
      BY <3>1, <3>2 DEF CommitInv
  <2>2. UNCHANGED <<primary, reader>> /\ seed' = "accounts"
    BY <1>2 DEF CreateUser
  <2> QED
    BY <2>1, <2>2 DEF CommitInv
<1>3. CASE CreateAccounts
  <2>1. primary = Empty /\ i' = i + 1 /\ seed' = "users" /\ UNCHANGED <<primary, reader>>
    BY <1>3 DEF CreateAccounts, CommitInv
  <2>2. i' > 1
    BY <1>0, <2>1
  <2> QED
    BY <2>1, <2>2 DEF CommitInv
<1>4. CASE CommitSeed
  <2>1. /\ primary' = tx /\ reader' \in {reader, tx} /\ seed = "users" /\ i > NoOfUsers
        /\ seed' \in {"export", "done", "fatal"}
    BY <1>4 DEF CommitSeed
  <2>2. CASE i = 1 /\ tx = primary
    BY <2>1, <2>2 DEF CommitInv
  <2>3. CASE i > 1 /\ primary = Empty
    <3>1. reader = Empty
      BY <2>3 DEF CommitInv
    <3>2. Len(tx.users) = i - 1
      BY <1>0, <2>1, <2>3 DEF TxInv
    <3>3. tx.users # <<>>
      BY <1>0, <2>3, <3>2, EmptySeq
    <3> QED
      BY <2>1, <3>1, <3>3 DEF CommitInv
  <2> QED
    BY <2>1, <2>2, <2>3 DEF CommitInv
<1>5. CASE ExportPage
  BY <1>5 DEF ExportPage, CommitInv
<1>6. CASE SeedExit
  BY <1>6 DEF SeedExit, CommitInv
<1>7. CASE Replicate
  BY <1>7 DEF Replicate, CommitInv
<1>8. CASE ForeignKeyViolation \/ SeedFault
  BY <1>8 DEF ForeignKeyViolation, SeedFault, Fatal, CommitInv
<1> QED
  BY <1>1, <1>2, <1>3, <1>4, <1>5, <1>6, <1>7, <1>8 DEF UserNext, UserStep

LEMMA ExportInit == UserInit => ExportInv
  BY DEF UserInit, ExportInv, ExportWhole

\* A page that is not cut short continues the export, or ends it after the last
\* row.  An empty reader is seen on the first page or never.
LEMMA ExportPageInv ==
    ASSUME UserTypeOK, CommitInv, ExportInv, ExportPage
    PROVE  ExportInv'
<1> DEFINE size == ExportPageSize
           p == Page(reader.rows, orderPageNumber, size)
           a == (orderPageNumber - 1) * size
           b == IF a + size <= reader.rows THEN a + size ELSE reader.rows
<1>1. /\ orderPageNumber \in Nat \ {0} /\ size \in Nat \ {0}
      /\ reader.rows \in Nat /\ primary.rows \in Nat /\ orderList \in Seq(Nat)
      /\ cut \in BOOLEAN
  BY Constants DEF UserTypeOK, Databases
<1>2. /\ a \in Nat /\ b \in Nat
      /\ orderPageNumber * size = a + size
      /\ Cardinality(p) = IF b > a THEN b - a ELSE 0
      /\ b > a => Min(p) = a + 1
  BY <1>1, PageFacts
<1>3. PICK n \in (IF Faults THEN 0 ELSE Cardinality(p)) .. Cardinality(p) :
            /\ orderList' = orderList \o [k \in 1 .. n |-> Min(p) + k - 1]
            /\ cut' = (cut \/ n < Cardinality(p))
            /\ seed' = IF n = 0 THEN "done" ELSE "export"
  BY DEF ExportPage
<1>4. /\ seed = "export" /\ orderPageNumber' = orderPageNumber + 1
      /\ UNCHANGED <<primary, reader, exportAiData>>
  BY DEF ExportPage
<1>5. (orderPageNumber' - 1) * size = a + size /\ orderPageNumber' \in Nat
  BY <1>1, <1>2, <1>4
<1> HIDE DEF size, p, a
<1>6. n \in Nat
  BY <1>2
<1>7. CASE cut'
  BY <1>3, <1>7 DEF ExportInv, ExportWhole
<1>8. CASE ~cut'
  <2>1. ~cut /\ ~(n < Cardinality(p))
    BY <1>3, <1>8
  <2>2. n = Cardinality(p)
    BY <1>2, <1>6, <2>1
  <2>3. CASE reader = primary
    <3>1. PICK m \in 0 .. primary.rows :
                /\ orderList = FirstRows(m)
                /\ m = a \/ (m = primary.rows /\ m <= a)
      <4>1. CASE orderPageNumber = 1 /\ orderList = <<>>
        <5>1. a = 0
          BY <1>1, <4>1 DEF a
        <5>2. orderList = FirstRows(0)
          BY <4>1 DEF FirstRows
        <5> QED
          BY <1>1, <5>1, <5>2
      <4>2. CASE ~(orderPageNumber = 1 /\ orderList = <<>>)
        BY <1>4, <2>1, <4>2 DEF ExportInv, a, size
      <4> QED
        BY <4>1, <4>2
    <3>2. m \in Nat /\ m <= primary.rows
      BY <1>1
    <3>3. CASE b > a
      <4>1. m = a /\ n = b - a /\ Min(p) = m + 1 /\ b = m + n
        BY <1>1, <1>2, <2>2, <2>3, <3>1, <3>2, <3>3
      <4>2. orderList' = FirstRows(m + n)
        BY <1>3, <1>6, <3>1, <3>2, <4>1, RowsFollow
      <4>3. b \in 0 .. primary.rows /\ (b = a + size \/ (b = primary.rows /\ b <= a + size))
        BY <1>1, <1>2, <2>3
      <4>4. seed' = "export" /\ n # 0
        BY <1>2, <1>3, <3>3, <4>1
      <4> HIDE DEF b
      <4>5. \E l \in 0 .. primary'.rows :
               /\ orderList' = FirstRows(l)
               /\ \/ l = (orderPageNumber' - 1) * ExportPageSize
                  \/ l = primary'.rows /\ l <= (orderPageNumber' - 1) * ExportPageSize
        BY <1>4, <1>5, <4>1, <4>2, <4>3 DEF size
      <4> QED
        BY <1>4, <2>3, <4>4, <4>5 DEF ExportInv, ExportWhole
    <3>4. CASE ~(b > a)
      <4>1. n = 0 /\ m = primary.rows
        BY <1>1, <1>2, <2>2, <2>3, <3>1, <3>2, <3>4
      <4>2. orderList' = orderList
        BY <1>1, <1>3, <4>1, NoRows
      <4> QED
        BY <1>3, <1>4, <3>1, <4>1, <4>2 DEF ExportInv, ExportWhole, FirstRows
    <3> QED
      BY <3>3, <3>4
  <2>4. CASE reader # primary
    <3>1. reader.rows = 0 /\ orderPageNumber = 1 /\ orderList = <<>>
      BY <1>4, <2>1, <2>4, EmptyType DEF CommitInv, ExportInv
    <3>2. n = 0
      BY <1>1, <1>2, <2>2, <3>1
    <3>3. orderList' = <<>>
      BY <1>1, <1>3, <3>1, <3>2, NoRows
    <3> QED
      BY <1>3, <3>2, <3>3 DEF ExportInv, ExportWhole
  <2> QED
    BY <2>3, <2>4
<1> QED
  BY <1>7, <1>8

LEMMA ExportNext ==
    ASSUME UserTypeOK, CommitInv, ExportInv, UserNext \/ StartSeed
    PROVE  ExportInv'
<1>1. CASE StartSeed \/ CreateUser \/ CreateAccounts
  BY <1>1 DEF StartSeed, CreateUser, CreateAccounts, ExportInv, ExportWhole
<1>2. CASE CommitSeed
  BY <1>2 DEF CommitSeed, ExportInv, ExportWhole
<1>3. CASE SeedExit
  BY <1>3 DEF SeedExit, ExportInv, ExportWhole
<1>4. CASE Replicate
  BY <1>4 DEF Replicate, ExportInv, ExportWhole
<1>5. CASE ForeignKeyViolation \/ SeedFault
  BY <1>5 DEF ForeignKeyViolation, SeedFault, Fatal, ExportInv, ExportWhole
<1> QED
  BY <1>1, <1>2, <1>3, <1>4, <1>5, ExportPageInv DEF UserNext, UserStep

LEMMA UserInvInit == SInit => UserInv
  BY UserTypeInit, TxInit, CommitInit, ExportInit DEF SInit, UserInv

LEMMA UserInvNext == UserInv /\ [SNext]_seedVars => UserInv'
<1> SUFFICES ASSUME UserInv, [SNext]_seedVars
             PROVE  UserInv'
  OBVIOUS
<1>1. CASE UserNext \/ StartSeed
  BY <1>1, UserTypeNext, TxNext, CommitNext, ExportNext DEF UserInv
<1>2. CASE UNCHANGED userVars
  BY <1>2 DEF userVars, UserInv, UserTypeOK, TxInv, Whole, CommitInv, ExportInv, ExportWhole
<1>3. UserNext \/ StartSeed \/ UNCHANGED userVars
  BY DEF SNext, SQuiet, seedVars
<1> QED
  BY <1>1, <1>2, <1>3

\* However often the seeder of users runs, and wherever it fails, the database
\* and its replica hold all users or none, and no user without an account.
THEOREM SeededWholeHolds == SSpec => []SeededWhole
<1>1. UserInv => SeededWhole
  BY DEF UserInv, TxInv, Whole, SeededWhole
<1> QED
  BY <1>1, UserInvInit, UserInvNext, PTL DEF SSpec

\* For every page size and number of rows, an export that ends well and of which
\* no page was cut short has each row of the dataset exactly once and in order,
\* or it found the reader still empty.
THEOREM ExportWholeHolds == SSpec => []ExportWhole
<1>1. UserInv => ExportWhole
  BY DEF UserInv, ExportInv
<1> QED
  BY <1>1, UserInvInit, UserInvNext, PTL DEF SSpec

-----------------------------------------------------------------------------
(* The seeder of orders. *)

\* Users are never taken away from the reader.
LEMMA ReaderGrows ==
    ASSUME UserInv, UserNext \/ StartSeed
    PROVE  Len(reader'.users) >= Len(reader.users)
<1>1. Len(reader.users) \in Nat /\ Len(primary.users) \in Nat /\ Len(tx.users) \in Nat
  BY DEF UserInv, UserTypeOK, Databases
<1>2. Len(Empty.users) = 0
  BY EmptyType
<1>3. CASE UNCHANGED reader
  BY <1>1, <1>3
<1>4. CASE Replicate
  BY <1>1, <1>2, <1>4 DEF Replicate, UserInv, CommitInv
<1>5. CASE CommitSeed
  <2>1. reader' \in {reader, tx} /\ seed = "users"
    BY <1>5 DEF CommitSeed
  <2>2. tx = primary \/ primary = Empty
    BY <2>1 DEF UserInv, CommitInv
  <2> QED
    BY <1>1, <1>2, <2>1, <2>2 DEF UserInv, CommitInv
<1> QED
  BY <1>3, <1>4, <1>5 DEF UserNext, UserStep, StartSeed, CreateUser, CreateAccounts,
     ForeignKeyViolation, SeedFault, Fatal, ExportPage, SeedExit

LEMMA CapacityType == Capacity \in Nat
  BY Constants, MinOfTwo DEF Capacity

LEMMA OrdersForType ==
    ASSUME NEW n \in Nat
    PROVE  OrdersFor(n) \in Nat
  BY Constants, MinOfTwo DEF OrdersFor

\* The orders of the first users add up user by user, and never decrease.
LEMMA Totals ==
    ASSUME NEW users \in Seq(0 .. MaxAccounts)
    PROVE  /\ OrdersForFirst(users, 0) = 0
           /\ \A k \in 1 .. Len(users) :
                 OrdersForFirst(users, k) = OrdersForFirst(users, k - 1) + OrdersFor(users[k])
           /\ \A k \in 0 .. Len(users) :
                 /\ OrdersForFirst(users, k) \in Nat
                 /\ OrdersForFirst(users, k) <= OrdersForFirst(users, Len(users))
<1> DEFINE L == Len(users)
           Def(t) == [k \in 0 .. L |-> IF k = 0 THEN 0 ELSE t[k - 1] + OrdersFor(users[k])]
           total == CHOOSE t : t = Def(t)
           h == [k \in 1 .. L |-> OrdersFor(users[k])]
<1>0. L \in Nat /\ \A k \in 1 .. L : OrdersFor(users[k]) \in Nat
  <2>1. ASSUME NEW k \in 1 .. L
        PROVE  OrdersFor(users[k]) \in Nat
    <3>1. users[k] \in Nat
      BY Constants
    <3> QED
      BY <3>1, OrdersForType
  <2> QED
    BY <2>1
<1> HIDE DEF L
<1>1. h \in [1 .. L -> Nat] /\ \A k \in 1 .. L : h[k] = OrdersFor(users[k])
  BY <1>0
<1>2. PICK t \in [0 .. L -> Nat] : t[0] = 0 /\ \A k \in 1 .. L : t[k] = t[k - 1] + h[k]
  <2> HIDE DEF h
  <2> QED
    BY <1>0, <1>1, TotalExists
<1> HIDE DEF h
<1>3. t = Def(t)
  BY <1>0, <1>1, <1>2
<1>4. total = Def(total)
  BY <1>3
<1>5. \A k : OrdersForFirst(users, k) = total[k]
  BY DEF OrdersForFirst, L
<1> HIDE DEF total
<1>6. total[0] = 0 /\ \A k \in 1 .. L : total[k] = total[k - 1] + h[k]
  BY <1>0, <1>1, <1>4
<1> HIDE DEF Def
<1>7. \A k \in 0 .. L : total[k] \in Nat /\ total[k] <= total[L]
  BY <1>0, <1>1, <1>6, TotalGrows
<1>8. \A k \in 1 .. L : total[k] = total[k - 1] + OrdersFor(users[k])
  BY <1>1, <1>6
<1>9. /\ OrdersForFirst(users, 0) = 0
      /\ \A k \in 1 .. L :
            OrdersForFirst(users, k) = OrdersForFirst(users, k - 1) + OrdersFor(users[k])
  BY <1>5, <1>6, <1>8
<1>10. \A k \in 0 .. L :
          OrdersForFirst(users, k) \in Nat /\ OrdersForFirst(users, k) <= OrdersForFirst(users, L)
  BY <1>5, <1>7
<1> QED
  BY <1>9, <1>10 DEF L

LEMMA UptoFacts ==
    ASSUME UserInv
    PROVE  /\ reader.users \in Seq(0 .. MaxAccounts) /\ Len(reader.users) \in Nat
           /\ Upto(0) = 0
           /\ \A k \in 1 .. Len(reader.users) : Upto(k) = Upto(k - 1) + OrdersFor(reader.users[k])
           /\ \A k \in 0 .. Len(reader.users) :
                 Upto(k) \in Nat /\ Upto(k) <= Upto(Len(reader.users))
<1>1. reader.users \in Seq(0 .. MaxAccounts) /\ Len(reader.users) \in Nat
  BY DEF UserInv, UserTypeOK, Databases
<1> QED
  BY <1>1, Totals DEF Upto

LEMMA RunTypeInit == SInit => RunTypeOK
<1>1. /\ 0 \in Nat /\ 1 \in Nat \ {0} /\ 0 \in 0 .. Capacity /\ TotalOrders \in Nat
  BY CapacityType, Constants
<1> QED
  BY <1>1, Zenon DEF SInit, RunTypeOK

\* What the producer does.
Producer == StartRun \/ RunStep \/ ReporterStops \/ Signal

LEMMA FindUsersFacts ==
    ASSUME UserInv, RunTypeOK, LoopInv, FindUsers
    PROVE  /\ next' \in Nat \ {0} /\ last' \in Nat /\ last' <= Len(reader.users)
           /\ planned' \in Nat
           /\ \/ /\ run' = "close"
                 /\ (page - 1) * UserPageSize >= Len(reader.users)
              \/ /\ run' = "user" /\ Len(reader.users) > 0
                 /\ next' = (page - 1) * UserPageSize + 1
                 /\ last' = PageEnd(page) /\ next' <= last'
<1> DEFINE p == Page(Len(reader.users), page, UserPageSize)
           a == (page - 1) * UserPageSize
           b == IF a + UserPageSize <= Len(reader.users) THEN a + UserPageSize ELSE Len(reader.users)
<1>1. Len(reader.users) \in Nat
  BY DEF UserInv, UserTypeOK, Databases
<1>2. /\ a \in Nat /\ b \in Nat /\ p = a + 1 .. b /\ (b > a => Min(p) = a + 1 /\ Max(p) = b)
      /\ page * UserPageSize = a + UserPageSize
  BY <1>1, PageFacts, Constants DEF RunTypeOK
<1>3. b <= Len(reader.users) /\ (b <= a => a >= Len(reader.users)) /\ PageEnd(page) = b
  <2> HIDE DEF a
  <2> QED
    BY <1>1, <1>2, MinOfTwo, Constants DEF PageEnd
<1>4. \/ p = {} /\ run' = "close" /\ UNCHANGED <<next, last>>
      \/ p # {} /\ run' = "user" /\ next' = Min(p) /\ last' = Max(p)
  BY DEF FindUsers
<1>5. planned' \in Nat
  BY UptoFacts DEF FindUsers, RunTypeOK, Upto
<1> HIDE DEF p, a, b
<1>6. (p # {} => b > a) /\ (p = {} => b <= a)
  BY <1>2
<1>7. CASE p = {}
  BY <1>1, <1>2, <1>3, <1>4, <1>5, <1>6, <1>7 DEF RunTypeOK, LoopInv, a
<1>8. CASE p # {}
  BY <1>1, <1>2, <1>3, <1>4, <1>5, <1>6, <1>8 DEF a
<1> QED
  BY <1>7, <1>8

LEMMA GetAccountsFacts ==
    ASSUME UserInv, RunTypeOK, LoopInv, GetAccounts
    PROVE  slots' \in Nat /\ next' \in Nat \ {0} /\ run' = "order"
<1>1. reader.users \in Seq(0 .. MaxAccounts)
  BY DEF UserInv, UserTypeOK, Databases
<1>2. next \in 1 .. Len(reader.users)
  BY <1>1 DEF GetAccounts, RunTypeOK, LoopInv
<1>3. reader.users[next] \in Nat
  BY <1>1, <1>2, Constants
<1> QED
  BY <1>3, OrdersForType DEF GetAccounts, RunTypeOK

LEMMA RunTypeNext ==
    ASSUME UserInv, RunTypeOK, LoopInv, Producer \/ \E w \in Workers : WorkerStep(w)
    PROVE  RunTypeOK'
<1>1. CASE StartRun
  BY <1>1 DEF StartRun, RunTypeOK, channels, outcomes
<1>2. CASE FindUsers
  BY <1>2, FindUsersFacts DEF FindUsers, RunTypeOK, channels, outcomes
<1>3. CASE GetAccounts
  BY <1>3, GetAccountsFacts DEF GetAccounts, RunTypeOK, channels, outcomes
<1>4. CASE QueryError \/ SkipOrder \/ NextInLoop
  BY <1>4 DEF QueryError, SkipOrder, NextInLoop, RunTypeOK, channels, outcomes
<1>5. CASE Enqueue
  BY <1>5, CapacityType DEF Enqueue, RunTypeOK, outcomes
<1>6. CASE Count
  BY <1>6 DEF Count, RunTypeOK, LoopInv, channels, outcomes
<1>7. CASE CloseJobs \/ WaitForWorkers \/ Abort \/ ReturnRun
  BY <1>7 DEF CloseJobs, WaitForWorkers, Abort, ReturnRun, RunTypeOK, channels, outcomes
<1>8. CASE ReporterStops \/ Signal
  BY <1>8 DEF ReporterStops, Signal, RunTypeOK, producer, channels, outcomes
<1>9. ASSUME NEW w \in Workers, WorkerStep(w)
      PROVE  RunTypeOK'
  <2>1. run # "none" /\ UNCHANGED run
    BY <1>9 DEF WorkerStep, RunEnded, TakeJob, NoMoreJobs, LimiterWait, SendOrder, producer
  <2>2. CASE TakeJob(w)
    BY <2>1, <2>2, CapacityType DEF TakeJob, RunTypeOK, producer, outcomes
  <2>3. CASE NoMoreJobs(w)
    BY <2>1, <2>3 DEF NoMoreJobs, RunTypeOK, producer, channels, outcomes
  <2>4. CASE LimiterWait(w)
    BY <2>1, <2>4 DEF LimiterWait, RunTypeOK, producer, channels
  <2>5. CASE SendOrder(w)
    BY <2>1, <2>5 DEF SendOrder, RunTypeOK, producer, channels
  <2> QED
    BY <1>9, <2>2, <2>3, <2>4, <2>5 DEF WorkerStep
<1> QED
  BY <1>1, <1>2, <1>3, <1>4, <1>5, <1>6, <1>7, <1>8, <1>9 DEF Producer, RunStep

LEMMA LoopInit == SInit => LoopInv
  BY EmptyType, Constants DEF SInit, UserInit, LoopInv

LEMMA LoopNext ==
    ASSUME UserInv, RunTypeOK, LoopInv, UNCHANGED userVars,
           Producer \/ \E w \in Workers : WorkerStep(w)
    PROVE  LoopInv'
<1>0. UNCHANGED reader /\ Len(reader.users) \in Nat
  BY DEF userVars, UserInv, UserTypeOK, Databases
<1>1. CASE StartRun
  BY <1>0, <1>1 DEF StartRun, LoopInv
<1>2. CASE FindUsers
  BY <1>0, <1>2, FindUsersFacts DEF FindUsers, LoopInv
<1>3. CASE GetAccounts
  BY <1>0, <1>3 DEF GetAccounts, LoopInv
<1>4. CASE QueryError \/ SkipOrder \/ NextInLoop
  BY <1>0, <1>4 DEF QueryError, SkipOrder, NextInLoop, LoopInv
<1>5. CASE Enqueue
  BY <1>0, <1>5 DEF Enqueue, LoopInv
<1>6. CASE Count
  BY <1>0, <1>6, Constants DEF Count, LoopInv, RunTypeOK
<1>7. CASE CloseJobs \/ WaitForWorkers \/ Abort \/ ReturnRun
  BY <1>0, <1>7 DEF CloseJobs, WaitForWorkers, Abort, ReturnRun, LoopInv
<1>8. CASE ReporterStops \/ Signal
  BY <1>0, <1>8 DEF ReporterStops, Signal, producer, LoopInv
<1>9. ASSUME NEW w \in Workers, WorkerStep(w)
      PROVE  LoopInv'
  BY <1>0, <1>9 DEF WorkerStep, TakeJob, NoMoreJobs, LimiterWait, SendOrder, producer, LoopInv
<1> QED
  BY <1>1, <1>2, <1>3, <1>4, <1>5, <1>6, <1>7, <1>8, <1>9 DEF Producer, RunStep

LEMMA DoingType == \A s : IsFiniteSet(Doing(s)) /\ Cardinality(Doing(s)) \in Nat
<1> SUFFICES ASSUME NEW s
             PROVE  IsFiniteSet(Doing(s)) /\ Cardinality(Doing(s)) \in Nat
  OBVIOUS
<1>1. Doing(s) \in SUBSET Workers
  BY DEF Doing
<1> QED
  BY <1>1, Constants, FS_Subset, FS_CardinalityType

\* One worker goes from one thing to another.
LEMMA WorkerMoves ==
    ASSUME NEW w \in Workers, NEW to, NEW s, RunTypeOK,
           worker[w] # to, worker' = [worker EXCEPT ![w] = to]
    PROVE  /\ s = to => Cardinality(Doing(s))' = Cardinality(Doing(s)) + 1
           /\ s = worker[w] => Cardinality(Doing(s))' = Cardinality(Doing(s)) - 1
<1>1. DOMAIN worker = Workers
  BY DEF RunTypeOK
<1>2. CASE s = to
  <2>1. Doing(s)' = Doing(s) \cup {w} /\ w \notin Doing(s)
    BY <1>1, <1>2 DEF Doing
  <2> QED
    BY <1>2, <2>1, DoingType, FS_AddElement
<1>3. CASE s = worker[w]
  <2>1. Doing(s)' = Doing(s) \ {w} /\ w \in Doing(s)
    BY <1>1, <1>3 DEF Doing
  <2> QED
    BY <1>3, <2>1, DoingType, FS_RemoveElement
<1> QED
  BY <1>2, <1>3

LEMMA CountInit == SInit => CountInv
<1> SUFFICES ASSUME SInit
             PROVE  CountInv
  OBVIOUS
<1>1. Doing("sending") = {} /\ Doing("throttled") = {}
  BY DEF SInit, Doing
<1>2. sent = 0 /\ ok = 0 /\ fail = 0 /\ jobs = 0 /\ enqueued = 0 /\ Uncounted = 0
  BY DEF SInit, Uncounted
<1> QED
  BY <1>1, <1>2, FS_EmptySet DEF CountInv

LEMMA CountNext ==
    ASSUME RunTypeOK, LoopInv, CountInv, Producer \/ \E w \in Workers : WorkerStep(w)
    PROVE  CountInv'
<1> DEFINE S == Cardinality(Doing("sending"))
           T == Cardinality(Doing("throttled"))
<1>0. /\ S \in Nat /\ T \in Nat /\ Uncounted \in Nat
      /\ sent \in Nat /\ ok \in Nat /\ fail \in Nat /\ jobs \in Nat /\ enqueued \in Nat
  BY DoingType, CapacityType DEF RunTypeOK, Uncounted
<1>1. CASE StartRun
  <2>1. /\ Doing("sending")' = {} /\ Doing("throttled")' = {}
        /\ Doing("sending") = {} /\ Doing("throttled") = {}
    BY <1>1 DEF StartRun, Doing, RunTypeOK
  <2>2. Uncounted' = Uncounted /\ UNCHANGED <<sent, ok, fail, jobs, enqueued, cancelled>>
    BY <1>1 DEF StartRun, Uncounted, channels, outcomes
  <2> QED
    BY <1>0, <2>1, <2>2 DEF CountInv
<1>2. CASE FindUsers \/ GetAccounts \/ QueryError \/ SkipOrder \/ NextInLoop \/ CloseJobs
           \/ WaitForWorkers \/ Abort \/ ReturnRun \/ ReporterStops
  <2>1. UNCHANGED <<worker, sent, ok, fail, jobs, enqueued, cancelled>>
    BY <1>2 DEF FindUsers, GetAccounts, QueryError, SkipOrder, NextInLoop, CloseJobs,
                WaitForWorkers, Abort, ReturnRun, ReporterStops, channels, outcomes
  <2>2. Uncounted' = Uncounted
    BY <1>2 DEF FindUsers, GetAccounts, QueryError, SkipOrder, NextInLoop, CloseJobs,
                WaitForWorkers, Abort, ReturnRun, ReporterStops, producer, Uncounted
  <2> QED
    BY <2>1, <2>2 DEF CountInv, Doing
<1>3. CASE Enqueue
  <2>1. /\ UNCHANGED <<worker, sent, ok, fail, enqueued, cancelled>>
        /\ jobs' = jobs + 1 /\ Uncounted = 0 /\ Uncounted' = 1
    BY <1>3 DEF Enqueue, outcomes, Uncounted
  <2>2. S' = S /\ T' = T
    BY <2>1 DEF Doing
  <2> QED
    BY <1>0, <2>1, <2>2 DEF CountInv
<1>4. CASE Count
  <2>1. /\ UNCHANGED <<worker, sent, ok, fail, jobs, cancelled>>
        /\ enqueued' = enqueued + 1 /\ Uncounted = 1 /\ Uncounted' = 0
    BY <1>4 DEF Count, channels, outcomes, Uncounted
  <2>2. S' = S /\ T' = T
    BY <2>1 DEF Doing
  <2> QED
    BY <1>0, <2>1, <2>2 DEF CountInv
<1>5. CASE Signal
  <2>1. cancelled' /\ UNCHANGED <<worker, sent, ok, fail, jobs, enqueued, run>>
    BY <1>5 DEF Signal, producer, channels, outcomes
  <2> QED
    BY <2>1 DEF CountInv, Doing, Uncounted
<1>6. ASSUME NEW w \in Workers, WorkerStep(w)
      PROVE  CountInv'
  <2>0. UNCHANGED <<enqueued, cancelled>> /\ Uncounted' = Uncounted
    BY <1>6 DEF WorkerStep, TakeJob, NoMoreJobs, LimiterWait, SendOrder, producer, Uncounted
  <2>1. CASE TakeJob(w)
    <3>1. jobs' = jobs - 1 /\ UNCHANGED <<sent, ok, fail>>
      BY <2>1 DEF TakeJob, outcomes
    <3>2. S' = S /\ T' = T + 1
      <4>1. worker[w] = "idle" /\ worker' = [worker EXCEPT ![w] = "throttled"]
        BY <2>1 DEF TakeJob
      <4>2. worker[w] # "throttled"
        BY <4>1
      <4>3. S' = S
        BY <4>1, <4>2 DEF Doing, RunTypeOK
      <4>4. T' = T + 1
        BY <4>1, <4>2, WorkerMoves
      <4> QED
        BY <4>3, <4>4
    <3> QED
      BY <1>0, <2>0, <3>1, <3>2 DEF CountInv
  <2>2. CASE NoMoreJobs(w)
    <3>1. UNCHANGED <<jobs, sent, ok, fail>>
      BY <2>2 DEF NoMoreJobs, channels, outcomes
    <3>2. S' = S /\ T' = T
      <4>1. worker[w] = "idle" /\ worker' = [worker EXCEPT ![w] = "gone"]
        BY <2>2 DEF NoMoreJobs
      <4>2. worker[w] # "gone"
        BY <4>1
      <4>3. S' = S
        BY <4>1, <4>2 DEF Doing, RunTypeOK
      <4>4. T' = T
        BY <4>1, <4>2 DEF Doing, RunTypeOK
      <4> QED
        BY <4>3, <4>4
    <3> QED
      BY <1>0, <2>0, <3>1, <3>2 DEF CountInv
  <2>3. CASE LimiterWait(w) /\ ~cancelled
    <3>1. sent' = sent + 1 /\ UNCHANGED <<jobs, ok, fail>>
      BY <2>3 DEF LimiterWait, channels
    <3>2. S' = S + 1 /\ T' = T - 1
      <4>1. worker[w] = "throttled" /\ worker' = [worker EXCEPT ![w] = "sending"]
        BY <2>3 DEF LimiterWait
      <4>2. worker[w] # "sending"
        BY <4>1
      <4> QED
        BY <4>1, <4>2, WorkerMoves
    <3> QED
      BY <1>0, <2>0, <3>1, <3>2 DEF CountInv
  <2>4. CASE LimiterWait(w) /\ cancelled
    <3>1. UNCHANGED <<jobs, sent, ok, fail>>
      BY <2>4 DEF LimiterWait, channels
    <3>2. S' = S /\ T' = T - 1
      <4>1. worker[w] = "throttled" /\ worker' = [worker EXCEPT ![w] = "gone"]
        BY <2>4 DEF LimiterWait
      <4>2. worker[w] # "gone"
        BY <4>1
      <4>3. S' = S
        BY <4>1, <4>2 DEF Doing, RunTypeOK
      <4>4. T' = T - 1
        BY <4>1, <4>2, WorkerMoves
      <4> QED
        BY <4>3, <4>4
    <3> QED
      BY <1>0, <2>0, <2>4, <3>1, <3>2 DEF CountInv
  <2>5. CASE SendOrder(w)
    <3>1. /\ UNCHANGED <<jobs, sent>>
          /\ (ok' = ok + 1 /\ fail' = fail) \/ (fail' = fail + 1 /\ ok' = ok)
      BY <2>5 DEF SendOrder, channels
    <3>2. S' = S - 1 /\ T' = T
      <4>1. worker[w] = "sending" /\ worker' = [worker EXCEPT ![w] = "idle"]
        BY <2>5 DEF SendOrder
      <4>2. worker[w] # "idle"
        BY <4>1
      <4>3. S' = S - 1
        BY <4>1, <4>2, WorkerMoves
      <4>4. T' = T
        BY <4>1, <4>2 DEF Doing, RunTypeOK
      <4> QED
        BY <4>3, <4>4
    <3> QED
      BY <1>0, <2>0, <3>1, <3>2 DEF CountInv
  <2> QED
    BY <1>6, <2>1, <2>2, <2>3, <2>4, <2>5 DEF WorkerStep
<1> QED
  BY <1>1, <1>2, <1>3, <1>4, <1>5, <1>6 DEF Producer, RunStep

\* Once it has users the reader does not change.
LEMMA ReaderKept ==
    ASSUME UserInv, UserNext \/ StartSeed, Len(reader.users) > 0
    PROVE  reader' = reader
<1>1. reader = primary /\ primary # Empty
  BY EmptyType DEF UserInv, CommitInv
<1>2. CASE CommitSeed
  <2>1. reader' \in {reader, tx} /\ seed = "users"
    BY <1>2 DEF CommitSeed
  <2> QED
    BY <1>1, <2>1 DEF UserInv, CommitInv
<1>3. CASE Replicate
  BY <1>1, <1>3 DEF Replicate
<1> QED
  BY <1>2, <1>3 DEF UserNext, UserStep, StartSeed, CreateUser, CreateAccounts,
     ForeignKeyViolation, SeedFault, Fatal, ExportPage, SeedExit

LEMMA PlanInit == SInit => PlanInv
  BY DEF SInit, PlanInv, Plan, Paging

LEMMA PlanFindUsers ==
    ASSUME UserInv, RunTypeOK, LoopInv, Plan, FindUsers, UNCHANGED userVars
    PROVE  Plan'
<1> DEFINE L == Len(reader.users)
           a == (page - 1) * UserPageSize
<1>0. UNCHANGED <<reader, page, enqueued, remaining>> /\ run = "page" /\ remaining > 0
  BY DEF FindUsers, userVars
<1>1. L \in Nat /\ a \in Nat /\ enqueued \in Nat /\ planned \in Nat /\ enqueued <= TotalOrders
      /\ page \in Nat \ {0}
  BY UptoFacts, Constants DEF RunTypeOK, LoopInv
<1>2. /\ Upto(0) = 0 /\ Upto(L) \in Nat /\ L \in 0 .. L
  BY <1>1, UptoFacts
<1>3. \A k : Upto(k)' = Upto(k)
  BY <1>0 DEF Upto
<1>4. PageEnd(page)' = PageEnd(page)
  BY <1>0 DEF PageEnd
<1>5. planned' = IF page = 1 THEN Upto(L) ELSE planned
  BY DEF FindUsers, Upto
\* What was made is what the users before this page allow.
<1>6. /\ enqueued = Upto(IF a <= L THEN a ELSE L)
      /\ planned' = Upto(L)
      /\ page = 1 => a = 0
  <2>1. CASE page = 1
    <3>1. a = 0 /\ enqueued = 0
      BY <1>0, <2>1, Constants DEF Plan, Paging
    <3> QED
      BY <1>1, <1>2, <1>5, <2>1, <3>1
  <2>2. CASE page # 1
    <3>1. Paging /\ page > 1
      BY <1>0, <1>1, <2>2 DEF Paging
    <3>2. last = PageEnd(page - 1) /\ enqueued = Upto(last) /\ planned = Upto(L)
      BY <1>0, <3>1 DEF Plan
    <3> HIDE DEF L
    <3>3. PageEnd(page - 1) = IF a <= L THEN a ELSE L
      BY <1>1, MinOfTwo DEF PageEnd, L
    <3> QED
      BY <1>5, <2>2, <3>2, <3>3
  <2> QED
    BY <2>1, <2>2
<1>7. CASE run' = "close" /\ a >= L
  <2>1. enqueued = Upto(L)
    BY <1>1, <1>6, <1>7
  <2>2. enqueued' = Min({TotalOrders, planned'})
    BY <1>0, <1>1, <1>2, <1>6, <2>1, MinOfTwo, Constants
  <2> QED
    BY <1>7, <2>2 DEF Plan, Paging
<1>8. CASE run' = "user" /\ L > 0 /\ next' = a + 1 /\ last' = PageEnd(page) /\ next' <= last'
  <2>1. last' \in Nat /\ last' <= L
    BY FindUsersFacts
  <2>2. a <= L /\ next' - 1 = a /\ next' <= last' + 1
    BY <1>1, <1>8, <2>1
  <2>3. enqueued' = Upto(next - 1)'
    BY <1>0, <1>3, <1>6, <2>2
  <2>4. planned' = Upto(L)' /\ L' = L
    BY <1>0, <1>3, <1>6
  <2> QED
    BY <1>0, <1>4, <1>8, <2>2, <2>3, <2>4 DEF Plan, Paging
<1> QED
  BY <1>7, <1>8, FindUsersFacts

LEMMA PlanNext ==
    ASSUME UserInv, RunTypeOK, LoopInv, PlanInv, UNCHANGED userVars,
           Producer \/ \E w \in Workers : WorkerStep(w)
    PROVE  PlanInv'
<1> SUFFICES ASSUME ~cancelled'
             PROVE  Plan'
  BY DEF PlanInv
<1> DEFINE L == Len(reader.users)
<1>0. UNCHANGED reader /\ L \in Nat
  BY UptoFacts DEF userVars
<1>1. (\A k : Upto(k)' = Upto(k)) /\ (\A k : PageEnd(k)' = PageEnd(k)) /\ L' = L
  BY <1>0 DEF Upto, PageEnd
<1>2. ~cancelled /\ Plan /\ ~Signal
  <2>1. ~cancelled /\ ~Signal
    BY DEF Producer, RunStep, StartRun, FindUsers, GetAccounts, QueryError, Enqueue, Count,
           SkipOrder, NextInLoop, CloseJobs, WaitForWorkers, Abort, ReturnRun, ReporterStops,
           Signal, WorkerStep, TakeJob, NoMoreJobs, LimiterWait, SendOrder
  <2> QED
    BY <2>1 DEF PlanInv
<1>3. /\ page \in Nat \ {0} /\ next \in Nat \ {0} /\ last \in Nat /\ last <= L /\ slots \in Nat
      /\ enqueued \in Nat /\ remaining \in Nat /\ planned \in Nat
      /\ enqueued + remaining = TotalOrders
  BY DEF RunTypeOK, LoopInv
<1>4. \A k \in 0 .. L : Upto(k) \in Nat /\ Upto(k) <= Upto(L)
  BY UptoFacts
<1>5. CASE StartRun
  BY <1>2, <1>5 DEF StartRun, Plan, Paging
<1>6. CASE FindUsers
  BY <1>2, <1>6, PlanFindUsers
<1>7. CASE GetAccounts
  <2>1. /\ run = "user" /\ next <= last /\ remaining > 0 /\ run' = "order" /\ next' = next + 1
        /\ slots' = OrdersFor(reader.users[next])
        /\ UNCHANGED <<page, last, enqueued, planned>>
    BY <1>7 DEF GetAccounts
  <2>2. next \in 1 .. L
    BY <1>0, <1>3, <2>1
  <2>3. Upto(next) = Upto(next - 1) + slots'
    BY <2>1, <2>2, UptoFacts
  <2>4. enqueued = Upto(next - 1) /\ Paging /\ Paging'
    BY <1>2, <1>3, <2>1 DEF Plan, Paging
  <2>5. enqueued' + slots' = Upto(next - 1)'
    <3>1. next' - 1 = next
      BY <1>3, <2>1
    <3> QED
      BY <1>1, <2>1, <2>3, <2>4, <3>1
  <2> QED
    BY <1>0, <1>1, <1>2, <1>3, <2>1, <2>4, <2>5 DEF Plan
<1>8. CASE QueryError
  BY <1>8 DEF QueryError, Plan, Paging
<1>9. CASE Enqueue
  BY <1>1, <1>2, <1>9 DEF Enqueue, Plan, Paging
<1>10. CASE Count
  <2>1. enqueued' + slots' = enqueued + slots
    BY <1>3, <1>10 DEF Count
  <2> QED
    BY <1>1, <1>2, <1>10, <2>1 DEF Count, Plan, Paging
<1>11. CASE SkipOrder
  BY <1>2, <1>11 DEF SkipOrder
<1>12. CASE NextInLoop
  <2>0. UNCHANGED <<remaining, next, last, slots, planned, enqueued>>
    BY <1>12 DEF NextInLoop
  <2>1. CASE run = "order" /\ (slots = 0 \/ remaining = 0) /\ run' = "user" /\ UNCHANGED page
    <3>1. /\ Paging /\ Paging' /\ planned = Upto(L) /\ next <= last + 1
          /\ enqueued + slots = Upto(next - 1)
      BY <1>2, <2>1 DEF Plan, Paging
    <3>2. next - 1 \in 0 .. L
      BY <1>0, <1>3, <3>1
    <3>3. Upto(next - 1) \in Nat /\ Upto(next - 1) <= planned
      BY <1>4, <3>1, <3>2
    <3>4. enqueued = Upto(next - 1) \/ (remaining = 0 /\ enqueued <= planned)
      BY <1>3, <2>1, <3>1, <3>3
    <3> QED
      BY <1>0, <1>1, <1>2, <2>0, <2>1, <3>1, <3>4 DEF Plan
  <2>2. CASE run = "user" /\ (next > last \/ remaining = 0) /\ run' = "page" /\ page' = page + 1
    <3>1. /\ Paging /\ planned = Upto(L) /\ next <= last + 1 /\ last = PageEnd(page) /\ L > 0
          /\ enqueued = Upto(next - 1) \/ (remaining = 0 /\ enqueued <= planned)
      BY <1>2, <2>2 DEF Plan, Paging
    <3>2. page' - 1 = page /\ page' > 1 /\ Paging'
      BY <1>3, <2>2 DEF Paging
    <3>3. next - 1 \in 0 .. L
      BY <1>0, <1>3, <3>1
    <3>4. enqueued = Upto(last) \/ (remaining = 0 /\ enqueued <= planned)
      <4>1. CASE next > last
        BY <1>3, <3>1, <4>1
      <4>2. CASE remaining = 0
        BY <1>4, <3>1, <3>3, <4>2
      <4> QED
        BY <2>2, <4>1, <4>2
    <3> QED
      BY <1>0, <1>1, <2>0, <2>2, <3>1, <3>2, <3>4 DEF Plan
  <2>3. CASE run = "page" /\ remaining = 0 /\ run' = "close"
    <3>1. enqueued <= planned
      <4>1. CASE ~Paging
        BY <1>2, <2>3, <4>1 DEF Plan
      <4>2. CASE Paging
        BY <1>0, <1>2, <1>3, <1>4, <2>3, <4>2 DEF Plan
      <4> QED
        BY <4>1, <4>2
    <3>2. enqueued = Min({TotalOrders, planned})
      BY <1>3, <2>3, <3>1, MinOfTwo, Constants
    <3> QED
      BY <2>0, <2>3, <3>2 DEF Plan, Paging
  <2> QED
    BY <1>12, <2>1, <2>2, <2>3 DEF NextInLoop
<1>13. CASE CloseJobs \/ WaitForWorkers \/ Abort \/ ReturnRun
  BY <1>2, <1>13 DEF CloseJobs, WaitForWorkers, Abort, ReturnRun, Plan, Paging
<1>14. CASE ReporterStops \/ \E w \in Workers : WorkerStep(w)
  <2>1. UNCHANGED <<run, remaining, page, next, last, slots, planned, enqueued>>
    BY <1>14 DEF ReporterStops, WorkerStep, TakeJob, NoMoreJobs, LimiterWait, SendOrder, producer
  <2> QED
    BY <1>0, <1>1, <1>2, <2>1 DEF Plan, Paging
<1> QED
  BY <1>2, <1>5, <1>6, <1>7, <1>8, <1>9, <1>10, <1>11, <1>12, <1>13, <1>14
     DEF Producer, RunStep

LEMMA LeaveInit == SInit => LeaveInv
  BY DEF SInit, LeaveInv

LEMMA LeaveNext ==
    ASSUME RunTypeOK, LeaveInv, Producer \/ \E w \in Workers : WorkerStep(w)
    PROVE  LeaveInv'
<1>1. CASE StartRun
  BY <1>1 DEF StartRun, LeaveInv, channels
<1>2. CASE FindUsers \/ GetAccounts \/ QueryError \/ SkipOrder \/ NextInLoop \/ Count
  BY <1>2 DEF FindUsers, GetAccounts, QueryError, SkipOrder, NextInLoop, Count, channels, LeaveInv
<1>3. CASE Enqueue
  BY <1>3 DEF Enqueue, LeaveInv
<1>4. CASE CloseJobs \/ WaitForWorkers \/ Abort \/ ReturnRun
  BY <1>4 DEF CloseJobs, WaitForWorkers, Abort, ReturnRun, channels, LeaveInv
<1>5. CASE ReporterStops \/ Signal
  BY <1>5 DEF ReporterStops, Signal, producer, channels, LeaveInv
<1>6. ASSUME NEW w \in Workers, WorkerStep(w)
      PROVE  LeaveInv'
  <2>0. /\ worker[w] # "gone" /\ UNCHANGED <<run, jobsClosed, cancelled>>
        /\ worker \in [Workers -> {"none", "idle", "throttled", "sending", "gone"}]
        /\ run \notin {"wait", "returned"}
    BY <1>6 DEF WorkerStep, TakeJob, NoMoreJobs, LimiterWait, SendOrder, producer, channels,
                RunTypeOK, LeaveInv
  <2>1. CASE TakeJob(w)
    BY <2>0, <2>1 DEF TakeJob, LeaveInv, RunTypeOK
  <2>2. CASE NoMoreJobs(w)
    BY <2>0, <2>2 DEF NoMoreJobs, LeaveInv, channels
  <2>3. CASE LimiterWait(w)
    BY <2>0, <2>3 DEF LimiterWait, LeaveInv, channels
  <2>4. CASE SendOrder(w)
    BY <2>0, <2>4 DEF SendOrder, LeaveInv, channels
  <2> QED
    BY <1>6, <2>1, <2>2, <2>3, <2>4 DEF WorkerStep
<1> QED
  BY <1>1, <1>2, <1>3, <1>4, <1>5, <1>6 DEF Producer, RunStep

LEMMA RunInvInit == SInit => RunInv
  BY RunTypeInit, LoopInit, PlanInit, CountInit, LeaveInit DEF RunInv

LEMMA RunInvNext == UserInv /\ RunInv /\ [SNext]_seedVars => RunInv'
<1> SUFFICES ASSUME UserInv, RunInv, [SNext]_seedVars
             PROVE  RunInv'
  OBVIOUS
<1>1. CASE (Producer \/ \E w \in Workers : WorkerStep(w)) /\ UNCHANGED userVars
  BY <1>1, RunTypeNext, LoopNext, PlanNext, CountNext, LeaveNext DEF RunInv
<1>2. CASE UNCHANGED orderVars /\ (UserNext \/ StartSeed \/ UNCHANGED userVars)
  <2>1. /\ RunTypeOK' /\ CountInv' /\ LeaveInv'
    BY <1>2 DEF orderVars, producer, channels, outcomes, RunInv, RunTypeOK, CountInv, LeaveInv,
                Doing, Uncounted
  <2>2. Len(reader.users) \in Nat /\ Len(reader'.users) \in Nat
    <3>1. UserInv'
      BY UserInvNext, Zenon
    <3>2. reader \in Databases /\ reader' \in Databases
      BY <3>1 DEF UserInv, UserTypeOK
    <3> QED
      BY <3>2 DEF Databases
  <2>3. Len(reader'.users) >= Len(reader.users)
    BY <1>2, <2>2, ReaderGrows DEF userVars
  <2>4. LoopInv'
    BY <1>2, <2>2, <2>3 DEF orderVars, producer, RunInv, LoopInv, RunTypeOK
  <2>5. PlanInv'
    <3>1. CASE Len(reader.users) > 0
      <4>1. UNCHANGED reader
        BY <1>2, <3>1, ReaderKept DEF userVars
      <4> QED
        BY <1>2, <4>1 DEF orderVars, producer, RunInv, PlanInv, Plan, Paging, Upto, PageEnd
    <3>2. CASE ~(Len(reader.users) > 0)
      <4>1. cancelled \/ ~Paging
        BY <3>2 DEF RunInv, PlanInv, Plan
      <4> QED
        BY <1>2, <4>1 DEF orderVars, producer, RunInv, PlanInv, Plan, Paging
    <3> QED
      BY <3>1, <3>2
  <2> QED
    BY <2>1, <2>4, <2>5 DEF RunInv
<1> QED
  BY <1>1, <1>2 DEF SNext, Producer, SQuiet, seedVars

\* Both seeders keep their types: in particular the channel is never above its
\* capacity, no counter exceeds the total asked for, and Run reads no user that
\* its reader does not have.
THEOREM SeedersTypeCorrect == SSpec => []STypeOK
<1>1. UserInv /\ RunInv => STypeOK
  <2> SUFFICES ASSUME UserInv, RunInv
               PROVE  STypeOK
    OBVIOUS
  <2>1. /\ {remaining, enqueued} \subseteq 0 .. TotalOrders
        /\ enqueued + Uncounted <= TotalOrders
    BY Constants DEF RunInv, RunTypeOK, LoopInv, Uncounted
  <2>2. {sent, ok, fail} \subseteq 0 .. TotalOrders
    BY <2>1, Constants, DoingType, CapacityType DEF RunInv, RunTypeOK, CountInv, Uncounted
  <2>3. \A db \in {primary, reader, tx} : db.users \in Seq(0 .. MaxAccounts) /\ db.rows \in Nat
    BY DEF UserInv, UserTypeOK, Databases
  <2>4. /\ {inserted, exportAiData, cut} \subseteq BOOLEAN
        /\ {jobsClosed, stopProg, reporter, cancelled} \subseteq BOOLEAN
    BY Zenon DEF UserInv, UserTypeOK, RunInv, RunTypeOK
  <2>5. {remaining, enqueued, sent, ok, fail} \subseteq 0 .. TotalOrders
    BY <2>1, <2>2
  <2>6. {page, next, last, slots, planned} \subseteq Nat
    BY DEF RunInv, RunTypeOK
  <2> QED
    BY <2>3, <2>4, <2>5, <2>6 DEF STypeOK, UserInv, UserTypeOK, RunInv, RunTypeOK
<1> QED
  BY <1>1, UserInvInit, UserInvNext, RunInvInit, RunInvNext, PTL DEF SSpec

\* For any users, accounts, page size and total, an uninterrupted Run that returns
\* nil has enqueued one order for every slot of the users it found, or the total
\* asked for if that is less: its pages neither overlap nor leave a user out.
THEOREM AllSeededHolds == SSpec => []AllSeeded
<1>1. RunInv => AllSeeded
  BY DEF RunInv, PlanInv, Plan, AllSeeded
<1> QED
  BY <1>1, UserInvInit, UserInvNext, RunInvInit, RunInvNext, PTL DEF SSpec

\* With at least one worker, an uninterrupted Run that returns nil has sent every
\* order it enqueued and has the outcome of each, however its goroutines
\* interleave.
THEOREM AllAnsweredHolds ==
    ASSUME Workers # {}
    PROVE  SSpec => []AllAnswered
<1>1. RunInv => AllAnswered
  <2> SUFFICES ASSUME RunInv, run = "returned", ~cancelled
               PROVE  sent = enqueued /\ ok + fail = enqueued
    BY DEF AllAnswered
  <2>1. \A w \in Workers : worker[w] = "gone"
    BY DEF RunInv, LeaveInv
  <2>2. jobs = 0
    BY <2>1 DEF RunInv, LeaveInv
  <2>3. Doing("sending") = {} /\ Doing("throttled") = {}
    BY <2>1 DEF Doing
  <2>4. Uncounted = 0
    BY DEF Uncounted
  <2> QED
    BY <2>2, <2>3, <2>4, FS_EmptySet DEF RunInv, RunTypeOK, CountInv
<1> QED
  BY <1>1, UserInvInit, UserInvNext, RunInvInit, RunInvNext, PTL DEF SSpec
=============================================================================
