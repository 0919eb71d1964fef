-------------------------- MODULE WindowStateProofs --------------------------
(***************************************************************************)
(* Proofs about WindowState, for any number of processes, workspaces,      *)
(* windows and records: the block never holds two records of one window,   *)
(* only its own process vouches for a window, and no call drops the record *)
(* of a window it is not about.                                            *)
(***************************************************************************)
EXTENDS WindowState, FilteringProofs

\* What is inductive.
RegistryInvariant == TypeOK /\ UniqueRecords /\ LookupsAlone

\* No two records of the list b are of one window.
OneEach(b) == \A j, k \in DOMAIN b : j # k => b[j].window # b[k].window

\* The host's number for a new window exists and is at most one past the bound.
LEMMA NewIdExists ==
    ASSUME NEW p PROVE NewId(p) \in 1..(MaxId + 1)
<1> DEFINE Above == {i \in 1..(MaxId + 1) : \A j \in Open(p) : j < i}
<1>1. MaxId \in Nat /\ \A j \in Open(p) : j \in 1..MaxId
  BY SizesAssumption DEF Open, Ids
<1>2. MaxId + 1 \in Above /\ Above \in SUBSET Nat
  BY <1>1
<1>3. PICK m \in Above : \A y \in Above : m <= y
  <2> HIDE DEF Above
  <2> QED BY <1>2, LeastNatural
<1>4. ASSUME m > 1 PROVE m - 1 \in Open(p)
  <2>1. m - 1 \in 1..(MaxId + 1) /\ m - 1 \notin Above
    BY <1>1, <1>3, <1>4
  <2>2. PICK j \in Open(p) : ~(j < m - 1)
    BY <2>1
  <2> QED BY <1>1, <1>3, <2>2
<1>5. m \in 1..(MaxId + 1) /\ \A j \in Open(p) : j < m
  BY <1>3
<1> QED BY Zenon, <1>4, <1>5 DEF NewId

\* The number depends on the process's own windows only.
LEMMA NewIdStays ==
    ASSUME NEW p, windows'[p] = windows[p] PROVE NewId(p)' = NewId(p)
<1>1. Open(p)' = Open(p)
  BY Zenon DEF Open
<1> QED BY Zenon, <1>1 DEF NewId

-----------------------------------------------------------------------------
\* Dropping records (erase_if) leaves a list without duplicates.
LEMMA FilterBlock ==
    ASSUME NEW b \in Seq(Record), OneEach(b), NEW T
    PROVE  /\ Filter(b, T) \in Seq(Record) /\ Len(Filter(b, T)) <= Len(b)
           /\ OneEach(Filter(b, T)) /\ Records(Filter(b, T)) = Records(b) \cap T
<1> DEFINE R == {x \in Record \X Record : x[1].window # x[2].window}
<1>1. /\ Filter(b, T) \in Seq(Record) /\ Len(Filter(b, T)) <= Len(b)
      /\ Records(Filter(b, T)) = Records(b) \cap T
  <2>1. /\ {Filter(b, T)[k] : k \in DOMAIN Filter(b, T)} = {b[k] : k \in DOMAIN b} \cap T
        /\ Filter(b, T) \in Seq(Record)
    BY Zenon, FilterMembers
  <2>2. Len(Filter(b, T)) <= Len(b)
    BY Zenon, FilterNoLonger
  <2> QED BY Zenon, <2>1, <2>2 DEF Records
<1>2. \A i, j \in DOMAIN b : i < j => <<b[i], b[j]>> \in R
  BY DEF OneEach
<1>3. \A i, j \in DOMAIN Filter(b, T) : i < j => <<Filter(b, T)[i], Filter(b, T)[j]>> \in R
  <2> HIDE DEF R
  <2> QED BY <1>2, FilterKeepsOrder
<1> DEFINE t == Filter(b, T)
<1> HIDE DEF t
<1>4. t \in Seq(Record) /\ \A i, j \in DOMAIN t : i < j => t[i].window # t[j].window
  BY Zenon, <1>1, <1>3 DEF t
<1>5. OneEach(t)
  BY <1>4 DEF OneEach
<1> QED BY <1>1, <1>5 DEF t

\* A window's record is replaced where it stands or added at the end: the others
\* keep their places (UpsertWindow).
LEMMA UpsertFacts ==
    ASSUME NEW b \in Seq(Record), OneEach(b), NEW r \in Record
    PROVE  /\ UpsertWindow(b, r) \in Seq(Record) /\ OneEach(UpsertWindow(b, r))
           /\ \A k \in DOMAIN UpsertWindow(b, r) :
                 \/ UpsertWindow(b, r)[k] = r
                 \/ k \in DOMAIN b /\ UpsertWindow(b, r)[k] = b[k] /\ b[k].window # r.window
           /\ \A k \in DOMAIN b : b[k].window # r.window =>
                 k \in DOMAIN UpsertWindow(b, r) /\ UpsertWindow(b, r)[k] = b[k]
<1> DEFINE T == {q \in Records(b) : q.window = r.window}
           n == Find(b, T)
           u == UpsertWindow(b, r)
<1>1. u = IF n = 0 THEN Append(b, r) ELSE [b EXCEPT ![n] = r]
  BY Zenon DEF UpsertWindow
<1>2. \/ n = 0 /\ \A k \in DOMAIN b : b[k] \notin T
      \/ n \in DOMAIN b /\ b[n] \in T
  <2> HIDE DEF T
  <2> QED BY FindFirst
<1>3. \A k \in DOMAIN b : b[k] \in T <=> b[k].window = r.window
  BY Zenon DEF Records
<1> HIDE DEF T, n, u
<1>4. CASE n = 0
  <2>1. u = Append(b, r) /\ u \in Seq(Record) /\ DOMAIN b = 1..Len(b) /\ Len(b) \in Nat
    BY <1>1, <1>4
  <2>2. /\ \A k \in DOMAIN u : (k \in DOMAIN b /\ u[k] = b[k]) \/ (k = Len(b) + 1 /\ u[k] = r)
        /\ \A k \in DOMAIN b : k \in DOMAIN u /\ u[k] = b[k]
    BY <2>1
  <2>3. \A k \in DOMAIN b : b[k].window # r.window
    BY <1>2, <1>3, <1>4, <2>1
  <2>4. OneEach(u)
    BY <2>2, <2>3 DEF OneEach
  <2> QED BY <2>1, <2>2, <2>3, <2>4 DEF u
<1>5. CASE n \in DOMAIN b /\ b[n] \in T
  <2>1. u = [b EXCEPT ![n] = r] /\ u \in Seq(Record) /\ DOMAIN u = DOMAIN b
    BY <1>1, <1>5
  <2>2. u[n] = r /\ \A k \in DOMAIN b \ {n} : u[k] = b[k]
    BY <1>5, <2>1
  <2>3. b[n].window = r.window /\ \A k \in DOMAIN b \ {n} : b[k].window # r.window
    BY <1>3, <1>5 DEF OneEach
  <2>4. OneEach(u)
    BY <2>1, <2>2, <2>3 DEF OneEach
  <2> QED BY <2>1, <2>2, <2>3, <2>4 DEF u
<1> QED BY <1>2, <1>4, <1>5

\* The block is rewritten record by record: what fits keeps its place and its
\* window, and only the refreshed window is seen again (_saveRuntimeWorkspaceStateManagerToBlock).
LEMMA SaveFacts ==
    ASSUME NEW b \in Seq(Record), OneEach(b), NEW i, tick \in Nat
    PROVE  /\ Save(b, i) \in Seq(Record) /\ Len(Save(b, i)) <= Capacity /\ OneEach(Save(b, i))
           /\ \A k \in DOMAIN Save(b, i) :
                 /\ k \in DOMAIN b /\ Same(b[k], Save(b, i)[k])
                 /\ b[k].window # i => Save(b, i)[k].seen = b[k].seen
           /\ \A k \in DOMAIN b : k <= Capacity => k \in DOMAIN Save(b, i)
<1> DEFINE n == IF Len(b) < Capacity THEN Len(b) ELSE Capacity
           Rewritten(k) == [b[k] EXCEPT !.named = b[k].workspace \in disk,
                                        !.seen = IF b[k].window = i THEN tick ELSE @]
           v == Save(b, i)
<1>1. v = [k \in 1..n |-> Rewritten(k)]
  BY DEF Save
<1>2. n \in Nat /\ n <= Capacity /\ n <= Len(b) /\ DOMAIN b = 1..Len(b) /\ \A k \in 1..Len(b) : k <= Capacity => k <= n
  BY SizesAssumption
<1>3. ASSUME NEW k \in DOMAIN b
      PROVE  /\ Rewritten(k) \in Record /\ Same(b[k], Rewritten(k))
             /\ b[k].window # i => Rewritten(k).seen = b[k].seen
  <2> DEFINE r == b[k]
             x == Rewritten(k)
  <2>1. r \in Record
    OBVIOUS
  <2>2. Same(r, x) /\ (r.window # i => x.seen = r.seen)
    BY <2>1 DEF Record, Same
  <2>3. x \in Record
    <3>1. \A y \in BOOLEAN : [r EXCEPT !.named = y, !.seen = IF r.window = i THEN tick ELSE r.seen] \in Record
      BY Zenon, <2>1 DEF Record
    <3>2. \A y, S : (y \in S) \in BOOLEAN
      OBVIOUS
    <3> QED BY Zenon, <3>1, <3>2
  <2> QED BY <2>2, <2>3
<1> HIDE DEF n, Rewritten, v
<1>4. v \in Seq(Record) /\ Len(v) = n /\ DOMAIN v = 1..n /\ \A k \in 1..n : v[k] = Rewritten(k)
  BY <1>1, <1>2, <1>3
<1>5. \A k \in DOMAIN v : k \in DOMAIN b /\ Same(b[k], v[k]) /\ (b[k].window # i => v[k].seen = b[k].seen)
  BY <1>2, <1>3, <1>4
<1>6. OneEach(v)
  BY <1>5 DEF OneEach, Same
<1> QED BY <1>2, <1>4, <1>5, <1>6 DEF v

\* What the callback of p leaves in the block: no duplicates and no more than
\* fit; a record that was not there as it is belongs to p and to the window p
\* refreshes; and every record is there but that of the window the call is about.
WrittenWell(p) ==
    LET c == Head(calls[p])
        w == Written(p)
    IN /\ w \in Seq(Record) /\ Len(w) <= Capacity /\ OneEach(w)
       /\ \A x \in Records(w) :
             \/ \E y \in Records(block) : Same(y, x) /\ y.seen = x.seen
             \/ x.process = p /\ c.op = "refresh" /\ x.window = c.window
       /\ \A y \in Records(block) : c.window = y.window \/ \E x \in Records(w) : Same(x, y)

\* The same when the call leaves nothing new in the block.
WrittenOff(w, i) ==
    /\ w \in Seq(Record) /\ Len(w) <= Capacity /\ OneEach(w)
    /\ \A x \in Records(w) : \E y \in Records(block) : Same(y, x) /\ y.seen = x.seen
    /\ \A y \in Records(block) : y.window = i \/ \E x \in Records(w) : Same(x, y)

\* A call that removes a window, or refreshes one that has no workspace.
LEMMA WrittenWithout ==
    ASSUME RegistryInvariant, NEW i, NEW j, i = j \/ j \notin Ids
    PROVE  WrittenOff(Save(RemoveWindow(block, i), j), i)
<1> DEFINE b == RemoveWindow(block, i)
           w == Save(b, j)
<1>1. block \in Seq(Record) /\ Len(block) <= Capacity /\ OneEach(block) /\ tick \in Nat /\ Capacity \in Nat
  BY SizesAssumption DEF RegistryInvariant, TypeOK, UniqueRecords, OneEach
<1>2. /\ b \in Seq(Record) /\ Len(b) <= Len(block) /\ OneEach(b)
      /\ Records(b) = Records(block) \cap {r \in Records(block) : r.window # i}
  BY <1>1, FilterBlock DEF RemoveWindow
<1> HIDE DEF b
<1>3. /\ w \in Seq(Record) /\ Len(w) <= Capacity /\ OneEach(w)
      /\ \A k \in DOMAIN w : /\ k \in DOMAIN b /\ Same(b[k], w[k])
                             /\ b[k].window # j => w[k].seen = b[k].seen
      /\ \A k \in DOMAIN b : k <= Capacity => k \in DOMAIN w
  BY <1>1, <1>2, SaveFacts
<1> HIDE DEF w
<1>4. \A k \in DOMAIN b : b[k] \in Records(block) /\ b[k].window # i /\ b[k].window \in Ids
  <2>1. \A k \in DOMAIN b : b[k] \in Records(b) /\ b[k] \in Record
    BY <1>2 DEF Records
  <2> QED BY <1>2, <2>1 DEF Record
<1>5. ASSUME NEW x \in Records(w) PROVE \E y \in Records(block) : Same(y, x) /\ y.seen = x.seen
  <2>1. PICK k \in DOMAIN w : x = w[k]
    BY Zenon DEF Records
  <2> QED BY <1>3, <1>4, <2>1
<1>6. ASSUME NEW y \in Records(block), y.window # i PROVE \E x \in Records(w) : Same(x, y)
  <2>1. PICK k \in DOMAIN b : y = b[k]
    BY Zenon, <1>2, <1>6 DEF Records
  <2>2. k \in DOMAIN w
    BY <1>1, <1>2, <1>3, <2>1
  <2> QED BY Zenon, <1>3, <2>1, <2>2 DEF Records, Same
<1> QED BY Zenon, <1>3, <1>5, <1>6 DEF b, w, WrittenOff

\* A call that refreshes a window with a workspace.
LEMMA WrittenWith ==
    ASSUME RegistryInvariant, NEW r \in Record
    PROVE  LET w == Save(UpsertWindow(block, r), r.window)
           IN /\ w \in Seq(Record) /\ Len(w) <= Capacity /\ OneEach(w)
              /\ \A x \in Records(w) :
                    \/ \E y \in Records(block) : Same(y, x) /\ y.seen = x.seen
                    \/ x.process = r.process /\ x.window = r.window
              /\ \A y \in Records(block) : y.window = r.window \/ \E x \in Records(w) : Same(x, y)
<1> DEFINE b == UpsertWindow(block, r)
           w == Save(b, r.window)
<1>1. block \in Seq(Record) /\ Len(block) <= Capacity /\ OneEach(block) /\ tick \in Nat /\ Capacity \in Nat
  BY SizesAssumption DEF RegistryInvariant, TypeOK, UniqueRecords, OneEach
<1>2. /\ b \in Seq(Record) /\ OneEach(b)
      /\ \A k \in DOMAIN b : \/ b[k] = r
                             \/ k \in DOMAIN block /\ b[k] = block[k] /\ block[k].window # r.window
      /\ \A k \in DOMAIN block : block[k].window # r.window => k \in DOMAIN b /\ b[k] = block[k]
  BY <1>1, UpsertFacts
<1> HIDE DEF b
<1>3. /\ w \in Seq(Record) /\ Len(w) <= Capacity /\ OneEach(w)
      /\ \A k \in DOMAIN w : /\ k \in DOMAIN b /\ Same(b[k], w[k])
                             /\ b[k].window # r.window => w[k].seen = b[k].seen
      /\ \A k \in DOMAIN b : k <= Capacity => k \in DOMAIN w
  BY <1>1, <1>2, SaveFacts
<1> HIDE DEF w
<1>4. ASSUME NEW x \in Records(w)
      PROVE  \/ \E y \in Records(block) : Same(y, x) /\ y.seen = x.seen
             \/ x.process = r.process /\ x.window = r.window
  <2>1. PICK k \in DOMAIN w : x = w[k]
    BY Zenon DEF Records
  <2>2. CASE b[k] = r
    BY <1>3, <2>1, <2>2 DEF Same
  <2>3. CASE k \in DOMAIN block /\ b[k] = block[k] /\ block[k].window # r.window
    BY Zenon, <1>3, <2>1, <2>3 DEF Records
  <2> QED BY Zenon, <1>2, <1>3, <2>2, <2>3
<1>5. ASSUME NEW y \in Records(block), y.window # r.window PROVE \E x \in Records(w) : Same(x, y)
  <2>1. PICK k \in DOMAIN block : y = block[k]
    BY Zenon DEF Records
  <2>2. k \in DOMAIN b /\ b[k] = y /\ k <= Capacity
    BY <1>1, <1>2, <1>5, <2>1
  <2> QED BY Zenon, <1>3, <2>2 DEF Records, Same
<1> QED BY Zenon, <1>3, <1>4, <1>5 DEF b, w

\* The first call of a process is a call, and about a window unless it opens one.
LEMMA FirstCall ==
    ASSUME RegistryInvariant, NEW p \in Processes, calls[p] # <<>>
    PROVE  /\ Head(calls[p]) \in Call /\ Tail(calls[p]) \in Seq(Call)
           /\ Head(calls[p]).op # "open" => Head(calls[p]).window \in Ids
           /\ Head(calls[p]).op \in {"open", "close"} => Tail(calls[p]) = <<>> /\ NewId(p) <= MaxId
           /\ \A k \in DOMAIN Tail(calls[p]) : k + 1 \in DOMAIN calls[p] /\ Tail(calls[p])[k] = calls[p][k + 1]
<1>1. calls[p] \in Seq(Call)
  BY DEF RegistryInvariant, TypeOK
<1>2. 1 \in DOMAIN calls[p] /\ Head(calls[p]) = calls[p][1] /\ calls[p][1] \in Call
  BY <1>1
<1>3. /\ calls[p][1].op # "open" => calls[p][1].window \in Ids
      /\ calls[p][1].op \in {"open", "close"} => Len(calls[p]) = 1 /\ NewId(p) <= MaxId
  BY Zenon, <1>2 DEF RegistryInvariant, LookupsAlone, Ready
<1>4. Tail(calls[p]) \in Seq(Call) /\ (Len(calls[p]) = 1 => Tail(calls[p]) = <<>>)
  <2>1. \A s \in Seq(Call) : s # <<>> => Tail(s) \in Seq(Call)
    OBVIOUS
  <2>2. \A s \in Seq(Call) : Len(s) = 1 => Len(Tail(s)) = 0
    OBVIOUS
  <2>3. \A s \in Seq(Call) : Len(s) = 0 => s = <<>>
    OBVIOUS
  <2> QED BY Zenon, <1>1, <2>1, <2>2, <2>3
<1>5. \A k \in DOMAIN Tail(calls[p]) : k + 1 \in DOMAIN calls[p] /\ Tail(calls[p])[k] = calls[p][k + 1]
  BY <1>1, <1>2
<1> QED BY <1>2, <1>3, <1>4, <1>5

\* Every callback leaves the block well (Written).
LEMMA CallbackWrites ==
    ASSUME RegistryInvariant, NEW p \in Processes, calls[p] # <<>>
    PROVE  WrittenWell(p)
<1> DEFINE c == Head(calls[p])
<1>1. c \in Call /\ (c.op # "open" => c.window \in Ids)
  BY FirstCall
<1>2. CASE c.op = "refresh" /\ c.workspace = None
  <2>1. Written(p) = Save(RemoveWindow(block, c.window), c.window)
    BY <1>2 DEF Written, UpdateWindowState
  <2>2. WrittenOff(Written(p), c.window)
    BY <2>1, WrittenWithout
  <2> QED BY Zenon, <2>2 DEF WrittenWell, WrittenOff
<1>3. CASE c.op = "refresh" /\ c.workspace # None
  <2> DEFINE r == [window |-> c.window, process |-> p, workspace |-> c.workspace, named |-> FALSE, seen |-> 0]
  <2>1. r \in Record /\ r.window = c.window /\ r.process = p
    BY <1>1, <1>3 DEF Record, Call
  <2>2. Written(p) = Save(UpsertWindow(block, r), r.window)
    BY Zenon, <1>3, <2>1 DEF Written, UpdateWindowState
  <2> HIDE DEF r
  <2>3. LET w == Written(p)
        IN /\ w \in Seq(Record) /\ Len(w) <= Capacity /\ OneEach(w)
           /\ \A x \in Records(w) :
                 \/ \E y \in Records(block) : Same(y, x) /\ y.seen = x.seen
                 \/ x.process = p /\ x.window = c.window
           /\ \A y \in Records(block) : y.window = c.window \/ \E x \in Records(w) : Same(x, y)
    BY Zenon, <2>1, <2>2, WrittenWith
  <2> QED BY Zenon, <1>3, <2>3 DEF WrittenWell
<1>4. CASE c.op = "remove"
  <2>1. Written(p) = Save(RemoveWindow(block, c.window), 0)
    BY <1>4 DEF Written
  <2>2. 0 \notin Ids
    BY DEF Ids
  <2>3. WrittenOff(Written(p), c.window)
    BY <2>1, <2>2, WrittenWithout
  <2> QED BY Zenon, <2>3 DEF WrittenWell, WrittenOff
<1>5. CASE c.op \notin {"refresh", "remove"}
  <2>1. Written(p) = block
    BY <1>5 DEF Written
  <2>2. block \in Seq(Record) /\ Len(block) <= Capacity /\ OneEach(block)
    BY DEF RegistryInvariant, TypeOK, UniqueRecords, OneEach
  <2> QED BY Zenon, <2>1, <2>2 DEF WrittenWell, Same
<1> QED BY <1>2, <1>3, <1>4, <1>5

-----------------------------------------------------------------------------
\* What OnlyOwnerVouches and KeepsOtherWindows say of one step.
Vouched ==
    \A k \in DOMAIN block' :
        LET r == block'[k]
        IN \/ \E j \in DOMAIN block : Same(block[j], r) /\ block[j].seen = r.seen
           \/ /\ holder = r.process
              /\ Head(calls[holder]).op = "refresh"
              /\ Head(calls[holder]).window = r.window

Kept ==
    \A k \in DOMAIN block :
        LET r == block[k]
        IN \/ Expired(r)
           \/ ~(alive \subseteq alive')
           \/ holder # None /\ Head(calls[holder]).window = r.window
           \/ \E j \in DOMAIN block' : Same(block'[j], r)

GoodBlock == block \in Seq(Record) /\ Len(block) <= Capacity /\ OneEach(block)

\* A call that takes the mutex drops the expired records and no others.
LEMMA AcquireBlock ==
    ASSUME RegistryInvariant, NEW p \in Processes, Acquire(p)
    PROVE  GoodBlock' /\ Vouched /\ Kept
<1> DEFINE T == {r \in Records(block) : ~Expired(r)}
<1>1. block' = Filter(block, T)
  BY DEF Acquire, Prune
<1>2. block \in Seq(Record) /\ Len(block) <= Capacity /\ OneEach(block) /\ Capacity \in Nat
  BY SizesAssumption DEF RegistryInvariant, TypeOK, UniqueRecords, OneEach
<1>3. /\ block' \in Seq(Record) /\ Len(block') <= Len(block) /\ OneEach(block')
      /\ Records(block') = Records(block) \cap T
  <2> HIDE DEF T
  <2> QED BY <1>1, <1>2, FilterBlock
<1>4. GoodBlock'
  BY <1>2, <1>3 DEF GoodBlock, OneEach
<1>5. Vouched
  BY Zenon, <1>3 DEF Vouched, Records, Same
<1>6. Kept
  BY Zenon, <1>3 DEF Kept, Records, Same
<1> QED BY <1>4, <1>5, <1>6

\* A call that ends, or is cut off while it rewrites the block.
LEMMA CallbackBlock ==
    ASSUME RegistryInvariant, NEW p \in Processes, holder = p, NEW n \in 0..Len(Written(p)),
           block' = SubSeq(Written(p), 1, n)
    PROVE  GoodBlock' /\ Vouched /\ (n = Len(Written(p)) => Kept)
<1> DEFINE w == Written(p)
           c == Head(calls[p])
<1>0. p # None /\ calls[p] # <<>> /\ Capacity \in Nat
  BY NoneAssumption, SizesAssumption DEF RegistryInvariant, TypeOK
<1>1. /\ w \in Seq(Record) /\ Len(w) <= Capacity /\ OneEach(w)
      /\ \A x \in Records(w) :
             \/ \E y \in Records(block) : Same(y, x) /\ y.seen = x.seen
             \/ x.process = p /\ c.op = "refresh" /\ x.window = c.window
      /\ \A y \in Records(block) : c.window = y.window \/ \E x \in Records(w) : Same(x, y)
  BY Zenon, <1>0, CallbackWrites DEF WrittenWell
<1> HIDE DEF w
<1>2. /\ block' \in Seq(Record) /\ Len(block') = n /\ DOMAIN block' = 1..n /\ DOMAIN w = 1..Len(w)
      /\ \A k \in 1..n : k \in DOMAIN w /\ block'[k] = w[k]
  <2>1. n \in 0..Len(w) /\ block' = SubSeq(w, 1, n)
    BY DEF w
  <2> QED BY <1>1, <2>1
<1>3. GoodBlock'
  <2>1. OneEach(block)'
    BY <1>1, <1>2 DEF OneEach
  <2>2. Len(block') <= Capacity
    BY <1>0, <1>1, <1>2
  <2> QED BY Zenon, <1>2, <2>1, <2>2 DEF GoodBlock
<1>4. Vouched
  <2> SUFFICES ASSUME NEW k \in DOMAIN block'
               PROVE  \/ \E j \in DOMAIN block : Same(block[j], block'[k]) /\ block[j].seen = block'[k].seen
                      \/ p = block'[k].process /\ c.op = "refresh" /\ c.window = block'[k].window
    BY Zenon DEF Vouched
  <2>1. block'[k] \in Records(w)
    BY Zenon, <1>2 DEF Records
  <2> QED BY Zenon, <1>1, <2>1 DEF Records
<1>5. ASSUME n = Len(w) PROVE Kept
  <2> SUFFICES ASSUME NEW k \in DOMAIN block
               PROVE  c.window = block[k].window \/ \E j \in DOMAIN block' : Same(block'[j], block[k])
    BY Zenon, <1>0 DEF Kept
  <2>1. block[k] \in Records(block)
    BY Zenon DEF Records
  <2>2. \A x \in Records(w) : \E j \in DOMAIN block' : block'[j] = x
    BY Zenon, <1>2, <1>5 DEF Records
  <2>3. c.window = block[k].window \/ \E x \in Records(w) : Same(x, block[k])
    BY Zenon, <1>1, <2>1
  <2> QED BY Zenon, <2>2, <2>3
<1> QED BY Zenon, <1>3, <1>4, <1>5 DEF w

\* A step that is no part of a call, or only waits for one, leaves the block.
LEMMA BlockStays ==
    ASSUME RegistryInvariant, block' = block
    PROVE  GoodBlock' /\ Vouched /\ Kept
<1>1. GoodBlock'
  BY DEF RegistryInvariant, TypeOK, UniqueRecords, GoodBlock, OneEach
<1>2. Vouched /\ Kept
  BY Zenon DEF Vouched, Kept, Same
<1> QED BY <1>1, <1>2

\* What every step does to the block.
LEMMA StepBlock ==
    ASSUME RegistryInvariant, [Next]_vars
    PROVE  GoodBlock' /\ Vouched /\ Kept
<1>0. block \in Seq(Record)
  BY DEF RegistryInvariant, TypeOK
<1>1. ASSUME NEW p \in Processes, Finish(p) PROVE GoodBlock' /\ Vouched /\ Kept
  <2> DEFINE w == Written(p)
  <2>1. holder = p /\ calls[p] # <<>> /\ block' = w
    BY <1>1 DEF Finish
  <2>2. w \in Seq(Record)
    BY Zenon, <2>1, CallbackWrites DEF WrittenWell
  <2> HIDE DEF w
  <2>3. Len(w) \in 0..Len(w) /\ w = SubSeq(w, 1, Len(w))
    BY <2>2
  <2> QED BY Zenon, <2>1, <2>3, CallbackBlock DEF w
<1>2. ASSUME NEW p \in Processes, Crash(p) PROVE GoodBlock' /\ Vouched /\ Kept
  <2>1. Kept
    BY Zenon, <1>2 DEF Crash, Kept
  <2>2. CASE block' = block
    BY <2>2, BlockStays
  <2>3. CASE block' # block
    <3>1. holder = p /\ block' \in Torn(p)
      BY <1>2, <2>3 DEF Crash
    <3>2. PICK n \in 0..Len(Written(p)) : block' = SubSeq(Written(p), 1, n)
      BY Zenon, <2>3, <3>1 DEF Torn
    <3> QED BY Zenon, <2>1, <3>1, <3>2, CallbackBlock
  <2> QED BY <2>2, <2>3
<1>3. ASSUME NEW p \in Processes, Command(p) \/ Turn(p) PROVE block' = block
  BY Zenon, <1>3 DEF Command, Turn, NewWindow, OpenWorkspace, SaveWorkspaceEditorState, CommitWorkspaceNameEdit,
     RemoveWorkspaceDefinitionById, CloseRequested, RefreshWorkspaceWindowState, Destroy
<1>4. ASSUME NEW p \in Processes, GiveUp(p) \/ Start(p) PROVE block' = block
  BY <1>4 DEF GiveUp, Start
<1>5. ASSUME Tick \/ UNCHANGED vars PROVE block' = block
  BY <1>5 DEF Tick, vars
<1> QED BY <1>1, <1>2, <1>3, <1>4, <1>5, AcquireBlock, BlockStays DEF Next, CallStep, Environment

-----------------------------------------------------------------------------
\* The calls after which nothing is looked up: refreshes and removals.
Settled == {s \in Seq(Call) : \A k \in DOMAIN s : s[k].op \in {"refresh", "remove"} /\ s[k].window \in Ids}

\* A step of the thread of p changes its own windows, and what it has to call.
ProcessChanges(p) ==
    \E v \in [Ids -> Window \cup {None}], s \in Seq(Call) :
        /\ windows' = [windows EXCEPT ![p] = v] /\ calls' = [calls EXCEPT ![p] = s]
        /\ s \in Settled \/ (v = windows[p] /\ Ready(p, s))

\* The lists of calls that the operations of a window end in.
LEMMA CallLists ==
    ASSUME NEW i \in Ids, NEW w \in Names \cup {None}
    PROVE  /\ <<>> \in Settled /\ <<Refresh(i, w)>> \in Settled /\ <<Removal(i)>> \in Settled
           /\ <<Refresh(i, w), Removal(i)>> \in Settled
<1> DEFINE a == Refresh(i, w)
           b == Removal(i)
<1>1. /\ a \in Call /\ a.op = "refresh" /\ a.window = i
      /\ b \in Call /\ b.op = "remove" /\ b.window = i
  BY DEF Refresh, Removal, Call
<1> HIDE DEF a, b
<1>2. <<>> \in Settled /\ <<a>> \in Settled /\ <<b>> \in Settled
  BY <1>1 DEF Settled
<1>3. <<a, b>> \in Settled
  BY <1>1 DEF Settled
<1> QED BY <1>2, <1>3 DEF a, b

\* A window of p is changed, made or destroyed.
LEMMA WindowChanges ==
    ASSUME RegistryInvariant, NEW p \in Processes, NEW i \in Ids, NEW x \in Window \cup {None}, NEW s \in Settled,
           windows' = [windows EXCEPT ![p][i] = x], CallBlock(p, s)
    PROVE  ProcessChanges(p)
<1> DEFINE v == [windows[p] EXCEPT ![i] = x]
<1>1. windows \in [Processes -> [Ids -> Window \cup {None}]]
  BY DEF RegistryInvariant, TypeOK
<1>2. v \in [Ids -> Window \cup {None}] /\ windows' = [windows EXCEPT ![p] = v]
  BY <1>1
<1>3. s \in Seq(Call) /\ calls' = [calls EXCEPT ![p] = s]
  BY DEF Settled, CallBlock
<1> QED BY Zenon, <1>2, <1>3 DEF ProcessChanges

\* The windows stay.
LEMMA WindowsStay ==
    ASSUME RegistryInvariant, NEW p \in Processes, windows' = windows,
           NEW s \in Seq(Call), CallBlock(p, s), Ready(p, s)
    PROVE  ProcessChanges(p)
<1>1. windows[p] \in [Ids -> Window \cup {None}] /\ windows' = [windows EXCEPT ![p] = windows[p]]
  BY DEF RegistryInvariant, TypeOK
<1> QED BY Zenon, <1>1 DEF ProcessChanges, CallBlock

\* Refreshes and removals need no number for a window.
LEMMA SettledReady ==
    ASSUME NEW p, NEW s \in Settled PROVE Ready(p, s) /\ s \in Seq(Call)
BY DEF Settled, Ready

\* An open window of p is a window.
LEMMA OpenWindow ==
    ASSUME RegistryInvariant, NEW p \in Processes, NEW i \in Open(p)
    PROVE  /\ i \in Ids /\ windows[p][i] \in Window /\ windows[p][i].workspace \in Names \cup {None}
           /\ \A w \in Names \cup {None} : [windows[p][i] EXCEPT !.workspace = w] \in Window
           /\ [windows[p][i] EXCEPT !.closing = TRUE] \in Window
           /\ [windows[p][i] EXCEPT !.workspace = None, !.closing = TRUE] \in Window
<1>1. i \in Ids /\ windows[p][i] \in Window
  BY DEF Open, RegistryInvariant, TypeOK
<1> QED BY Zenon, <1>1 DEF Window

\* What a step of its thread leaves of the windows and the calls of a process.
LEMMA ProcessStep ==
    ASSUME RegistryInvariant, NEW p \in Processes, ProcessChanges(p)
    PROVE  /\ windows' \in [Processes -> [Ids -> Window \cup {None}]]
           /\ calls' \in [Processes -> Seq(Call)]
           /\ \A q \in Processes \ {p} : calls'[q] = calls[q]
           /\ LookupsAlone'
<1>1. PICK v \in [Ids -> Window \cup {None}], s \in Seq(Call) :
          /\ windows' = [windows EXCEPT ![p] = v] /\ calls' = [calls EXCEPT ![p] = s]
          /\ s \in Settled \/ (v = windows[p] /\ Ready(p, s))
  BY Zenon DEF ProcessChanges
<1>2. windows \in [Processes -> [Ids -> Window \cup {None}]] /\ calls \in [Processes -> Seq(Call)]
  BY DEF RegistryInvariant, TypeOK
<1>3. /\ windows' \in [Processes -> [Ids -> Window \cup {None}]] /\ calls' \in [Processes -> Seq(Call)]
      /\ windows'[p] = v /\ calls'[p] = s
      /\ \A q \in Processes \ {p} : windows'[q] = windows[q] /\ calls'[q] = calls[q]
  BY <1>1, <1>2
<1>4. ASSUME NEW q \in Processes \ {p} PROVE Ready(q, calls[q])'
  <2>1. NewId(q)' = NewId(q) /\ calls'[q] = calls[q] /\ Ready(q, calls[q])
    BY Zenon, <1>3, NewIdStays DEF RegistryInvariant, LookupsAlone
  <2> QED BY Zenon, <2>1 DEF Ready
<1>5. Ready(p, calls[p])'
  <2>1. CASE s \in Settled
    BY <1>3, <2>1 DEF Ready, Settled
  <2>2. CASE v = windows[p] /\ Ready(p, s)
    <3>1. NewId(p)' = NewId(p) /\ calls'[p] = s
      BY Zenon, <1>3, <2>2, NewIdStays
    <3> QED BY Zenon, <2>2, <3>1 DEF Ready
  <2> QED BY <1>1, <2>1, <2>2
<1>6. LookupsAlone'
  BY Zenon, <1>4, <1>5 DEF LookupsAlone
<1> QED BY <1>3, <1>6

-----------------------------------------------------------------------------
\* A window's workspace is set and the block told (SetCurrentWorkspaceId).
LEMMA WorkspaceSet ==
    ASSUME RegistryInvariant, NEW p \in Processes, NEW i \in Open(p), NEW w \in Names \cup {None},
           SetCurrentWorkspaceId(p, i, w)
    PROVE  ProcessChanges(p)
<1> DEFINE s == IF windows[p][i].workspace = w THEN <<>> ELSE <<Refresh(i, w)>>
           x == [windows[p][i] EXCEPT !.workspace = w]
<1>1. i \in Ids /\ x \in Window
  BY Zenon, OpenWindow
<1>2. s \in Settled
  BY Zenon, <1>1, CallLists
<1>3. windows' = [windows EXCEPT ![p][i] = x] /\ CallBlock(p, s)
  BY DEF SetCurrentWorkspaceId
<1> HIDE DEF s, x
<1> QED BY Zenon, <1>1, <1>2, <1>3, WindowChanges

\* What users ask of a window, and what its thread does by itself.
LEMMA CommandChanges ==
    ASSUME RegistryInvariant, NEW p \in Processes, Command(p) \/ Turn(p)
    PROVE  ProcessChanges(p) /\ p \in alive /\ calls[p] = <<>> /\ disk' \subseteq Names
<1>0. disk \subseteq Names
  BY DEF RegistryInvariant, TypeOK
<1>1. ASSUME NewWindow(p) PROVE ProcessChanges(p) /\ disk' = disk /\ Idle(p)
  <2> DEFINE i == NewId(p)
             x == [name |-> None, workspace |-> None, closing |-> FALSE]
  <2>1. i \in Ids
    BY <1>1, NewIdExists, SizesAssumption DEF NewWindow, Ids
  <2>2. x \in Window /\ windows' = [windows EXCEPT ![p][i] = x] /\ CallBlock(p, <<Refresh(i, None)>>)
    BY <1>1 DEF NewWindow, Window
  <2> HIDE DEF i, x
  <2>3. <<Refresh(i, None)>> \in Settled
    BY Zenon, <2>1, CallLists
  <2>4. ProcessChanges(p)
    BY Zenon, <2>1, <2>2, <2>3, WindowChanges
  <2> QED BY Zenon, <1>1, <2>4 DEF NewWindow
<1>2. ASSUME NEW w \in Names, OpenWorkspace(p, w) PROVE ProcessChanges(p) /\ disk' = disk /\ Idle(p)
  <2> DEFINE c == [op |-> "open", window |-> 0, workspace |-> w, exists |-> w \in disk]
  <2>1. windows' = windows /\ CallBlock(p, <<c>>) /\ NewId(p) <= MaxId
    BY <1>2, SizesAssumption DEF OpenWorkspace
  <2>2. c \in Call /\ c.op = "open"
    <3>1. \A y \in BOOLEAN : [op |-> "open", window |-> 0, workspace |-> w, exists |-> y] \in Call
      BY DEF Call
    <3>2. \A y, S : (y \in S) \in BOOLEAN
      OBVIOUS
    <3> QED BY Zenon, <3>1, <3>2
  <2> HIDE DEF c
  <2>3. <<c>> \in Seq(Call) /\ Ready(p, <<c>>)
    BY <2>1, <2>2 DEF Ready
  <2>4. ProcessChanges(p)
    BY Zenon, <2>1, <2>3, WindowsStay
  <2> QED BY Zenon, <1>2, <2>4 DEF OpenWorkspace
<1>3. ASSUME NEW i \in Ids, NEW defs \in SUBSET Names, NEW w \in Names \cup {None},
             SaveWorkspaceEditorState(p, i, defs, w)
      PROVE  ProcessChanges(p) /\ disk' = defs /\ Idle(p)
  BY <1>3, WorkspaceSet DEF SaveWorkspaceEditorState
<1>4. ASSUME NEW i \in Ids, NEW v \in Names, NEW w \in Names, CommitWorkspaceNameEdit(p, i, v, w)
      PROVE  ProcessChanges(p) /\ disk' \subseteq disk \cup {v} /\ Idle(p)
  BY <1>4, WorkspaceSet DEF CommitWorkspaceNameEdit
<1>5. ASSUME NEW i \in Ids, NEW defs \in SUBSET Names, NEW w \in Names, RemoveWorkspaceDefinitionById(p, i, defs, w)
      PROVE  ProcessChanges(p) /\ disk' \subseteq defs /\ Idle(p)
  <2>1. Idle(p) /\ NewId(p) <= MaxId /\ i \in Open(p) /\ disk' \subseteq defs
    BY <1>5 DEF RemoveWorkspaceDefinitionById
  <2>2. CASE windows[p][i].workspace = w
    <3> DEFINE x == [windows[p][i] EXCEPT !.workspace = None, !.closing = TRUE]
               s == <<Refresh(i, None), Removal(i)>>
    <3>1. x \in Window /\ s \in Settled
      BY Zenon, <2>1, OpenWindow, CallLists
    <3>2. windows' = [windows EXCEPT ![p][i] = x] /\ CallBlock(p, s)
      <4>1. windows \in [Processes -> [Ids -> Window \cup {None}]] /\ windows[p][i] \in Window
        BY Zenon, <2>1, OpenWindow DEF RegistryInvariant, TypeOK
      <4>2. /\ windows' = [windows EXCEPT ![p][i].workspace = None, ![p][i].closing = TRUE]
            /\ CallBlock(p, s)
        BY Zenon, <1>5, <2>2 DEF RemoveWorkspaceDefinitionById
      <4> QED BY Zenon, <4>1, <4>2
    <3> HIDE DEF x, s
    <3> QED BY Zenon, <2>1, <3>1, <3>2, WindowChanges
  <2>3. CASE windows[p][i].workspace # w
    <3> DEFINE c == [op |-> "close", window |-> i, workspace |-> w, exists |-> FALSE]
    <3>1. windows' = windows /\ CallBlock(p, <<c>>)
      BY <1>5, <2>3 DEF RemoveWorkspaceDefinitionById
    <3>2. c \in Call /\ c.op = "close" /\ c.window = i
      BY DEF Call
    <3> HIDE DEF c
    <3>3. <<c>> \in Seq(Call) /\ Ready(p, <<c>>)
      BY <2>1, <3>2 DEF Ready
    <3> QED BY Zenon, <2>1, <3>1, <3>3, WindowsStay
  <2> QED BY <2>2, <2>3
<1>6. ASSUME NEW i \in Ids, CloseRequested(p, i) PROVE ProcessChanges(p) /\ disk' = disk /\ Idle(p)
  <2>1. Idle(p) /\ i \in Open(p) /\ disk' = disk /\ CallBlock(p, <<Removal(i)>>)
        /\ windows' = [windows EXCEPT ![p][i] = [windows[p][i] EXCEPT !.closing = TRUE]]
    BY <1>6 DEF CloseRequested
  <2>2. [windows[p][i] EXCEPT !.closing = TRUE] \in Window /\ <<Removal(i)>> \in Settled
    BY Zenon, <2>1, OpenWindow, CallLists
  <2> QED BY Zenon, <2>1, <2>2, WindowChanges
<1>7. ASSUME NEW i \in Ids, RefreshWorkspaceWindowState(p, i) PROVE ProcessChanges(p) /\ disk' = disk /\ Idle(p)
  <2> DEFINE s == <<Refresh(i, windows[p][i].workspace)>>
  <2>1. Idle(p) /\ i \in Open(p) /\ disk' = disk /\ windows' = windows /\ CallBlock(p, s)
    BY Zenon, <1>7 DEF RefreshWorkspaceWindowState
  <2>2. s \in Settled
    BY Zenon, <2>1, OpenWindow, CallLists
  <2> HIDE DEF s
  <2> QED BY <2>1, <2>2, SettledReady, WindowsStay
<1>8. ASSUME NEW i \in Ids, Destroy(p, i) PROVE ProcessChanges(p) /\ disk' = disk /\ Idle(p)
  <2>1. Idle(p) /\ disk' = disk /\ CallBlock(p, <<Removal(i)>>) /\ windows' = [windows EXCEPT ![p][i] = None]
    BY <1>8 DEF Destroy
  <2>2. <<Removal(i)>> \in Settled
    BY Zenon, CallLists
  <2> QED BY Zenon, <2>1, <2>2, WindowChanges
<1> QED BY <1>0, <1>1, <1>2, <1>3, <1>4, <1>5, <1>6, <1>7, <1>8 DEF Command, Turn, Idle

\* What follows a call, whatever it found in the block: the rest of the calls,
\* or the window that a lookup makes or closes.
LEMMA ReturnChanges ==
    ASSUME RegistryInvariant, NEW p \in Processes, calls[p] # <<>>, NEW found, Return(p, found)
    PROVE  ProcessChanges(p)
<1> DEFINE c == Head(calls[p])
<1>1. /\ c \in Call /\ Tail(calls[p]) \in Seq(Call)
      /\ c.op # "open" => c.window \in Ids
      /\ c.op \in {"open", "close"} => Tail(calls[p]) = <<>> /\ NewId(p) <= MaxId
      /\ \A k \in DOMAIN Tail(calls[p]) : k + 1 \in DOMAIN calls[p] /\ Tail(calls[p])[k] = calls[p][k + 1]
  BY FirstCall
<1>2. ASSUME c.op \in {"open", "close"} PROVE NewId(p) \in Ids
  BY <1>1, <1>2, NewIdExists, SizesAssumption DEF Ids
<1>3. ASSUME windows' = windows, CallBlock(p, Tail(calls[p])) PROVE ProcessChanges(p)
  <2> DEFINE t == Tail(calls[p])
  <2>1. calls[p] \in Seq(Call) /\ Ready(p, calls[p])
    BY DEF RegistryInvariant, TypeOK, LookupsAlone
  <2>2. CASE \E k \in DOMAIN calls[p] : calls[p][k].op \in {"open", "close"}
    <3>1. Len(calls[p]) = 1
      BY <2>1, <2>2 DEF Ready
    <3>2. \A s \in Seq(Call) : Len(s) = 1 => Len(Tail(s)) = 0
      OBVIOUS
    <3>3. t \in Seq(Call) /\ Len(t) = 0
      BY Zenon, <1>1, <2>1, <3>1, <3>2
    <3> HIDE DEF t
    <3>4. Ready(p, t)
      BY <3>3 DEF Ready
    <3> QED BY Zenon, <1>3, <3>3, <3>4, WindowsStay DEF t
  <2>3. CASE \A k \in DOMAIN calls[p] : calls[p][k].op \notin {"open", "close"}
    <3>1. t \in Seq(Call) /\ \A k \in DOMAIN t : \E j \in DOMAIN calls[p] : t[k] = calls[p][j]
      BY <1>1
    <3> HIDE DEF t
    <3>2. Ready(p, t)
      BY Zenon, <2>1, <2>3, <3>1 DEF Ready
    <3> QED BY Zenon, <1>3, <3>1, <3>2, WindowsStay DEF t
  <2> QED BY <2>2, <2>3
<1>4. CASE c.op = "open"
  <2> DEFINE x == [name |-> c.workspace, workspace |-> c.workspace, closing |-> FALSE]
             s == <<Refresh(NewId(p), c.workspace)>>
  <2>1. Opened(p, found)
    BY <1>4 DEF Return
  <2>2. \/ CallBlock(p, Tail(calls[p])) /\ windows' = windows
        \/ windows' = [windows EXCEPT ![p][NewId(p)] = x] /\ CallBlock(p, s)
    BY Zenon, <2>1 DEF Opened
  <2>3. x \in Window /\ s \in Settled
    <3>1. c.workspace \in Names \cup {None}
      BY <1>1 DEF Call
    <3> QED BY Zenon, <1>2, <1>4, <3>1, CallLists DEF Window
  <2> HIDE DEF x, s
  <2>4. CASE windows' = [windows EXCEPT ![p][NewId(p)] = x] /\ CallBlock(p, s)
    BY Zenon, <1>2, <1>4, <2>3, <2>4, WindowChanges
  <2> QED BY <1>3, <2>2, <2>4
<1>5. CASE c.op = "close"
  <2> DEFINE target == IF found \in Open(p) THEN found ELSE NewId(p)
             x == IF found \in Open(p) THEN [windows[p][found] EXCEPT !.closing = TRUE]
                  ELSE [name |-> None, workspace |-> None, closing |-> TRUE]
             s == <<Refresh(target, x.workspace), Removal(target)>>
  <2>1. CloseSent(p, found)
    BY <1>5 DEF Return
  <2>2. \/ CallBlock(p, <<>>) /\ windows' = windows
        \/ windows' = [windows EXCEPT ![p][target] = x] /\ CallBlock(p, s)
    BY Zenon, <2>1 DEF CloseSent
  <2>3. target \in Ids /\ x \in Window
    <3>1. CASE found \in Open(p)
      BY Zenon, <3>1, OpenWindow
    <3>2. CASE found \notin Open(p)
      BY <1>2, <1>5, <3>2 DEF Window
    <3> QED BY <3>1, <3>2
  <2> HIDE DEF target, x
  <2>4. x.workspace \in Names \cup {None}
    BY <2>3 DEF Window
  <2>5. s \in Settled /\ <<>> \in Settled
    BY Zenon, <2>3, <2>4, CallLists
  <2> HIDE DEF s
  <2>6. CASE CallBlock(p, <<>>) /\ windows' = windows
    BY <2>5, <2>6, SettledReady, WindowsStay
  <2>7. CASE windows' = [windows EXCEPT ![p][target] = x] /\ CallBlock(p, s)
    BY Zenon, <2>3, <2>5, <2>7, WindowChanges
  <2> QED BY <2>2, <2>6, <2>7
<1>6. CASE c.op \notin {"open", "close"}
  BY <1>3, <1>6 DEF Return
<1> QED BY <1>4, <1>5, <1>6

\* Only a running process makes calls, and the holder is not the one that acts.
LEMMA TypeFrom ==
    ASSUME RegistryInvariant, GoodBlock', disk' \subseteq Names, now' \in Nat, tick' \in 0..now',
           faults' \in Nat, turns' \in Nat, alive' \subseteq Processes, LookupsAlone',
           windows' \in [Processes -> [Ids -> Window \cup {None}]], calls' \in [Processes -> Seq(Call)],
           holder' \in alive' \cup {None}, holder' # None => calls'[holder'] # <<>>
    PROVE  RegistryInvariant'
BY DEF RegistryInvariant, TypeOK, GoodBlock, UniqueRecords, OneEach

\* Every step keeps the invariant.
LEMMA StepRegistry ==
    ASSUME RegistryInvariant, [Next]_vars
    PROVE  RegistryInvariant'
<1>0. /\ GoodBlock' /\ disk \subseteq Names /\ now \in Nat /\ tick \in 0..now /\ faults \in Nat /\ turns \in Nat
      /\ alive \subseteq Processes /\ holder \in alive \cup {None} /\ (holder # None => calls[holder] # <<>>)
      /\ windows \in [Processes -> [Ids -> Window \cup {None}]] /\ calls \in [Processes -> Seq(Call)]
      /\ LookupsAlone /\ None \notin Processes
  BY StepBlock, NoneAssumption DEF RegistryInvariant, TypeOK
<1>1. ASSUME NEW p \in Processes, Command(p) \/ Turn(p) PROVE RegistryInvariant'
  <2>1. ProcessChanges(p) /\ p \in alive /\ calls[p] = <<>> /\ disk' \subseteq Names
    BY <1>1, CommandChanges
  <2>2. UNCHANGED <<holder, tick, now, alive, faults>>
    BY Zenon, <1>1 DEF Command, Turn, NewWindow, OpenWorkspace, SaveWorkspaceEditorState, CommitWorkspaceNameEdit,
       RemoveWorkspaceDefinitionById, CloseRequested, RefreshWorkspaceWindowState, Destroy
  <2>3. turns' \in Nat
    BY <1>0, <1>1 DEF Command, Turn
  <2>4. /\ windows' \in [Processes -> [Ids -> Window \cup {None}]] /\ calls' \in [Processes -> Seq(Call)]
        /\ \A q \in Processes \ {p} : calls'[q] = calls[q]
        /\ LookupsAlone'
    BY <2>1, ProcessStep
  <2> QED BY <1>0, <2>1, <2>2, <2>3, <2>4, TypeFrom
<1>2. ASSUME NEW p \in Processes, Acquire(p), turns' = turns PROVE RegistryInvariant'
  <2>1. /\ p \in alive /\ calls[p] # <<>> /\ holder' = p /\ tick' = now
        /\ UNCHANGED <<disk, now, alive, windows, calls, faults>>
    BY <1>2 DEF Acquire
  <2>2. LookupsAlone'
    BY Zenon, <1>0, <2>1 DEF LookupsAlone, Ready, NewId, Open
  <2> QED BY <1>0, <1>2, <2>1, <2>2, TypeFrom
<1>3. ASSUME NEW p \in Processes, Finish(p) \/ GiveUp(p), turns' = turns PROVE RegistryInvariant'
  <2>1. /\ calls[p] # <<>> /\ UNCHANGED <<disk, now, alive>> /\ faults' \in Nat
        /\ \/ holder' = None /\ tick' = 0
           \/ holder # p /\ UNCHANGED <<holder, tick>>
    BY <1>0, <1>3 DEF Finish, GiveUp
  <2>2. \E found : Return(p, found)
    BY Zenon, <1>3 DEF Finish, GiveUp
  <2>3. /\ windows' \in [Processes -> [Ids -> Window \cup {None}]] /\ calls' \in [Processes -> Seq(Call)]
        /\ \A q \in Processes \ {p} : calls'[q] = calls[q]
        /\ LookupsAlone'
    BY Zenon, <2>1, <2>2, ReturnChanges, ProcessStep
  <2> QED BY <1>0, <1>3, <2>1, <2>3, TypeFrom
<1>4. ASSUME NEW p \in Processes, Crash(p), turns' = turns PROVE RegistryInvariant'
  <2> DEFINE v == [i \in Ids |-> None]
  <2>1. /\ UNCHANGED <<disk, now>> /\ faults' \in Nat /\ alive' = alive \ {p}
        /\ windows' = [windows EXCEPT ![p] = v] /\ calls' = [calls EXCEPT ![p] = <<>>]
        /\ \/ holder = p /\ holder' = None /\ tick' = 0
           \/ holder # p /\ UNCHANGED <<holder, tick>>
    BY <1>0, <1>4 DEF Crash
  <2>2. v \in [Ids -> Window \cup {None}] /\ <<>> \in Seq(Call) /\ <<>> \in Settled
    BY DEF Settled
  <2> HIDE DEF v
  <2>3. ProcessChanges(p)
    BY Zenon, <2>1, <2>2 DEF ProcessChanges
  <2>4. /\ windows' \in [Processes -> [Ids -> Window \cup {None}]] /\ calls' \in [Processes -> Seq(Call)]
        /\ \A q \in Processes \ {p} : calls'[q] = calls[q]
        /\ LookupsAlone'
    BY <2>3, ProcessStep
  <2> QED BY <1>0, <1>4, <2>1, <2>4, TypeFrom
<1>5. ASSUME Tick \/ (\E p \in Processes : Start(p)), turns' = turns PROVE RegistryInvariant'
  <2>1. /\ UNCHANGED <<disk, holder, tick, windows, calls, faults>> /\ now' \in Nat /\ tick' \in 0..now'
        /\ alive' \subseteq Processes /\ alive \subseteq alive'
    BY <1>0, <1>5 DEF Tick, Start
  <2>2. LookupsAlone'
    BY Zenon, <1>0, <2>1 DEF LookupsAlone, Ready, NewId, Open
  <2> QED BY <1>0, <1>5, <2>1, <2>2, TypeFrom
<1>6. ASSUME UNCHANGED vars PROVE RegistryInvariant'
  <2>1. LookupsAlone'
    BY Zenon, <1>0, <1>6 DEF LookupsAlone, Ready, NewId, Open, vars
  <2> QED BY <1>0, <1>6, <2>1, TypeFrom DEF vars
<1> QED BY <1>1, <1>2, <1>3, <1>4, <1>5, <1>6 DEF Next, CallStep, Environment

-----------------------------------------------------------------------------
\* The invariant of the registry (_withRuntimeWorkspaceStateBlock and its callers)
\* holds throughout, for any number of processes, windows and records, with
\* processes killed at any point.
THEOREM RegistryCorrect == Spec => []RegistryInvariant
<1>1. Init => RegistryInvariant
  <2> SUFFICES ASSUME Init PROVE RegistryInvariant
    OBVIOUS
  <2>1. /\ block = <<>> /\ holder = None /\ tick = 0 /\ now = 0 /\ disk = Names /\ alive = Processes
        /\ faults = 0 /\ turns = 0
        /\ windows \in [Processes -> [Ids -> Window \cup {None}]]
        /\ calls = [p \in Processes |-> <<>>] /\ \A p \in Processes : calls[p] = <<>>
    BY DEF Init
  <2>2. TypeOK
    BY <2>1, SizesAssumption DEF TypeOK
  <2>3. UniqueRecords
    BY <2>1 DEF UniqueRecords
  <2>4. LookupsAlone
    BY <2>1 DEF LookupsAlone, Ready
  <2> QED BY <2>2, <2>3, <2>4 DEF RegistryInvariant
<1>2. RegistryInvariant /\ [Next]_vars => RegistryInvariant'
  BY StepRegistry
<1> QED BY <1>1, <1>2, PTL DEF Spec

\* Types; only a running process that has a call to make holds the mutex.
THEOREM RegistryTypeCorrect == Spec => []TypeOK
<1>1. RegistryInvariant => TypeOK
  BY DEF RegistryInvariant
<1> QED BY <1>1, RegistryCorrect, PTL

\* The shared block never holds two records of one window id (UpsertWindow),
\* also after a process was killed while it rewrote the block.
THEOREM RecordsUnique == Spec => []UniqueRecords
<1>1. RegistryInvariant => UniqueRecords
  BY DEF RegistryInvariant
<1> QED BY <1>1, RegistryCorrect, PTL

\* A lookup of an open workspace window is the only pending call of its process.
THEOREM LookupsCorrect == Spec => []LookupsAlone
<1>1. RegistryInvariant => LookupsAlone
  BY DEF RegistryInvariant
<1> QED BY <1>1, RegistryCorrect, PTL

\* A record appears or is seen again only while its own process refreshes that
\* window (_saveRuntimeWorkspaceStateManagerToBlock).
THEOREM OwnersVouch == Spec => OnlyOwnerVouches
<1>1. RegistryInvariant /\ [Next]_vars => Vouched
  BY StepBlock
<1> QED BY <1>1, RegistryCorrect, PTL DEF Spec, OnlyOwnerVouches, Vouched

\* Unless a process is killed, a live record is dropped only by a call about its
\* window (RemoveWindow, UpsertWindow, _saveRuntimeWorkspaceStateManagerToBlock).
THEOREM OthersKept == Spec => KeepsOtherWindows
<1>1. RegistryInvariant /\ [Next]_vars => Kept
  BY StepBlock
<1> QED BY <1>1, RegistryCorrect, PTL DEF Spec, KeepsOtherWindows, Kept

==============================================================================
