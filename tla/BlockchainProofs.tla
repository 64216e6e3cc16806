--------------------------- MODULE BlockchainProofs ---------------------------
(***************************************************************************)
(* Proofs about BlockchainNode, for any nodes, requests and faults.        *)
(*                                                                         *)
(* The inductive invariant, BlockchainInv, rests on who acts: without a    *)
(* restart only the highest node that is up leads, handles commands, mines *)
(* or sends blocks (Rulers), although nodes below it may be told of, and   *)
(* follow, one that is gone. Chains and tables are linked as long as every *)
(* block is saved (Links, Stored), so that a received block and the chain  *)
(* it follows are a beginning of the sender's chain. Without a crash all   *)
(* chains are beginnings of the ruler's (Agreement).                       *)
(*                                                                         *)
(* That a command is in a node's books once (Counted) needs to know where  *)
(* else it is. Without a lost connection it is in one place at a time, the *)
(* queue, a handler or what its node holds (OnePlace); without a restart   *)
(* the one node that acts looks before it adds, if it has one consumer     *)
(* (Single). What is accepted is in the books (Kept), since mining moves   *)
(* the pool into the chain as it is, and what is checked against a balance *)
(* still is when it is added (Funds).                                      *)
(***************************************************************************)
EXTENDS BlockchainNode, SequenceTheorems, FoldTheorems

-----------------------------------------------------------------------------
(* The inductive invariant, part by part. *)

Tx == Range(Requests)

\* What is in a chain or in a table: blocks of ascending index.
Ascending(c) == \A i, j \in DOMAIN c : i < j => c[i].index < c[j].index
Blocks(c) ==
  /\ c \in Seq(Range(c)) /\ c # <<>>
  /\ \A i \in DOMAIN c : c[i].index \in Nat /\ c[i].txs \in Seq(Tx)
  /\ Ascending(c)

Jobs == {Idle} \cup [at : {"funds", "add", "tell", "ack"}, tx : Commands, owned : BOOLEAN]
Busy(h) == job[h] # Idle
OnNodes(f) == f = [n \in Nodes |-> f[n]]

Shape ==
  /\ up \subseteq Nodes /\ due \subseteq up
  /\ leader \in [Nodes -> Nodes \cup {NoLeader}]
  /\ beat \in [Nodes -> Nodes \cup {NoLeader}]
  /\ telling \in [Nodes -> SUBSET Nodes] /\ \A n \in Nodes : n \notin telling[n]
  /\ mining \in [Nodes -> Nat] /\ requested \in 0..Len(Requests)
  /\ queue \in Seq(Commands) /\ unanswered \subseteq Commands
  /\ consuming \subseteq Handlers /\ \A h \in consuming : h[1] \in up
  /\ consumer \in [Nodes -> {NoConsumer} \cup Consumers]
  /\ \A n \in Nodes : consumer[n] # NoConsumer => <<n, consumer[n]>> \in consuming
  /\ job \in [Handlers -> Jobs] /\ \A h \in Handlers : Busy(h) => h \in consuming
  /\ pool \in [Nodes -> Seq(Tx)]
  /\ answered \subseteq [tx : Commands, by : Nodes, accepted : BOOLEAN]
  /\ faults \in [FaultKinds -> Nat]
  /\ \A n \in Nodes \ up : chain[n] = <<>> /\ pool[n] = <<>> /\ mining[n] = 0 /\ beat[n] = NoLeader
  /\ \A s \in sending :
       /\ s = [from |-> s.from, block |-> s.block, todo |-> s.todo]
       /\ s.from \in up /\ s.todo \subseteq Nodes \ {s.from} /\ s.todo # {}
       /\ s.block.index \in Nat /\ s.block.txs \in Seq(Tx)

\* A table has no block its node does not know.
Tables ==
  /\ OnNodes(chain) /\ OnNodes(rows)
  /\ \A n \in Nodes : Blocks(rows[n])
  /\ \A n \in up : Blocks(chain[n]) /\ Last(rows[n]).index <= Last(chain[n]).index

\* Without a restart, only the highest node that runs leads, handles and mines.
Ruler(n) == n \in up /\ Higher(n) \cap up = {}
Acts(n) ==
  \/ leader[n] = n \/ telling[n] # {} \/ mining[n] > 0
  \/ \E h \in consuming : h[1] = n
  \/ \E s \in sending : s.from = n
  \/ n \in up /\ \E a \in answered : a.by = n
Rulers == Never("restart") => \A n \in Nodes : Acts(n) => Ruler(n)

\* Without an overlap, a node has one consumer.
Single == Never("overlap") => \A g, h \in consuming : g[1] = h[1] => g = h

\* Chains are linked, and what is sent is in the sender's.
Whole == Never("save") \/ Never("restart")
Links ==
  Whole => /\ \A n \in up : IsValid(chain[n])
           /\ \A s \in sending :
                /\ s.block.index + 1 \in DOMAIN chain[s.from]
                /\ chain[s.from][s.block.index + 1] = s.block
Stored ==
  Never("save") => \A n \in Nodes : IsValid(rows[n]) /\ (n \in up => rows[n] = chain[n])

\* Without a crash, the highest node has the longest chain.
Within(c, d) == Len(c) <= Len(d) /\ \A i \in DOMAIN c : c[i] = d[i]
Agreement ==
  Never("crash") =>
    /\ up = Nodes /\ Never("restart")
    /\ \A n \in up : Ruler(n) => \A p \in up : Within(chain[p], chain[n])
    /\ \A m, n \in up : Within(chain[m], chain[n]) \/ Within(chain[n], chain[m])

InChain(c, tx) == \E i \in DOMAIN c : tx \in Range(c[i].txs)
InBooks(n, tx) == InChain(chain[n], tx) \/ tx \in Range(pool[n])

Kept ==
  Never("restart") =>
    /\ \A a \in answered : a.accepted /\ a.by \in up => InBooks(a.by, a.tx)
    /\ \A h \in Handlers : At(h, "tell") => InBooks(h[1], job[h].tx)

\* A command is once in a chain, by block and position, once in a pool, not in
\* both, and not in the books of a handler that is about to add it.
OnceChain(c) ==
  \A i, k \in DOMAIN c : \A j \in DOMAIN c[i].txs, l \in DOMAIN c[k].txs :
    c[i].txs[j] \in Commands /\ c[i].txs[j] = c[k].txs[l] => i = k /\ j = l
OncePool(q) == \A j, l \in DOMAIN q : q[j] \in Commands /\ q[j] = q[l] => j = l
AboutToAdd(h) == At(h, "funds") \/ At(h, "add")
Counting == Never("save") /\ (Never("loss") \/ (Never("restart") /\ Never("overlap")))
Counted ==
  Counting =>
    /\ \A n \in Nodes :
         /\ OnceChain(rows[n]) /\ OncePool(pool[n])
         /\ \A tx \in Commands : tx \in Range(pool[n]) => ~InChain(chain[n], tx)
    /\ \A h \in Handlers : AboutToAdd(h) => ~InBooks(h[1], job[h].tx)

\* Without a lost connection, a command is in one place: not sent yet, in the
\* queue, with one handler, or at a node that has handled it.
Handling(h, tx) == Busy(h) /\ job[h].tx = tx
Holds(n, tx) ==
  tx \in Range(pool[n]) \/ \E s \in sending : s.from = n /\ tx \in Range(s.block.txs)
Apart ==
  /\ \A i, j \in DOMAIN queue : queue[i] = queue[j] => i = j
  /\ \A h \in Handlers, tx \in Commands :
       Handling(h, tx) => tx \notin Range(queue) /\ \A g \in Handlers : Handling(g, tx) => g = h
  /\ \A n \in Nodes, tx \in Commands :
       Holds(n, tx) => /\ tx \notin Range(queue)
                       /\ \A h \in Handlers : Handling(h, tx) => h[1] = n /\ ~AboutToAdd(h)
  /\ \A i \in requested + 1..Len(Requests) :
       /\ Requests[i] \notin Range(queue)
       /\ Requests[i] \in Commands =>
            /\ \A h \in Handlers : ~Handling(h, Requests[i])
            /\ \A n \in Nodes : ~Holds(n, Requests[i])
OnePlace == Never("loss") => Apart /\ \A h \in Handlers : Busy(h) => job[h].owned

\* No account is below zero in a node's books, nor at any block of its chain.
LegacyCredits == \A tx \in Tx : tx.id = "" => tx.sender = "" /\ tx.amount >= 0
UpTo(c, k) == FlattenSeq([i \in 1..k |-> c[i].txs])
Positive ==
  /\ \A tx \in Range(queue) : tx.amount > 0
  /\ \A h \in Handlers : Busy(h) => job[h].tx.amount > 0
Funds ==
  LegacyCredits /\ Never("save") /\ Never("restart") /\ Never("overlap") =>
    /\ \A n \in up, a \in Accounts :
         /\ \A k \in DOMAIN chain[n] : Balance(UpTo(chain[n], k), a) >= 0
         /\ GetBalance(n, a) >= 0
    /\ \A h \in Handlers :
         At(h, "add") /\ job[h].tx.sender # "" => GetBalance(h[1], job[h].tx.sender) >= job[h].tx.amount

-----------------------------------------------------------------------------
(***************************************************************************)
(* Chains.                                                                 *)
(***************************************************************************)

\* The last block of a chain has its highest index.
LEMMA LastOf ==
  ASSUME NEW c, Blocks(c)
  PROVE  /\ Len(c) \in Nat /\ Len(c) >= 1 /\ DOMAIN c = 1..Len(c)
         /\ Last(c) = c[Len(c)] /\ Last(c).index \in Nat
         /\ \A i \in DOMAIN c : c[i].index <= Last(c).index
<1>1. c \in Seq(Range(c)) /\ c # <<>>
  BY DEF Blocks
<1>2. Len(c) \in Nat /\ DOMAIN c = 1..Len(c)
  BY <1>1
<1>3. Len(c) >= 1
  BY <1>1, <1>2
<1>4. Last(c) = c[Len(c)]
  BY DEF Last
<1>5. \A i \in DOMAIN c : c[i].index \in Nat /\ (i < Len(c) => c[i].index < c[Len(c)].index)
  BY <1>2, <1>3 DEF Blocks, Ascending
<1>6. ASSUME NEW i \in DOMAIN c PROVE c[i].index <= Last(c).index
  <2>1. CASE i = Len(c)
    BY <1>4, <1>5, <2>1
  <2>2. CASE i < Len(c)
    BY <1>2, <1>3, <1>4, <1>5, <2>2
  <2> QED BY <1>2, <2>1, <2>2
<1> QED BY <1>2, <1>3, <1>4, <1>5, <1>6

\* A block is appended to what has only lower ones.
LEMMA AppendIs ==
  ASSUME NEW c, NEW b, c \in Seq(Range(c))
  PROVE  /\ Append(c, b) \in Seq(Range(Append(c, b)))
         /\ Len(Append(c, b)) = Len(c) + 1 /\ DOMAIN Append(c, b) = 1..(Len(c) + 1)
         /\ DOMAIN c = 1..Len(c) /\ Len(c) \in Nat
         /\ Append(c, b)[Len(c) + 1] = b /\ \A i \in 1..Len(c) : Append(c, b)[i] = c[i]
<1> DEFINE S == Range(c) \cup {b}
           d == Append(c, b)
<1>1. c \in Seq(S)
  BY SeqMonotonic
<1>2. d \in Seq(S) /\ Len(d) = Len(c) + 1
  BY <1>1
<1>3. DOMAIN d = 1..(Len(c) + 1) /\ DOMAIN c = 1..Len(c) /\ Len(c) \in Nat
  BY <1>1, <1>2
<1>4. d[Len(c) + 1] = b /\ \A i \in 1..Len(c) : d[i] = c[i]
  BY <1>1
<1>5. d \in Seq(Range(d))
  BY <1>2, SeqOfRange
<1> QED BY <1>2, <1>3, <1>4, <1>5

\* A chain grows by a block above its last one.
LEMMA BlocksAppend ==
  ASSUME NEW c, NEW b, Blocks(c), b.index \in Nat, b.txs \in Seq(Tx), Last(c).index < b.index
  PROVE  Blocks(Append(c, b)) /\ Last(Append(c, b)) = b
<1> DEFINE d == Append(c, b)
<1>1. /\ Len(c) \in Nat /\ Len(c) >= 1 /\ DOMAIN c = 1..Len(c)
      /\ \A i \in DOMAIN c : c[i].index <= Last(c).index /\ c[i].index \in Nat
      /\ Last(c).index \in Nat
  BY LastOf DEF Blocks
<1>2. /\ d \in Seq(Range(d)) /\ Len(d) = Len(c) + 1 /\ DOMAIN d = 1..(Len(c) + 1)
      /\ d[Len(c) + 1] = b /\ \A i \in 1..Len(c) : d[i] = c[i]
  BY AppendIs DEF Blocks
<1>3. d # <<>>
  BY <1>1, <1>2
<1> HIDE DEF d
<1>4. \A i \in DOMAIN d : d[i].index \in Nat /\ d[i].txs \in Seq(Tx)
  <2> SUFFICES ASSUME NEW i \in DOMAIN d PROVE d[i].index \in Nat /\ d[i].txs \in Seq(Tx)
    OBVIOUS
  <2>1. CASE i = Len(c) + 1
    BY <1>2, <2>1
  <2>2. CASE i \in 1..Len(c)
    BY <1>1, <1>2, <2>2 DEF Blocks
  <2> QED BY <1>1, <1>2, <2>1, <2>2
<1>5. Ascending(d)
  <2> SUFFICES ASSUME NEW i \in DOMAIN d, NEW j \in DOMAIN d, i < j
               PROVE  d[i].index < d[j].index
    BY DEF Ascending
  <2>1. i \in 1..Len(c)
    BY <1>1, <1>2
  <2>2. CASE j = Len(c) + 1
    BY <1>1, <1>2, <2>1, <2>2
  <2>3. CASE j \in 1..Len(c)
    BY <1>1, <1>2, <2>1, <2>3 DEF Blocks, Ascending
  <2> QED BY <1>1, <1>2, <2>2, <2>3
<1>6. Last(d) = b
  BY <1>2 DEF Last
<1> QED BY <1>2, <1>3, <1>4, <1>5, <1>6 DEF Blocks, d

\* A chain that is linked numbers its blocks from 0.
LEMMA LinkedLast ==
  ASSUME NEW c, Blocks(c), IsValid(c)
  PROVE  Last(c).index = Len(c) - 1
BY LastOf DEF IsValid

\* A linked chain grows by the block that links to its last one.
LEMMA ValidAppend ==
  ASSUME NEW c, NEW b, Blocks(c), IsValid(c), b.index = Last(c).index + 1, b.prev = Last(c)
  PROVE  /\ IsValid(Append(c, b)) /\ b.index + 1 = Len(c) + 1
<1> DEFINE d == Append(c, b)
<1>1. /\ Len(c) \in Nat /\ Len(c) >= 1 /\ DOMAIN c = 1..Len(c)
      /\ Last(c) = c[Len(c)] /\ Last(c).index = Len(c) - 1
  BY LastOf, LinkedLast
<1>2. /\ DOMAIN d = 1..(Len(c) + 1)
      /\ d[Len(c) + 1] = b /\ \A i \in 1..Len(c) : d[i] = c[i]
  BY AppendIs DEF Blocks
<1> HIDE DEF d
<1>3. ASSUME NEW i \in DOMAIN d PROVE d[i].index = i - 1 /\ (i > 1 => d[i].prev = d[i - 1])
  <2>1. CASE i = Len(c) + 1
    BY <1>1, <1>2, <2>1
  <2>2. CASE i \in 1..Len(c)
    <3>1. c[i].index = i - 1 /\ (i > 1 => c[i].prev = c[i - 1])
      BY <1>1, <2>2 DEF IsValid
    <3>2. i > 1 => i - 1 \in 1..Len(c)
      BY <1>1, <2>2
    <3> QED BY <1>2, <2>2, <3>1, <3>2
  <2> QED BY <1>1, <1>2, <2>1, <2>2
<1>4. IsValid(d)
  BY <1>3 DEF IsValid
<1> QED BY <1>1, <1>4 DEF d

\* Two linked chains that have a block in common are the same up to it.
LEMMA SameBefore ==
  ASSUME NEW c, NEW d, Blocks(c), Blocks(d), IsValid(c), IsValid(d),
         NEW k \in DOMAIN c, k \in DOMAIN d, c[k] = d[k]
  PROVE  \A i \in 1..k : c[i] = d[i]
<1>1. DOMAIN c = 1..Len(c) /\ DOMAIN d = 1..Len(d) /\ Len(c) \in Nat /\ Len(d) \in Nat
  BY LastOf
<1> DEFINE B == {m \in 0..(k - 1) : c[k - m] # d[k - m]}
<1>2. B = {}
  <2> SUFFICES ASSUME B # {} PROVE FALSE
    OBVIOUS
  <2>1. B \in SUBSET Nat
    BY <1>1
  <2>2. PICK m \in B : \A n \in B : ~(n < m)
    <3> HIDE DEF B
    <3> QED BY <2>1, LeastOfNat
  <2>3. m \in 0..(k - 1) /\ c[k - m] # d[k - m] /\ m # 0
    BY <1>1
  <2>4. c[k - (m - 1)] = d[k - (m - 1)]
    BY <1>1, <2>2, <2>3
  <2>5. PICK i \in 2..k : i = k - (m - 1) /\ i - 1 = k - m
    BY <1>1, <2>3
  <2>6. i \in DOMAIN c /\ i \in DOMAIN d /\ i > 1
    BY <1>1
  <2>7. c[i].prev = c[i - 1] /\ d[i].prev = d[i - 1]
    BY <2>6 DEF IsValid
  <2> QED BY <2>3, <2>4, <2>5, <2>7
<1>3. ASSUME NEW i \in 1..k PROVE c[i] = d[i]
  <2>1. k - i \in 0..(k - 1) /\ k - (k - i) = i
    BY <1>1
  <2> QED BY <1>2, <2>1
<1> QED BY <1>3

\* A block that follows a chain and is in another one: so is the chain.
LEMMA FollowsWithin ==
  ASSUME NEW c, NEW d, NEW b, Blocks(c), Blocks(d), IsValid(c), IsValid(d),
         b.index = Last(c).index + 1, b.prev = Last(c),
         b.index + 1 \in DOMAIN d, d[b.index + 1] = b
  PROVE  Within(Append(c, b), d)
<1>1. /\ Len(c) \in Nat /\ Len(c) >= 1 /\ DOMAIN c = 1..Len(c) /\ Last(c) = c[Len(c)]
      /\ DOMAIN d = 1..Len(d) /\ Len(d) \in Nat
      /\ b.index = Len(c)
  BY LastOf, LinkedLast
<1>2. d[Len(c) + 1] = b /\ Len(c) + 1 \in DOMAIN d /\ Len(c) \in DOMAIN d
  BY <1>1
<1>3. d[Len(c) + 1].prev = d[Len(c) + 1 - 1]
  BY <1>1, <1>2 DEF IsValid
<1>4. c[Len(c)] = d[Len(c)]
  BY <1>1, <1>2, <1>3
<1>5. \A i \in 1..Len(c) : c[i] = d[i]
  BY <1>1, <1>2, <1>4, SameBefore
<1>6. /\ Len(Append(c, b)) = Len(c) + 1 /\ DOMAIN Append(c, b) = 1..(Len(c) + 1)
      /\ Append(c, b)[Len(c) + 1] = b /\ \A i \in 1..Len(c) : Append(c, b)[i] = c[i]
  BY AppendIs DEF Blocks
<1> QED BY <1>1, <1>2, <1>5, <1>6 DEF Within

LEMMA WithinAppend ==
  ASSUME NEW c, NEW d, NEW b, Blocks(c), Blocks(d), Within(c, d)
  PROVE  Within(c, Append(d, b))
<1>1. /\ Len(c) \in Nat /\ DOMAIN c = 1..Len(c) /\ DOMAIN d = 1..Len(d) /\ Len(d) \in Nat
  BY LastOf
<1>2. /\ Len(Append(d, b)) = Len(d) + 1 /\ \A i \in 1..Len(d) : Append(d, b)[i] = d[i]
  BY AppendIs DEF Blocks
<1> QED BY <1>1, <1>2 DEF Within

LEMMA WithinSame ==
  ASSUME NEW c, NEW d, NEW e, Blocks(c), Blocks(d), Blocks(e), Within(c, e), Within(d, e)
  PROVE  Within(c, d) \/ Within(d, c)
<1>1. /\ Len(c) \in Nat /\ DOMAIN c = 1..Len(c) /\ DOMAIN d = 1..Len(d) /\ Len(d) \in Nat
  BY LastOf
<1>2. CASE Len(c) <= Len(d)
  BY <1>1, <1>2 DEF Within
<1>3. CASE Len(d) <= Len(c)
  BY <1>1, <1>3 DEF Within
<1> QED BY <1>1, <1>2, <1>3

LEMMA WithinIsPrefix ==
  ASSUME NEW c, NEW d, Blocks(c), Blocks(d), Within(c, d)
  PROVE  IsPrefix(c, d)
<1> DEFINE S == Range(c) \cup Range(d)
<1>1. c \in Seq(S) /\ d \in Seq(S) /\ Len(c) \in Nat /\ Len(d) \in Nat
  BY SeqMonotonic, LastOf DEF Blocks
<1>2. Len(c) <= Len(d) /\ \A i \in 1..Len(c) : c[i] = d[i]
  BY LastOf DEF Within
<1>3. SubSeq(c, 1, Len(c)) = [i \in 1..Len(c) |-> c[i]]
  BY <1>1
<1>4. SubSeq(d, 1, Len(c)) = [i \in 1..Len(c) |-> d[i]]
  BY <1>1, <1>2
<1> QED BY <1>2, <1>3, <1>4 DEF IsPrefix

-----------------------------------------------------------------------------
(***************************************************************************)
(* Flattened sequences. FlattenSeq is a recursive function: that one       *)
(* exists, and is the only one, is shown by a least place where it fails.  *)
(***************************************************************************)

FlatOf(f, ss) == f = [i \in 1..Len(ss) |-> IF i = 1 THEN ss[i] ELSE f[i - 1] \o ss[i]]
TheFlat(ss) == CHOOSE f : FlatOf(f, ss)

LEMMA FlattenIs ==
  ASSUME NEW ss
  PROVE  FlattenSeq(ss) = IF Len(ss) = 0 THEN ss ELSE TheFlat(ss)[Len(ss)]
BY DEF FlattenSeq, TheFlat, FlatOf

\* The recursion as far as k.
FlatTo(f, ss, k) == f = [i \in 1..k |-> IF i = 1 THEN ss[i] ELSE f[i - 1] \o ss[i]]

LEMMA FlatExists ==
  ASSUME NEW ss, NEW n \in Nat
  PROVE  \E f : FlatTo(f, ss, n)
<1> DEFINE B == {k \in Nat : ~\E f : FlatTo(f, ss, k)}
<1> SUFFICES ASSUME n \in B PROVE FALSE
  OBVIOUS
<1>1. PICK k \in B : \A m \in B : ~(m < k)
  <2>1. B \in SUBSET Nat /\ B # {}
    OBVIOUS
  <2> HIDE DEF B
  <2> QED BY <2>1, LeastOfNat
<1>2. k \in Nat /\ ~\E f : FlatTo(f, ss, k)
  BY <1>1
<1>3. CASE k = 0
  <2>1. FlatTo([i \in 1..0 |-> ss[i]], ss, 0)
    BY DEF FlatTo
  <2> QED BY <1>2, <1>3, <2>1
<1>4. CASE k > 0
  <2>1. PICK g : FlatTo(g, ss, k - 1)
    BY <1>1, <1>2, <1>4
  <2> DEFINE h == [i \in 1..k |-> IF i = k /\ i # 1 THEN g[k - 1] \o ss[k]
                                  ELSE IF i = 1 THEN ss[1] ELSE g[i]]
  <2>2. \A i \in 1..(k - 1) : g[i] = IF i = 1 THEN ss[i] ELSE g[i - 1] \o ss[i]
    BY <1>2, <1>4, <2>1 DEF FlatTo
  <2>3. \A i \in 1..(k - 1) : h[i] = g[i]
    BY <1>2, <1>4, <2>2
  <2>4. ASSUME NEW i \in 1..k PROVE h[i] = IF i = 1 THEN ss[i] ELSE h[i - 1] \o ss[i]
    <3>1. CASE i = 1
      BY <3>1
    <3>2. CASE i # 1 /\ i = k
      <4>1. h[i] = g[k - 1] \o ss[k]
        BY <3>2
      <4>2. i - 1 = k - 1 /\ k - 1 \in 1..(k - 1)
        BY <1>2, <3>2
      <4> HIDE DEF h
      <4>3. h[i - 1] = g[k - 1]
        BY <2>3, <4>2
      <4> QED BY <3>2, <4>1, <4>3
    <3>3. CASE i # 1 /\ i # k
      <4>1. i \in 1..(k - 1) /\ i - 1 \in 1..(k - 1)
        BY <1>2, <3>3
      <4> HIDE DEF h
      <4> QED BY <2>2, <2>3, <3>3, <4>1
    <3> QED BY <3>1, <3>2, <3>3
  <2>5. h = [i \in 1..k |-> h[i]]
    OBVIOUS
  <2>6. FlatTo(h, ss, k)
    <3> HIDE DEF h
    <3> QED BY <2>4, <2>5 DEF FlatTo
  <2> QED BY <1>2, <2>6
<1> QED BY <1>2, <1>3, <1>4

LEMMA FlatAt ==
  ASSUME NEW ss, NEW f, NEW k \in Nat, FlatTo(f, ss, k), NEW i \in 1..k
  PROVE  f[i] = IF i = 1 THEN ss[i] ELSE f[i - 1] \o ss[i]
BY DEF FlatTo

\* Recursions over sequences that begin with the same elements agree as far.
LEMMA FlatAgree ==
  ASSUME NEW ss, NEW tt, NEW f, NEW g, NEW k, NEW n, n \in Nat, 1..n \subseteq 1..k,
         FlatTo(f, ss, k), FlatTo(g, tt, n), \A i \in 1..n : ss[i] = tt[i]
  PROVE  \A i \in 1..n : f[i] = g[i]
<1> DEFINE B == {i \in 1..n : f[i] # g[i]}
<1> SUFFICES ASSUME B # {} PROVE FALSE
  OBVIOUS
<1>1. PICK i \in B : \A m \in B : ~(m < i)
  <2>1. B \in SUBSET Nat
    OBVIOUS
  <2> HIDE DEF B
  <2> QED BY <2>1, LeastOfNat
<1>2. i \in 1..n /\ i \in 1..k /\ f[i] # g[i]
  BY <1>1
<1>3. f[i] = (IF i = 1 THEN ss[i] ELSE f[i - 1] \o ss[i])
  BY <1>2 DEF FlatTo
<1>4. g[i] = (IF i = 1 THEN tt[i] ELSE g[i - 1] \o tt[i])
  BY <1>2 DEF FlatTo
<1>5. i # 1 => f[i - 1] = g[i - 1]
  BY <1>1, <1>2
<1> QED BY <1>2, <1>3, <1>4, <1>5

\* What FlattenSeq computes, one element at a time.
LEMMA FlatStep ==
  ASSUME NEW S, NEW ss \in Seq(Seq(S)), NEW s \in Seq(S)
  PROVE  /\ FlattenSeq(<<>>) = <<>>
         /\ ss # <<>> => FlattenSeq(Append(ss, s)) = FlattenSeq(ss) \o s
         /\ ss = <<>> => FlattenSeq(Append(ss, s)) = s
<1> DEFINE tt == Append(ss, s)
           n == Len(ss)
<1>1. n \in Nat /\ Len(tt) = n + 1 /\ tt[n + 1] = s /\ \A i \in 1..n : tt[i] = ss[i]
  OBVIOUS
<1>2. FlattenSeq(<<>>) = <<>>
  BY FlattenIs
<1>3. FlatTo(TheFlat(tt), tt, n + 1) /\ FlatTo(TheFlat(ss), ss, n)
  <2> HIDE DEF tt, n
  <2>0. n + 1 \in Nat
    BY <1>1
  <2>1. (\E f : FlatTo(f, tt, n + 1)) /\ (\E f : FlatTo(f, ss, n))
    BY <1>1, <2>0, FlatExists
  <2>2. \A f : (FlatTo(f, tt, n + 1) <=> FlatOf(f, tt)) /\ (FlatTo(f, ss, n) <=> FlatOf(f, ss))
    BY <1>1 DEF FlatTo, FlatOf, n
  <2>3. (\E f : FlatOf(f, tt)) /\ (\E f : FlatOf(f, ss))
    BY <2>1, <2>2
  <2>4. FlatOf(TheFlat(tt), tt) /\ FlatOf(TheFlat(ss), ss)
    BY <2>3 DEF TheFlat
  <2> QED BY <2>2, <2>4
<1>4. FlattenSeq(tt) = TheFlat(tt)[n + 1]
  <2> HIDE DEF tt, n
  <2> QED BY <1>1, FlattenIs
<1>5. TheFlat(tt)[n + 1] = IF n = 0 THEN tt[n + 1] ELSE TheFlat(tt)[n] \o tt[n + 1]
  <2> DEFINE f == TheFlat(tt)
             m == n + 1
  <2> HIDE DEF tt, n, f
  <2>1. m \in Nat /\ m \in 1..m /\ (m = 1 <=> n = 0) /\ m - 1 = n
    BY <1>1
  <2>2. FlatTo(f, tt, m)
    BY <1>3 DEF f
  <2> HIDE DEF m
  <2>3. f[m] = IF m = 1 THEN tt[m] ELSE f[m - 1] \o tt[m]
    BY <2>1, <2>2, FlatAt
  <2> QED BY <2>1, <2>3 DEF f, m
<1>6. CASE n = 0
  BY <1>1, <1>2, <1>4, <1>5, <1>6
<1>7. CASE n # 0
  <2>1. FlattenSeq(ss) = TheFlat(ss)[n]
    BY <1>7, FlattenIs
  <2>2. TheFlat(tt)[n] = TheFlat(ss)[n]
    <3> DEFINE f == TheFlat(tt)
               g == TheFlat(ss)
               m == n + 1
    <3> HIDE DEF tt, n, f, g
    <3>1. n \in Nat /\ 1..n \subseteq 1..m /\ \A i \in 1..n : tt[i] = ss[i]
      BY <1>1
    <3>2. FlatTo(f, tt, m) /\ FlatTo(g, ss, n)
      BY <1>3 DEF f, g
    <3> HIDE DEF m
    <3>3. \A i \in 1..n : f[i] = g[i]
      BY <3>1, <3>2, FlatAgree
    <3> QED BY <1>1, <1>7, <3>3 DEF f, g
  <2>3. ss # <<>>
    BY <1>7
  <2>4. FlattenSeq(tt) = FlattenSeq(ss) \o tt[n + 1]
    <3> HIDE DEF tt, n
    <3> QED BY <1>4, <1>5, <1>7, <2>1, <2>2
  <2> QED BY <1>1, <1>2, <2>3, <2>4
<1> QED BY <1>6, <1>7

-----------------------------------------------------------------------------
(***************************************************************************)
(* The transactions of a chain, in order.                                  *)
(***************************************************************************)

\* What is in two sequences, one after the other.
LEMMA RangeConcat ==
  ASSUME NEW S, NEW s \in Seq(S), NEW t \in Seq(S)
  PROVE  /\ s \o t \in Seq(S) /\ Len(s \o t) = Len(s) + Len(t)
         /\ \A x : x \in Range(s \o t) <=> x \in Range(s) \/ x \in Range(t)
<1>1. s \o t \in Seq(S) /\ Len(s \o t) = Len(s) + Len(t)
  OBVIOUS
<1>2. Range(s \o t) = Range(s) \cup Range(t)
  BY RangeConcatenation
<1> QED BY <1>1, <1>2

\* Two sequences without repeated commands and with none in common.
LEMMA OnceConcat ==
  ASSUME NEW s \in Seq(Tx), NEW t \in Seq(Tx), OncePool(s), OncePool(t),
         \A tx \in Commands : tx \in Range(s) => tx \notin Range(t)
  PROVE  OncePool(s \o t)
<1> DEFINE u == s \o t
           a == Len(s)
           b == Len(t)
<1>1. /\ a \in Nat /\ b \in Nat /\ DOMAIN u = 1..(a + b) /\ DOMAIN s = 1..a /\ DOMAIN t = 1..b
      /\ \A i \in 1..a : u[i] = s[i]
      /\ \A i \in (a + 1)..(a + b) : u[i] = t[i - a]
  OBVIOUS
<1>2. /\ \A i \in 1..a : u[i] \in Range(s)
      /\ \A i \in (a + 1)..(a + b) : u[i] \in Range(t)
  <2> HIDE DEF u, a, b
  <2>1. ASSUME NEW i \in 1..a PROVE u[i] \in Range(s)
    BY <1>1 DEF Range
  <2>2. ASSUME NEW i \in (a + 1)..(a + b) PROVE u[i] \in Range(t)
    <3>1. i - a \in DOMAIN t
      BY <1>1
    <3> QED BY <1>1, <3>1 DEF Range
  <2> QED BY <2>1, <2>2
<1> HIDE DEF u, a, b
<1>3. ASSUME NEW i \in DOMAIN u, NEW j \in DOMAIN u, u[i] \in Commands, u[i] = u[j]
      PROVE  i = j
  <2>1. CASE i \in 1..a /\ j \in 1..a
    BY <1>1, <1>3, <2>1 DEF OncePool
  <2>2. CASE i \notin 1..a /\ j \notin 1..a
    <3>1. /\ i \in (a + 1)..(a + b) /\ j \in (a + 1)..(a + b)
          /\ i - a \in DOMAIN t /\ j - a \in DOMAIN t
      BY <1>1, <2>2
    <3>2. u[i] = t[i - a] /\ u[j] = t[j - a]
      BY <1>1, <3>1
    <3>3. i - a = j - a
      BY <1>3, <3>1, <3>2 DEF OncePool
    <3> QED BY <1>1, <3>1, <3>3
  <2>3. CASE i \in 1..a /\ j \notin 1..a
    BY <1>1, <1>2, <1>3, <2>3
  <2>4. CASE i \notin 1..a /\ j \in 1..a
    BY <1>1, <1>2, <1>3, <2>4
  <2> QED BY <2>1, <2>2, <2>3, <2>4
<1> QED BY <1>3 DEF OncePool, u

LEMMA UpToZero == \A c : UpTo(c, 0) = <<>>
<1> SUFFICES ASSUME NEW c PROVE UpTo(c, 0) = <<>>
  OBVIOUS
<1>1. [i \in 1..0 |-> c[i].txs] = <<>>
  OBVIOUS
<1>2. FlattenSeq(<<>>) = <<>>
  BY FlattenIs
<1> QED BY <1>1, <1>2 DEF UpTo

\* The transactions up to a block are those before it and its own.
LEMMA UpToRec ==
  ASSUME NEW c, Blocks(c), NEW k \in 1..Len(c)
  PROVE  UpTo(c, k) = IF k = 1 THEN c[1].txs ELSE UpTo(c, k - 1) \o c[k].txs
<1> DEFINE ss == [i \in 1..(k - 1) |-> c[i].txs]
           tt == [i \in 1..k |-> c[i].txs]
           s == c[k].txs
<1>1. Len(c) \in Nat /\ DOMAIN c = 1..Len(c)
  BY LastOf
<1>2. \A i \in 1..Len(c) : c[i].txs \in Seq(Tx)
  BY <1>1 DEF Blocks
<1>3. ss \in Seq(Seq(Tx)) /\ s \in Seq(Tx) /\ tt \in Seq(Seq(Tx)) /\ Len(ss) = k - 1 /\ Len(tt) = k
  BY <1>1, <1>2
<1>4. Append(ss, s) = tt
  <2>1. Append(ss, s) \in Seq(Seq(Tx)) /\ Len(Append(ss, s)) = k
    BY <1>1, <1>3
  <2>2. ASSUME NEW i \in 1..k PROVE Append(ss, s)[i] = tt[i]
    <3>1. CASE i = k
      BY <1>1, <1>3, <3>1
    <3>2. CASE i # k
      <4>1. i \in 1..(k - 1)
        BY <1>1, <3>2
      <4> QED BY <1>3, <4>1
    <3> QED BY <3>1, <3>2
  <2> HIDE DEF ss, tt, s
  <2>3. Len(Append(ss, s)) = Len(tt) /\ \A i \in 1..Len(Append(ss, s)) : Append(ss, s)[i] = tt[i]
    BY <1>3, <2>1, <2>2
  <2> QED BY <1>3, <2>1, <2>3, SeqEqual
<1>5. ss = <<>> <=> k = 1
  BY <1>1, <1>3
<1>6. UpTo(c, k) = FlattenSeq(tt) /\ UpTo(c, k - 1) = FlattenSeq(ss)
  BY DEF UpTo
<1> HIDE DEF ss, tt
<1>7. FlattenSeq(tt) = IF k = 1 THEN s ELSE FlattenSeq(ss) \o s
  <2> HIDE DEF s
  <2> QED BY <1>3, <1>4, <1>5, FlatStep
<1> QED BY <1>6, <1>7

\* UpTo is a sequence of what is in the blocks.
UpToGood(c, k) ==
  /\ UpTo(c, k) \in Seq(Tx)
  /\ \A tx : tx \in Range(UpTo(c, k)) <=> \E i \in 1..k : tx \in Range(c[i].txs)
  /\ OnceChain(c) => OncePool(UpTo(c, k))

\* By a least block for which it fails.
LEMMA UpToIsGood ==
  ASSUME NEW c, Blocks(c)
  PROVE  \A k \in 0..Len(c) : UpToGood(c, k)
<1> DEFINE B == {k \in 0..Len(c) : ~UpToGood(c, k)}
<1> SUFFICES ASSUME B # {} PROVE FALSE
  OBVIOUS
<1>1. Len(c) \in Nat /\ DOMAIN c = 1..Len(c)
  BY LastOf
<1>2. PICK k \in B : \A m \in B : ~(m < k)
  <2>1. B \in SUBSET Nat
    BY <1>1
  <2> HIDE DEF B
  <2> QED BY <2>1, LeastOfNat
<1>3. k \in 0..Len(c) /\ ~UpToGood(c, k)
  BY <1>2
<1>4. CASE k = 0
  <2>1. UpTo(c, 0) = <<>>
    BY UpToZero
  <2>2. <<>> \in Seq(Tx) /\ DOMAIN <<>> = {}
    OBVIOUS
  <2>3. Range(<<>>) = {} /\ OncePool(<<>>)
    BY <2>2 DEF Range, OncePool
  <2>4. ~\E i \in 1..0 : TRUE
    OBVIOUS
  <2>5. UpToGood(c, 0)
    BY <2>1, <2>2, <2>3, <2>4 DEF UpToGood
  <2> QED BY <1>3, <1>4, <2>5
<1>5. CASE k # 0
  <2> DEFINE u == UpTo(c, k)
             v == UpTo(c, k - 1)
             s == c[k].txs
  <2>1. k \in 1..Len(c) /\ k - 1 \in 0..Len(c) /\ k - 1 < k
    BY <1>1, <1>3, <1>5
  <2>2. UpToGood(c, k - 1)
    BY <1>2, <2>1
  <2>3. s \in Seq(Tx)
    BY <1>1, <2>1 DEF Blocks
  <2>4. u = v \o s
    <3>1. CASE k = 1
      <4>1. v = <<>>
        BY <3>1, UpToZero
      <4>2. u = s
        BY <2>1, <3>1, UpToRec
      <4>3. <<>> \o s = s
        BY <2>3
      <4> QED BY <4>1, <4>2, <4>3
    <3>2. CASE k # 1
      BY <2>1, <3>2, UpToRec
    <3> QED BY <3>1, <3>2
  <2>5. v \in Seq(Tx) /\ \A tx : tx \in Range(v) <=> \E i \in 1..(k - 1) : tx \in Range(c[i].txs)
    BY <2>2 DEF UpToGood
  <2> HIDE DEF u, v
  <2>6. u \in Seq(Tx) /\ \A tx : tx \in Range(u) <=> tx \in Range(v) \/ tx \in Range(s)
    <3> HIDE DEF s
    <3> QED BY <2>3, <2>4, <2>5, RangeConcat
  <2>7. \A tx : tx \in Range(u) <=> \E i \in 1..k : tx \in Range(c[i].txs)
    BY <1>1, <2>1, <2>5, <2>6
  <2>8. ASSUME OnceChain(c) PROVE OncePool(u)
    <3>1. OncePool(v)
      BY <2>2, <2>8 DEF UpToGood, v
    <3>2. OncePool(s)
      BY <1>1, <2>1, <2>8 DEF OnceChain, OncePool
    <3>3. ASSUME NEW tx \in Commands, tx \in Range(v) PROVE tx \notin Range(s)
      <4> SUFFICES ASSUME tx \in Range(s) PROVE FALSE
        OBVIOUS
      <4>1. PICK i \in 1..(k - 1) : tx \in Range(c[i].txs)
        BY <2>5, <3>3
      <4>2. i \in DOMAIN c /\ k \in DOMAIN c /\ i # k
        BY <1>1, <2>1
      <4>3. PICK j \in DOMAIN c[i].txs : tx = c[i].txs[j]
        BY <4>1 DEF Range
      <4>4. PICK l \in DOMAIN c[k].txs : tx = c[k].txs[l]
        BY DEF Range
      <4> QED BY <2>8, <4>2, <4>3, <4>4 DEF OnceChain
    <3> HIDE DEF s
    <3> QED BY <2>3, <2>4, <2>5, <3>1, <3>2, <3>3, OnceConcat
  <2> QED BY <1>3, <2>6, <2>7, <2>8 DEF UpToGood, u
<1> QED BY <1>4, <1>5

\* The books of a node: its chain's transactions, then its pool's.
Confirmed(c) == UpTo(c, Len(c))

\* The transactions of a chain, in order, are those of its blocks.
LEMMA ConfirmedIs ==
  ASSUME NEW c, Blocks(c)
  PROVE  /\ Confirmed(c) \in Seq(Tx)
         /\ \A tx : tx \in Range(Confirmed(c)) <=> InChain(c, tx)
         /\ OnceChain(c) => OncePool(Confirmed(c))
<1>1. Len(c) \in Nat /\ DOMAIN c = 1..Len(c)
  BY LastOf
<1>2. UpToGood(c, Len(c))
  BY <1>1, UpToIsGood
<1> QED BY <1>1, <1>2 DEF UpToGood, Confirmed, InChain

\* The books of a node are the transactions of its chain, then its pool.
LEMMA TransactionsAre ==
  ASSUME NEW n, Blocks(chain[n]), pool[n] \in Seq(Tx)
  PROVE  /\ Transactions(n) = Confirmed(chain[n]) \o pool[n] /\ Transactions(n) \in Seq(Tx)
         /\ \A tx : tx \in Range(Transactions(n)) <=> InBooks(n, tx)
<1>1. DOMAIN chain[n] = 1..Len(chain[n])
  BY LastOf
<1>2. Transactions(n) = Confirmed(chain[n]) \o pool[n]
  BY <1>1 DEF Transactions, Confirmed, UpTo
<1>3. Confirmed(chain[n]) \in Seq(Tx)
      /\ \A tx : tx \in Range(Confirmed(chain[n])) <=> InChain(chain[n], tx)
  BY ConfirmedIs
<1>4. /\ Confirmed(chain[n]) \o pool[n] \in Seq(Tx)
      /\ \A tx : tx \in Range(Confirmed(chain[n]) \o pool[n])
                   <=> tx \in Range(Confirmed(chain[n])) \/ tx \in Range(pool[n])
  BY <1>3, RangeConcat
<1> QED BY <1>2, <1>3, <1>4 DEF InBooks

\* HasTransaction looks for a command in the books.
LEMMA InBooksIs ==
  ASSUME NEW n, Blocks(chain[n]), pool[n] \in Seq(Tx), NEW tx
  PROVE  HasTransaction(n, tx) <=> tx \in Commands /\ InBooks(n, tx)
BY TransactionsAre DEF HasTransaction

\* What is in a chain or block that is appended.
LEMMA InAppend ==
  ASSUME NEW c, NEW b, c \in Seq(Range(c)), NEW tx
  PROVE  InChain(Append(c, b), tx) <=> InChain(c, tx) \/ tx \in Range(b.txs)
<1>1. /\ DOMAIN Append(c, b) = 1..(Len(c) + 1) /\ DOMAIN c = 1..Len(c) /\ Len(c) \in Nat
      /\ Append(c, b)[Len(c) + 1] = b /\ \A i \in 1..Len(c) : Append(c, b)[i] = c[i]
  BY AppendIs
<1>2. ASSUME InChain(Append(c, b), tx) PROVE InChain(c, tx) \/ tx \in Range(b.txs)
  <2>1. PICK i \in 1..(Len(c) + 1) : tx \in Range(Append(c, b)[i].txs)
    BY <1>1, <1>2 DEF InChain
  <2>2. CASE i \in 1..Len(c)
    BY <1>1, <2>1, <2>2 DEF InChain
  <2>3. CASE i = Len(c) + 1
    BY <1>1, <2>1, <2>3
  <2> QED BY <1>1, <2>2, <2>3
<1>3. ASSUME InChain(c, tx) PROVE InChain(Append(c, b), tx)
  <2>1. PICK i \in 1..Len(c) : tx \in Range(c[i].txs)
    BY <1>1, <1>3 DEF InChain
  <2>2. i \in DOMAIN Append(c, b) /\ Append(c, b)[i] = c[i]
    BY <1>1
  <2> QED BY <2>1, <2>2 DEF InChain
<1>4. ASSUME tx \in Range(b.txs) PROVE InChain(Append(c, b), tx)
  <2>1. Len(c) + 1 \in DOMAIN Append(c, b)
    BY <1>1
  <2> QED BY <1>1, <1>4, <2>1 DEF InChain
<1> QED BY <1>2, <1>3, <1>4

\* A block whose commands are new and once in it can be appended.
LEMMA OnceAppend ==
  ASSUME NEW c, NEW b, Blocks(c), b.txs \in Seq(Tx), OnceChain(c), OncePool(b.txs),
         \A tx \in Commands : tx \in Range(b.txs) => ~InChain(c, tx)
  PROVE  OnceChain(Append(c, b))
<1> DEFINE d == Append(c, b)
<1>1. /\ DOMAIN d = 1..(Len(c) + 1) /\ DOMAIN c = 1..Len(c) /\ Len(c) \in Nat
      /\ d[Len(c) + 1] = b /\ \A i \in 1..Len(c) : d[i] = c[i]
  BY AppendIs DEF Blocks
<1> HIDE DEF d
<1>2. ASSUME NEW i \in DOMAIN d, NEW k \in DOMAIN d,
             NEW j \in DOMAIN d[i].txs, NEW l \in DOMAIN d[k].txs,
             d[i].txs[j] \in Commands, d[i].txs[j] = d[k].txs[l]
      PROVE  i = k /\ j = l
  <2>1. CASE i \in 1..Len(c) /\ k \in 1..Len(c)
    BY <1>1, <1>2, <2>1 DEF OnceChain
  <2>2. CASE i = Len(c) + 1 /\ k = Len(c) + 1
    BY <1>1, <1>2, <2>2 DEF OncePool
  <2>3. CASE i \in 1..Len(c) /\ k = Len(c) + 1
    <3>1. d[i].txs[j] \in Range(b.txs) /\ d[i].txs[j] \in Range(c[i].txs)
      BY <1>1, <1>2, <2>3 DEF Range
    <3> QED BY <1>1, <1>2, <2>3, <3>1 DEF InChain
  <2>4. CASE k \in 1..Len(c) /\ i = Len(c) + 1
    <3>1. d[k].txs[l] \in Range(b.txs) /\ d[k].txs[l] \in Range(c[k].txs)
      BY <1>1, <1>2, <2>4 DEF Range
    <3> QED BY <1>1, <1>2, <2>4, <3>1 DEF InChain
  <2> QED BY <1>1, <2>1, <2>2, <2>3, <2>4
<1> QED BY <1>2 DEF OnceChain, d

\* The beginning of a chain without repeated commands has none.
LEMMA OnceWithin ==
  ASSUME NEW c, NEW d, Blocks(c), Blocks(d), Within(c, d), OnceChain(d)
  PROVE  OnceChain(c)
<1>1. /\ DOMAIN c = 1..Len(c) /\ DOMAIN d = 1..Len(d) /\ Len(c) \in Nat /\ Len(d) \in Nat
  BY LastOf
<1>2. DOMAIN c \subseteq DOMAIN d /\ \A i \in DOMAIN c : c[i] = d[i]
  BY <1>1 DEF Within
<1> QED BY <1>2 DEF OnceChain

\* What is once in the books is counted once.
LEMMA OnceIsOne ==
  ASSUME NEW q, OncePool(q), NEW tx \in Commands
  PROVE  Cardinality({i \in DOMAIN q : q[i] = tx}) <= 1
<1> DEFINE I == {i \in DOMAIN q : q[i] = tx}
<1>1. CASE I = {}
  <2> HIDE DEF I
  <2> QED BY <1>1, FS_EmptySet DEF I
<1>2. CASE I # {}
  <2>1. PICK i \in I : TRUE
    BY <1>2
  <2>2. I = {i}
    BY <2>1 DEF OncePool
  <2>3. Cardinality({i}) = 1
    BY FS_Singleton
  <2> HIDE DEF I
  <2>4. Cardinality(I) = 1
    BY <2>2, <2>3
  <2> QED BY <2>4 DEF I
<1> QED BY <1>1, <1>2

\* A table is loaded as it was written: the block at i has i - 1 before it.
LEMMA LoadsRows ==
  ASSUME NEW n, Blocks(rows[n])
  PROVE  LoadBlocks(n) = rows[n]
<1> DEFINE r == rows[n]
           table == Range(r)
           Before(b) == {c \in table : c.index < b.index}
<1>1. Len(r) \in Nat /\ DOMAIN r = 1..Len(r)
  BY LastOf
<1>2. \A i, j \in DOMAIN r : r[i].index \in Nat /\ (r[i].index < r[j].index <=> i < j)
  <2> SUFFICES ASSUME NEW i \in DOMAIN r, NEW j \in DOMAIN r
               PROVE  r[i].index \in Nat /\ (r[i].index < r[j].index <=> i < j)
    OBVIOUS
  <2>1. r[i].index \in Nat /\ r[j].index \in Nat
    BY DEF Blocks
  <2>2. i < j => r[i].index < r[j].index
    BY DEF Blocks, Ascending
  <2>3. j < i => r[j].index < r[i].index
    BY DEF Blocks, Ascending
  <2> HIDE DEF r
  <2>4. i = j \/ i < j \/ j < i
    BY <1>1
  <2> QED BY <2>1, <2>2, <2>3, <2>4
<1>3. ASSUME NEW i \in DOMAIN r PROVE Cardinality(Before(r[i])) = i - 1
  <2>1. Before(r[i]) = {r[j] : j \in 1..(i - 1)}
    <3>1. ASSUME NEW c \in Before(r[i]) PROVE c \in {r[j] : j \in 1..(i - 1)}
      <4>1. PICK j \in DOMAIN r : c = r[j]
        BY <3>1 DEF Range
      <4>2. j < i
        BY <1>2, <3>1, <4>1
      <4> HIDE DEF r
      <4> QED BY <1>1, <4>1, <4>2
    <3>2. ASSUME NEW j \in 1..(i - 1) PROVE r[j] \in Before(r[i])
      <4>1. j \in DOMAIN r /\ j < i
        BY <1>1
      <4> QED BY <1>2, <4>1 DEF Range
    <3> HIDE DEF r, Before
    <3> QED BY <3>1, <3>2
  <2> DEFINE f == [j \in 1..(i - 1) |-> r[j]]
             T == {r[j] : j \in 1..(i - 1)}
  <2>2. f \in Bijection(1..(i - 1), T)
    <3>1. f \in [1..(i - 1) -> T] /\ \A t \in T : \E j \in 1..(i - 1) : f[j] = t
      OBVIOUS
    <3>2. \A j, k \in 1..(i - 1) : f[j] = f[k] => j = k
      <4>1. \A j, k \in 1..(i - 1) : j \in DOMAIN r /\ k \in DOMAIN r
        BY <1>1
      <4>2. \A j, k \in DOMAIN r : r[j] = r[k] => j = k
        <5> HIDE DEF r
        <5>1. ASSUME NEW j \in DOMAIN r, NEW k \in DOMAIN r, r[j] = r[k] PROVE j = k
          <6>1. ~(j < k) /\ ~(k < j)
            BY <1>2, <5>1
          <6> QED BY <1>1, <6>1
        <5> QED BY <5>1
      <4> HIDE DEF r
      <4> QED BY <4>1, <4>2
    <3> HIDE DEF f, T
    <3> QED BY <3>1, <3>2 DEF Bijection, Injection, Surjection, IsInjective
  <2>3. Cardinality(1..(i - 1)) = i - 1 /\ IsFiniteSet(1..(i - 1))
    <3>1. i \in Nat /\ i >= 1
      BY <1>1
    <3>2. /\ IsFiniteSet(1..(i - 1))
          /\ Cardinality(1..(i - 1)) = IF 1 > i - 1 THEN 0 ELSE (i - 1) - 1 + 1
      <4>1. i - 1 \in Int
        BY <3>1
      <4> QED BY <4>1, FS_Interval
    <3> QED BY <3>1, <3>2
  <2>4. Cardinality(T) = Cardinality(1..(i - 1))
    <3> HIDE DEF f, T
    <3> QED BY <2>2, <2>3, FS_Bijection DEF ExistsBijection
  <2> QED BY <2>1, <2>3, <2>4
<1>4. ASSUME NEW i \in DOMAIN r
      PROVE  (CHOOSE b \in table : Cardinality(Before(b)) = i - 1) = r[i]
  <2>1. r[i] \in table
    BY DEF Range
  <2>2. ASSUME NEW b \in table, Cardinality(Before(b)) = i - 1 PROVE b = r[i]
    <3>1. PICK j \in DOMAIN r : b = r[j]
      BY DEF Range
    <3>2. j - 1 = i - 1
      <4> HIDE DEF r, Before
      <4> QED BY <1>3, <2>2, <3>1
    <3>3. j = i
      <4> HIDE DEF r
      <4> QED BY <1>1, <3>2
    <3> QED BY <3>1, <3>3
  <2>3. Cardinality(Before(r[i])) = i - 1
    BY <1>3
  <2> HIDE DEF r, table, Before
  <2> QED BY <2>1, <2>2, <2>3
<1>5. LoadBlocks(n) = [i \in DOMAIN r |-> CHOOSE b \in table : Cardinality(Before(b)) = i - 1]
  BY DEF LoadBlocks
<1>6. r = [i \in DOMAIN r |-> r[i]]
  <2>1. r \in Seq(table)
    BY DEF Blocks
  <2> HIDE DEF r, table
  <2> QED BY <2>1
<1> HIDE DEF r, table, Before
<1>7. LoadBlocks(n) = r
  BY <1>4, <1>5, <1>6
<1> QED BY <1>7 DEF r

-----------------------------------------------------------------------------
(***************************************************************************)
(* The shape of the state.                                                 *)
(***************************************************************************)

\* A fault is counted, and no other.
LEMMA FaultIs ==
  ASSUME Shape, NEW kind \in FaultKinds, Fault(kind)
  PROVE  /\ faults' \in [FaultKinds -> Nat] /\ ~Never(kind)'
         /\ \A k \in FaultKinds : Never(k)' => Never(k)
<1>1. faults \in [FaultKinds -> Nat] /\ faults' = [faults EXCEPT ![kind] = @ + 1]
  BY DEF Shape, Fault
<1>2. \A k \in FaultKinds : faults'[k] = IF k = kind THEN faults[k] + 1 ELSE faults[k]
  BY <1>1
<1>3. \A k \in FaultKinds : faults[k] \in Nat
  BY <1>1
<1> QED BY <1>1, <1>2, <1>3 DEF Never

\* A block that follows is appended, and saved or not.
Appends(n, b) ==
  /\ n \in up /\ b.index = Last(chain[n]).index + 1 /\ b.prev = Last(chain[n])
  /\ b.txs \in Seq(Tx)
  /\ chain' = [chain EXCEPT ![n] = Append(@, b)]
  /\ Save(n, b)

\* What appending a block does to the node's chain, table and pool.
LEMMA AppendsIs ==
  ASSUME Shape, Tables, NEW n, NEW b, Appends(n, b)
  PROVE  /\ n \in Nodes /\ b.index \in Nat
         /\ OnNodes(chain)' /\ OnNodes(rows)' /\ pool' \in [Nodes -> Seq(Tx)]
         /\ faults' \in [FaultKinds -> Nat] /\ \A k \in FaultKinds : Never(k)' => Never(k)
         /\ chain'[n] = Append(chain[n], b) /\ Blocks(chain'[n]) /\ Last(chain'[n]) = b
         /\ \A m \in Nodes \ {n} : chain'[m] = chain[m] /\ rows'[m] = rows[m] /\ pool'[m] = pool[m]
         /\ \/ /\ rows'[n] = Append(rows[n], b) /\ Blocks(rows'[n]) /\ Last(rows'[n]) = b
               /\ pool'[n] = <<>> /\ Saved(n, b)
            \/ rows' = rows /\ pool' = pool /\ ~Never("save")'
<1>1. n \in Nodes /\ n \in up
  BY DEF Appends, Shape
<1>2. /\ Blocks(chain[n]) /\ Blocks(rows[n]) /\ Last(rows[n]).index <= Last(chain[n]).index
      /\ OnNodes(chain) /\ OnNodes(rows)
  BY <1>1 DEF Tables
<1>3. Last(chain[n]).index \in Nat /\ Last(rows[n]).index \in Nat
  BY <1>2, LastOf
<1>4. b.index \in Nat /\ b.txs \in Seq(Tx) /\ Last(chain[n]).index < b.index /\ Last(rows[n]).index < b.index
  BY <1>2, <1>3 DEF Appends
<1>5. /\ Blocks(Append(chain[n], b)) /\ Last(Append(chain[n], b)) = b
      /\ Blocks(Append(rows[n], b)) /\ Last(Append(rows[n], b)) = b
  BY <1>2, <1>4, BlocksAppend
<1>6. /\ OnNodes(chain)' /\ chain'[n] = Append(chain[n], b)
      /\ \A m \in Nodes \ {n} : chain'[m] = chain[m]
  <2>1. chain' = [chain EXCEPT ![n] = Append(@, b)]
    BY DEF Appends
  <2> QED BY <1>1, <1>2, <2>1 DEF OnNodes
<1>7. CASE /\ rows' = [rows EXCEPT ![n] = Append(@, b)]
           /\ pool' = [pool EXCEPT ![n] = <<>>]
           /\ UNCHANGED faults
  <2>1. /\ OnNodes(rows)' /\ rows'[n] = Append(rows[n], b)
        /\ \A m \in Nodes \ {n} : rows'[m] = rows[m]
    BY <1>1, <1>2, <1>7 DEF OnNodes
  <2>2. /\ pool' \in [Nodes -> Seq(Tx)] /\ pool'[n] = <<>>
        /\ \A m \in Nodes \ {n} : pool'[m] = pool[m]
    <3>1. <<>> \in Seq(Tx)
      OBVIOUS
    <3> QED BY <1>1, <1>7, <3>1 DEF Shape
  <2>3. faults' \in [FaultKinds -> Nat] /\ \A k \in FaultKinds : Never(k)' => Never(k)
    BY <1>7 DEF Shape, Never
  <2> QED BY <1>1, <1>4, <1>5, <1>6, <2>1, <2>2, <2>3 DEF Saved
<1>8. CASE Fault("save") /\ UNCHANGED <<rows, pool>>
  <2>1. /\ faults' \in [FaultKinds -> Nat] /\ ~Never("save")'
        /\ \A k \in FaultKinds : Never(k)' => Never(k)
    BY <1>8, FaultIs DEF FaultKinds
  <2> QED BY <1>1, <1>2, <1>4, <1>5, <1>6, <1>8, <2>1 DEF Shape, OnNodes
<1> QED BY <1>7, <1>8 DEF Appends, Save

\* What mining and a received block do to the books.
LEMMA MineIs ==
  ASSUME Shape, Tables, NEW n \in Nodes, NEW t, Mine(n, t)
  PROVE  /\ n \in up /\ mining[n] > 0 /\ mining' = [mining EXCEPT ![n] = @ - 1]
         /\ UNCHANGED <<electionVars, consumerVars, up, clientVars>>
         /\ \/ UNCHANGED <<storeVars, faults, sending>>
            \/ LET b == NewBlock(n, t)
               IN /\ Appends(n, b) /\ b.txs = pool[n]
                  /\ sending' = IF Saved(n, b) /\ Nodes # {n}
                                THEN sending \cup {[from |-> n, block |-> b, todo |-> Nodes \ {n}]}
                                ELSE sending
<1>1. mining[n] > 0 /\ n \in up
  BY DEF Mine, Shape
<1>2. CASE pool[n] = <<>>
  BY <1>1, <1>2 DEF Mine
<1>3. CASE pool[n] # <<>>
  <2> DEFINE b == NewBlock(n, t)
  <2>1. /\ MinePendingTransactions(n, b)
        /\ sending' = IF Saved(n, b) /\ Nodes # {n}
                      THEN sending \cup {[from |-> n, block |-> b, todo |-> Nodes \ {n}]}
                      ELSE sending
    BY <1>3 DEF Mine
  <2>2. b.index = Last(chain[n]).index + 1 /\ b.prev = Last(chain[n]) /\ b.txs = pool[n]
    BY DEF NewBlock
  <2>3. b.txs \in Seq(Tx)
    BY <2>2 DEF Shape
  <2> HIDE DEF b
  <2>4. Appends(n, b)
    BY <1>1, <2>1, <2>2, <2>3 DEF Appends, MinePendingTransactions
  <2> QED BY <1>1, <2>1, <2>2, <2>4 DEF Mine, b
<1> QED BY <1>2, <1>3

\* A received block is appended or ignored, and has one node less to go to.
LEMMA ReceiveIs ==
  ASSUME Shape, Tables, NEW s \in sending, NEW p \in s.todo, ReceiveBlock(s, p)
  PROVE  /\ s.from \in up /\ p \in Nodes /\ p # s.from
         /\ sending' = (sending \ {s}) \cup
              (IF s.todo = {p} THEN {} ELSE {[s EXCEPT !.todo = @ \ {p}]})
         /\ UNCHANGED <<mining, electionVars, consumerVars, up, clientVars>>
         /\ UNCHANGED <<storeVars, faults>> \/ Appends(p, s.block)
<1>1. s.from \in up /\ p \in Nodes /\ p # s.from /\ s.block.txs \in Seq(Tx)
  BY DEF Shape
<1>2. UNCHANGED <<storeVars, faults>> \/ Appends(p, s.block)
  BY <1>1 DEF ReceiveBlock, AddBlock, Appends
<1> QED BY <1>1, <1>2 DEF ReceiveBlock

\* What is sent after a step was sent before, or is the block just mined.
LEMMA SentIs ==
  ASSUME Shape, Tables, NEW s \in sending, NEW p \in s.todo, ReceiveBlock(s, p),
         NEW x \in sending'
  PROVE  /\ x = [from |-> x.from, block |-> x.block, todo |-> x.todo]
         /\ x.todo \subseteq Nodes \ {x.from} /\ x.todo # {}
         /\ \E y \in sending : x.from = y.from /\ x.block = y.block
<1>1. CASE x \in sending
  BY <1>1 DEF Shape
<1>2. CASE x \notin sending
  <2>1. s.todo # {p} /\ x = [s EXCEPT !.todo = @ \ {p}]
    BY <1>2 DEF ReceiveBlock
  <2>2. s = [from |-> s.from, block |-> s.block, todo |-> s.todo] /\ s.todo \subseteq Nodes \ {s.from}
    BY DEF Shape
  <2>3. x = [from |-> s.from, block |-> s.block, todo |-> s.todo \ {p}]
    BY <2>1, <2>2
  <2>4. s.todo \ {p} # {} /\ s.todo \ {p} \subseteq Nodes \ {s.from}
    BY <2>1, <2>2
  <2> QED BY <2>3, <2>4
<1> QED BY <1>1, <1>2

(* The jobs of handlers. *)

\* A handler is a node and one of its consumers.
LEMMA HandlerIs ==
  ASSUME NEW h \in Handlers
  PROVE  /\ h[1] \in Nodes /\ h[2] \in Consumers /\ h = <<h[1], h[2]>>
         /\ \A n \in Nodes : h \in HandlersOf(n) <=> h[1] = n
BY DEF Handlers, HandlersOf

\* A handler is idle, or at one of its steps with a command.
LEMMA JobIs ==
  ASSUME Shape, NEW h \in Handlers
  PROVE  \/ job[h] = Idle /\ ~Busy(h) /\ At(h, "idle")
         \/ /\ Busy(h) /\ ~At(h, "idle") /\ h \in consuming /\ h[1] \in up
            /\ job[h] = [at |-> job[h].at, tx |-> job[h].tx, owned |-> job[h].owned]
            /\ job[h].at \in {"funds", "add", "tell", "ack"}
            /\ job[h].tx \in Commands /\ job[h].owned \in BOOLEAN
<1>1. job[h] \in Jobs /\ (Busy(h) => h \in consuming /\ h[1] \in up)
  BY DEF Shape
<1>2. CASE job[h] = Idle
  BY <1>2 DEF Busy, At, Idle
<1>3. CASE job[h] # Idle
  BY <1>1, <1>3 DEF Busy, At, Jobs
<1> QED BY <1>2, <1>3

\* What a handler is at is at work.
LEMMA BusyIs ==
  ASSUME Shape, NEW h \in Handlers
  PROVE  /\ CheckFunds(h) \/ AddTransactionToPool(h) \/ Accept(h) \/ Ack(h) \/ LoseConnection(h) => Busy(h)
         /\ Busy(h) => h \in consuming /\ h[1] \in up /\ h[1] \in Nodes /\ job[h].tx \in Commands
<1>1. CheckFunds(h) \/ AddTransactionToPool(h) \/ Accept(h) \/ Ack(h) => ~At(h, "idle")
  BY DEF CheckFunds, AddTransactionToPool, Accept, Ack, At
<1>2. LoseConnection(h) => ~At(h, "idle")
  BY DEF LoseConnection
<1> QED BY <1>1, <1>2, JobIs, HandlerIs

\* Only a delivery that is still the connection's goes back to the queue.
LEMMA RequeuedIs ==
  ASSUME Shape, NEW h \in Handlers, NEW q \in Seq(Commands)
  PROVE  /\ Requeued(h, q) \in Seq(Commands)
         /\ Requeued(h, q) = IF Busy(h) /\ job[h].owned THEN <<job[h].tx>> \o q ELSE q
<1>1. Busy(h) => job[h].tx \in Commands /\ ~At(h, "idle")
  BY JobIs
<1>2. ~Busy(h) => At(h, "idle")
  BY JobIs
<1>3. Requeued(h, q) = IF Busy(h) /\ job[h].owned THEN <<job[h].tx>> \o q ELSE q
  BY <1>1, <1>2 DEF Requeued
<1> QED BY <1>1, <1>3

\* The next step of a handler, with the same command.
LEMMA GotoIs ==
  ASSUME Shape, NEW h \in Handlers, Busy(h), NEW s \in {"funds", "add", "tell", "ack"}, Goto(h, s)
  PROVE  /\ job' \in [Handlers -> Jobs] /\ Busy(h)'
         /\ job'[h].at = s /\ job'[h].tx = job[h].tx /\ job'[h].owned = job[h].owned
         /\ \A g \in Handlers \ {h} : job'[g] = job[g]
<1>1. /\ job \in [Handlers -> Jobs]
      /\ job[h] = [at |-> job[h].at, tx |-> job[h].tx, owned |-> job[h].owned]
      /\ job[h].tx \in Commands /\ job[h].owned \in BOOLEAN
  BY JobIs DEF Shape
<1>2. job' = [job EXCEPT ![h] = [at |-> s, tx |-> job[h].tx, owned |-> job[h].owned]]
  <2>1. job' = [job EXCEPT ![h] = [job[h] EXCEPT !.at = s]]
    BY DEF Goto
  <2>2. \A r : r = [at |-> r.at, tx |-> r.tx, owned |-> r.owned]
                => [r EXCEPT !.at = s] = [at |-> s, tx |-> r.tx, owned |-> r.owned]
    OBVIOUS
  <2> QED BY <1>1, <2>1, <2>2
<1>3. [at |-> s, tx |-> job[h].tx, owned |-> job[h].owned] \in Jobs
  BY <1>1 DEF Jobs
<1>4. job' \in [Handlers -> Jobs] /\ job'[h] = [at |-> s, tx |-> job[h].tx, owned |-> job[h].owned]
      /\ \A g \in Handlers \ {h} : job'[g] = job[g]
  BY <1>1, <1>2, <1>3
<1>5. job'[h] # Idle
  <2>1. DOMAIN job'[h] = {"at", "tx", "owned"}
    BY <1>4
  <2>2. DOMAIN Idle = {"at"}
    BY DEF Idle
  <2>3. "tx" \in DOMAIN job'[h] /\ "tx" \notin DOMAIN Idle
    BY <2>1, <2>2
  <2> QED BY <2>3
<1> QED BY <1>4, <1>5 DEF Busy

\* The head of the queue comes to an idle handler.
LEMMA DeliverIs ==
  ASSUME Shape, NEW h \in Handlers, Deliver(h)
  PROVE  /\ h \in consuming /\ h[1] \in up /\ ~Busy(h) /\ queue # <<>> /\ queue' = Tail(queue)
         /\ Head(queue) \in Commands /\ queue' \in Seq(Commands)
         /\ job' \in [Handlers -> Jobs] /\ Busy(h)'
         /\ job'[h].at = (IF HasTransaction(h[1], Head(queue)) THEN "ack"
                          ELSE IF Head(queue).sender = "" THEN "add" ELSE "funds")
         /\ job'[h].tx = Head(queue) /\ job'[h].owned = TRUE
         /\ \A g \in Handlers \ {h} : job'[g] = job[g]
         /\ UNCHANGED <<consumer, consuming, answered, unanswered,
                        electionVars, storeVars, minerVars, failureVars, clientVars>>
<1> DEFINE tx == Head(queue)
           s == IF HasTransaction(h[1], tx) THEN "ack" ELSE IF tx.sender = "" THEN "add" ELSE "funds"
           new == [at |-> s, tx |-> tx, owned |-> TRUE]
<1>1. h \in consuming /\ h[1] \in up /\ At(h, "idle") /\ queue # <<>> /\ queue \in Seq(Commands)
  BY DEF Deliver, Shape
<1>2. ~Busy(h)
  BY <1>1, JobIs
<1>3. tx \in Commands /\ Tail(queue) \in Seq(Commands)
  BY <1>1
<1>4. s \in {"funds", "add", "tell", "ack"}
  OBVIOUS
<1>5. new \in Jobs /\ new # Idle
  <2> HIDE DEF s, tx
  <2>1. new \in Jobs
    BY <1>3, <1>4 DEF Jobs
  <2>2. DOMAIN new = {"at", "tx", "owned"} /\ DOMAIN Idle = {"at"}
    BY DEF Idle
  <2>3. "tx" \in DOMAIN new /\ "tx" \notin DOMAIN Idle
    BY <2>2
  <2> QED BY <2>1, <2>3
<1>6. job' = [job EXCEPT ![h] = new] /\ queue' = Tail(queue)
      /\ UNCHANGED <<consumer, consuming, answered, unanswered,
                     electionVars, storeVars, minerVars, failureVars, clientVars>>
  BY DEF Deliver
<1>7. job \in [Handlers -> Jobs]
  BY DEF Shape
<1>8. job' \in [Handlers -> Jobs] /\ job'[h] = new /\ \A g \in Handlers \ {h} : job'[g] = job[g]
  <2> HIDE DEF new
  <2> QED BY <1>5, <1>6, <1>7
<1>9. Busy(h)'
  BY <1>5, <1>8 DEF Busy
<1>10. job'[h].at = s /\ job'[h].tx = tx /\ job'[h].owned = TRUE
  <2> HIDE DEF s, tx
  <2> QED BY <1>8
<1> QED BY <1>1, <1>2, <1>3, <1>6, <1>8, <1>9, <1>10

\* An answer is published, or what it answers is counted as unanswered.
LEMMA PublishIs ==
  ASSUME Shape, NEW h \in Handlers, Busy(h), NEW accepted \in BOOLEAN, Publish(h, accepted)
  PROVE  /\ \A a \in answered' : \/ a \in answered
                                 \/ a.tx = job[h].tx /\ a.by = h[1] /\ a.accepted = accepted
         /\ answered' \subseteq [tx : Commands, by : Nodes, accepted : BOOLEAN]
         /\ unanswered' \subseteq Commands
         /\ faults' \in [FaultKinds -> Nat] /\ \A k \in FaultKinds : Never(k)' => Never(k)
         /\ \A k \in FaultKinds \ {"publish"} : faults'[k] = faults[k]
<1> DEFINE a == [tx |-> job[h].tx, by |-> h[1], accepted |-> accepted]
<1>1. job[h].tx \in Commands /\ h[1] \in Nodes
  BY BusyIs
<1>2. /\ a \in [tx : Commands, by : Nodes, accepted : BOOLEAN]
      /\ a.tx = job[h].tx /\ a.by = h[1] /\ a.accepted = accepted
  BY <1>1
<1> HIDE DEF a
<1>3. /\ answered \subseteq [tx : Commands, by : Nodes, accepted : BOOLEAN]
      /\ unanswered \subseteq Commands /\ faults \in [FaultKinds -> Nat]
  BY DEF Shape
<1>4. CASE answered' = answered \cup {a} /\ UNCHANGED <<unanswered, faults>>
  BY <1>2, <1>3, <1>4 DEF Never
<1>5. CASE Fault("publish") /\ unanswered' = unanswered \cup {job[h].tx} /\ UNCHANGED answered
  <2>1. faults' \in [FaultKinds -> Nat] /\ \A k \in FaultKinds : Never(k)' => Never(k)
    BY <1>5, FaultIs DEF FaultKinds
  <2>2. \A k \in FaultKinds \ {"publish"} : faults'[k] = faults[k]
    BY <1>3, <1>5 DEF Fault
  <2> QED BY <1>1, <1>3, <1>5, <2>1, <2>2
<1> QED BY <1>4, <1>5 DEF Publish, a

\* What follows is about steps, which leave groups of variables unchanged.
USE DEF electionVars, storeVars, minerVars, consumerVars, failureVars, clientVars

\* The requests are a sequence of transactions; those with an id are sent once.
LEMMA RequestsAre ==
  /\ Requests \in Seq(Tx) /\ Len(Requests) \in Nat /\ DOMAIN Requests = 1..Len(Requests)
  /\ \A tx \in Tx : tx.id \in STRING /\ tx.sender \in STRING /\ tx.receiver \in STRING /\ tx.amount \in Int
  /\ \A i, j \in DOMAIN Requests : Requests[i] \in Commands /\ Requests[i] = Requests[j] => i = j
<1> DEFINE R == [id : STRING, sender : STRING, receiver : STRING, amount : Int]
<1>0. Requests \in Seq(R)
  BY RequestsAssumption DEF RequestsAssumption
<1>1. \A i, j \in DOMAIN Requests : Requests[i].id # "" /\ Requests[i].id = Requests[j].id => i = j
  BY RequestsAssumption DEF RequestsAssumption
<1>2. \A r \in R : r.id \in STRING /\ r.sender \in STRING /\ r.receiver \in STRING /\ r.amount \in Int
  OBVIOUS
<1> HIDE DEF R
<1>3. Len(Requests) \in Nat /\ DOMAIN Requests = 1..Len(Requests) /\ \A i \in DOMAIN Requests : Requests[i] \in R
  BY <1>0
<1>4. \A tx \in Tx : tx \in R
  BY <1>3 DEF Tx, Range
<1>5. Requests \in Seq(Tx)
  BY <1>0, SeqOfRange DEF Tx
<1>6. \A tx \in Commands : tx.id # ""
  BY DEF Commands
<1> QED BY <1>1, <1>2, <1>3, <1>4, <1>5, <1>6

\* The tables depend on who runs, the chains and the tables of rows only.
LEMMA SameTables ==
  ASSUME Tables, up' \subseteq up, chain' = chain, rows' = rows
  PROVE  Tables'
BY DEF Tables, OnNodes

\* The first state.
LEMMA ShapeInit ==
  ASSUME Init
  PROVE  Shape /\ Tables
<1>1. Blocks(<<Genesis>>)
  <2> DEFINE c == <<Genesis>>
  <2>1. c \in Seq({Genesis}) /\ Len(c) = 1 /\ c[1] = Genesis /\ DOMAIN c = {1}
    OBVIOUS
  <2>2. c \in Seq(Range(c))
    BY <2>1, SeqOfRange
  <2>3. Genesis.index = 0 /\ Genesis.txs = <<>>
    BY DEF Genesis
  <2> HIDE DEF c
  <2>4. c # <<>> /\ \A i \in DOMAIN c : c[i].index \in Nat /\ c[i].txs \in Seq(Tx)
    <3>1. <<>> \in Seq(Tx)
      OBVIOUS
    <3>2. Genesis.index \in Nat /\ Genesis.txs \in Seq(Tx)
      BY <2>3, <3>1
    <3>3. c # <<>>
      BY <2>1
    <3>4. \A i \in DOMAIN c : c[i] = Genesis
      BY <2>1
    <3> QED BY <3>2, <3>3, <3>4, Zenon
  <2>5. Ascending(c)
    BY <2>1 DEF Ascending
  <2> QED BY <2>2, <2>4, <2>5 DEF Blocks, c
<1>2. Last(<<Genesis>>).index \in Nat
  BY <1>1, LastOf
<1>3. Tables
  BY <1>1, <1>2 DEF Init, Tables, OnNodes
<1>4. job \in [Handlers -> Jobs] /\ \A h \in Handlers : ~Busy(h)
  BY DEF Init, Jobs, Busy
<1>5. Len(Requests) \in Nat
  BY RequestsAre
<1>6. faults \in [FaultKinds -> Nat] /\ pool \in [Nodes -> Seq(Tx)] /\ queue \in Seq(Commands)
  BY DEF Init
<1> QED BY <1>3, <1>4, <1>5, <1>6 DEF Init, Shape, NoLeader

\* Elections and heartbeats, for which the rest of the state does not matter.
ElectionShape ==
  /\ due \subseteq up
  /\ leader \in [Nodes -> Nodes \cup {NoLeader}] /\ beat \in [Nodes -> Nodes \cup {NoLeader}]
  /\ telling \in [Nodes -> SUBSET Nodes] /\ \A m \in Nodes : m \notin telling[m]
  /\ \A m \in Nodes \ up : beat[m] = NoLeader

LEMMA ShapeElecting ==
  ASSUME Shape, NEW n \in Nodes, Electing(n) \/ Heartbeat(n)
  PROVE  Shape' /\ UNCHANGED <<storeVars, minerVars, consumerVars, failureVars, clientVars>>
<1>0. UNCHANGED <<storeVars, minerVars, consumerVars, failureVars, clientVars>>
  BY DEF Electing, Heartbeat, StartElection, Announce, ReadLeader, LeaderAlive, LeaderDown
<1>00. up' = up /\ ElectionShape
  BY <1>0 DEF Shape, ElectionShape
<1>1. ASSUME StartElection(n) PROVE ElectionShape'
  <2>1. n \in up /\ Higher(n) \subseteq Nodes
    BY <1>1 DEF StartElection, Higher, Shape
  <2>2. \/ due' = (due \ {n}) \cup (Higher(n) \cap up) /\ UNCHANGED <<leader, telling>>
        \/ due' = due \ {n} /\ ProclaimCoordinator(n)
    BY <1>1 DEF StartElection
  <2>3. due' \subseteq up
    BY <2>2 DEF Shape
  <2>4. /\ leader' \in [Nodes -> Nodes \cup {NoLeader}]
        /\ telling' \in [Nodes -> SUBSET Nodes] /\ \A m \in Nodes : m \notin telling'[m]
    <3>1. CASE UNCHANGED <<leader, telling>>
      BY <3>1 DEF Shape
    <3>2. CASE ProclaimCoordinator(n)
      BY <3>2 DEF ProclaimCoordinator, Shape
    <3> QED BY <2>2, <3>1, <3>2
  <2>5. beat' = beat
    BY <1>1 DEF StartElection
  <2> QED BY <1>00, <2>3, <2>4, <2>5 DEF ElectionShape
<1>2. ASSUME NEW p \in Nodes, Announce(n, p) PROVE ElectionShape'
  <2>1. p \in telling[n] /\ telling' = [telling EXCEPT ![n] = @ \ {p}] /\ due' = due /\ beat' = beat
        /\ (leader' = [leader EXCEPT ![p] = n] \/ leader' = leader)
    BY <1>2 DEF Announce
  <2> QED BY <1>00, <2>1 DEF ElectionShape
<1>3. ASSUME ReadLeader(n) PROVE ElectionShape'
  <2>1. /\ n \in up /\ leader' = leader /\ telling' = telling
        /\ \/ due' = due \cup {n} /\ beat' = beat
           \/ due' = due /\ beat' = [beat EXCEPT ![n] = leader[n]]
    BY <1>3 DEF ReadLeader
  <2> QED BY <1>00, <2>1 DEF ElectionShape
<1>4. ASSUME LeaderAlive(n) PROVE ElectionShape'
  <2>1. leader' = leader /\ telling' = telling /\ due' = due /\ beat' = [beat EXCEPT ![n] = NoLeader]
    BY <1>4 DEF LeaderAlive
  <2> QED BY <1>00, <2>1 DEF ElectionShape
<1>5. ASSUME LeaderDown(n) PROVE ElectionShape'
  <2>1. /\ leader' = [leader EXCEPT ![n] = NoLeader] /\ telling' = telling /\ due' = due \cup {n}
        /\ beat' = [beat EXCEPT ![n] = NoLeader] /\ beat[n] \in Nodes
    BY <1>5 DEF LeaderDown
  <2>2. n \in up
    BY <1>00, <2>1, BlockchainAssumption DEF ElectionShape, NoLeader
  <2> QED BY <1>00, <2>1, <2>2 DEF ElectionShape
<1>6. ElectionShape'
  BY <1>1, <1>2, <1>3, <1>4, <1>5 DEF Electing, Heartbeat
<1> QED BY <1>0, <1>6 DEF Shape, ElectionShape, Busy

\* The monitor starts a consumer, or leaves one to itself.
LEMMA MonitorIs ==
  ASSUME Shape, NEW n \in Nodes, Monitor(n)
  PROVE  /\ n \in up /\ UNCHANGED <<queue, job, answered, unanswered, electionVars, storeVars, minerVars, up, clientVars>>
         /\ consumer' \in [Nodes -> {NoConsumer} \cup Consumers]
         /\ faults' \in [FaultKinds -> Nat] /\ \A k \in FaultKinds : Never(k)' => Never(k)
         /\ \A k \in FaultKinds \ {"overlap"} : faults'[k] = faults[k]
         /\ \/ /\ consuming' = consuming /\ consumer' = [consumer EXCEPT ![n] = NoConsumer]
            \/ \E c \in Consumers :
                 /\ consuming' = consuming \cup {<<n, c>>} /\ consumer' = [consumer EXCEPT ![n] = c]
                 /\ leader[n] = n
                 /\ Never("overlap")' => \A h \in consuming : h[1] # n
<1>1. n \in up /\ UNCHANGED <<queue, job, answered, unanswered, electionVars, storeVars, minerVars, up, clientVars>>
  BY DEF Monitor
<1>2. faults \in [FaultKinds -> Nat] /\ consumer \in [Nodes -> {NoConsumer} \cup Consumers]
  BY DEF Shape
<1>3. CASE Stop(n)
  BY <1>1, <1>2, <1>3 DEF Stop, Never
<1>4. ASSUME NEW c \in Consumers, Start(n, c)
      PROVE  /\ faults' \in [FaultKinds -> Nat] /\ \A k \in FaultKinds : Never(k)' => Never(k)
             /\ \A k \in FaultKinds \ {"overlap"} : faults'[k] = faults[k]
             /\ consuming' = consuming \cup {<<n, c>>} /\ consumer' = [consumer EXCEPT ![n] = c]
             /\ leader[n] = n
             /\ Never("overlap")' => \A h \in consuming : h[1] # n
  <2>1. leader[n] = n /\ consuming' = consuming \cup {<<n, c>>} /\ consumer' = [consumer EXCEPT ![n] = c]
    BY <1>4 DEF Start
  <2>2. CASE HandlersOf(n) \cap consuming = {} /\ UNCHANGED faults
    <3>1. \A h \in consuming : h[1] # n
      BY <2>2, HandlerIs DEF Shape
    <3> QED BY <1>2, <2>1, <2>2, <3>1 DEF Never
  <2>3. CASE Fault("overlap")
    <3>1. /\ faults' \in [FaultKinds -> Nat] /\ ~Never("overlap")'
          /\ \A k \in FaultKinds : Never(k)' => Never(k)
      BY <2>3, FaultIs DEF FaultKinds
    <3>2. \A k \in FaultKinds \ {"overlap"} : faults'[k] = faults[k]
      BY <1>2, <2>3 DEF Fault
    <3> QED BY <2>1, <3>1, <3>2
  <2> QED BY <1>4, <2>2, <2>3 DEF Start
<1>5. \E c \in Consumers : Start(n, c) \/ Stop(n)
  BY DEF Monitor, Consumers
<1>6. CASE \E c \in Consumers : Start(n, c)
  <2>1. PICK c \in Consumers : Start(n, c)
    BY <1>6
  <2>2. consumer' \in [Nodes -> {NoConsumer} \cup Consumers]
    BY <1>2, <1>4, <2>1
  <2> QED BY <1>1, <1>4, <2>1, <2>2
<1>7. consumer' \in [Nodes -> {NoConsumer} \cup Consumers]
  BY <1>2, <1>3, <1>5, <1>6, <1>4 DEF Stop
<1> QED BY <1>3, <1>5, <1>6

LEMMA ShapeMonitor ==
  ASSUME Shape, NEW n \in Nodes, Monitor(n)
  PROVE  Shape' /\ UNCHANGED <<up, chain, rows, pool, sending>>
<1>1. /\ n \in up /\ UNCHANGED <<queue, job, answered, unanswered, electionVars, storeVars, minerVars, up, clientVars>>
      /\ faults' \in [FaultKinds -> Nat] /\ consumer' \in [Nodes -> {NoConsumer} \cup Consumers]
  BY MonitorIs
<1>2. CASE consuming' = consuming /\ consumer' = [consumer EXCEPT ![n] = NoConsumer]
  <2>1. \A m \in Nodes : consumer'[m] # NoConsumer => <<m, consumer'[m]>> \in consuming'
    BY <1>2 DEF Shape
  <2> QED BY <1>1, <1>2, <2>1 DEF Shape, Busy
<1>3. ASSUME NEW c \in Consumers,
             consuming' = consuming \cup {<<n, c>>}, consumer' = [consumer EXCEPT ![n] = c]
      PROVE  Shape'
  <2>1. \A m \in Nodes : consumer'[m] # NoConsumer => <<m, consumer'[m]>> \in consuming'
    BY <1>3 DEF Shape
  <2>2. consuming' \subseteq Handlers /\ \A h \in consuming' : h[1] \in up'
    BY <1>1, <1>3 DEF Shape, Handlers
  <2>3. \A h \in Handlers : Busy(h)' => h \in consuming'
    BY <1>1, <1>3 DEF Shape, Busy
  <2> QED BY <1>1, <2>1, <2>2, <2>3 DEF Shape
<1> QED BY <1>1, <1>2, <1>3, MonitorIs

LEMMA ShapeHandler ==
  ASSUME Shape, NEW h \in Handlers, Handler(h)
  PROVE  Shape' /\ UNCHANGED <<up, chain, rows, sending>>
<1> DEFINE n == h[1]
<1>0. n \in Nodes /\ UNCHANGED <<up, chain, rows, sending>>
  BY HandlerIs DEF Handler, Deliver, CheckFunds, AddTransactionToPool, Accept, Ack, End
<1> HIDE DEF n
<1>1. CASE End(h)
  <2>1. /\ consuming' = consuming \ {h} /\ consumer[h[1]] # h[2] /\ At(h, "idle")
        /\ UNCHANGED <<queue, consumer, job, answered, unanswered,
                       electionVars, storeVars, minerVars, failureVars, clientVars>>
    BY <1>1 DEF End
  <2>2. ~Busy(h)
    BY <2>1, JobIs
  <2>3. \A m \in Nodes : consumer[m] # NoConsumer => <<m, consumer[m]>> # h
    BY <2>1
  <2> QED BY <2>1, <2>2, <2>3 DEF Shape, Busy
<1>2. CASE Deliver(h)
  <2>1. /\ h \in consuming /\ queue' \in Seq(Commands) /\ job' \in [Handlers -> Jobs]
        /\ \A g \in Handlers \ {h} : job'[g] = job[g]
        /\ UNCHANGED <<consumer, consuming, answered, unanswered,
                       electionVars, storeVars, minerVars, failureVars, clientVars>>
    BY <1>2, DeliverIs
  <2> QED BY <2>1 DEF Shape, Busy
<1>4. CASE CheckFunds(h)
  <2>1. Busy(h) /\ h \in consuming
    BY <1>4, BusyIs
  <2>2. Goto(h, "ack") \/ Goto(h, "add")
    BY <1>4 DEF CheckFunds
  <2>3. job' \in [Handlers -> Jobs] /\ \A g \in Handlers \ {h} : job'[g] = job[g]
    BY <2>1, <2>2, GotoIs
  <2>4. /\ Publish(h, FALSE) \/ UNCHANGED <<answered, unanswered, faults>>
        /\ UNCHANGED <<queue, consumer, consuming, electionVars, storeVars, minerVars, up, clientVars>>
    BY <1>4 DEF CheckFunds
  <2>5. /\ answered' \subseteq [tx : Commands, by : Nodes, accepted : BOOLEAN]
        /\ unanswered' \subseteq Commands /\ faults' \in [FaultKinds -> Nat]
    <3>1. CASE Publish(h, FALSE)
      BY <2>1, <3>1, PublishIs
    <3>2. CASE UNCHANGED <<answered, unanswered, faults>>
      BY <3>2 DEF Shape
    <3> QED BY <2>4, <3>1, <3>2
  <2> QED BY <2>1, <2>3, <2>4, <2>5 DEF Shape, Busy
<1>5. CASE AddTransactionToPool(h)
  <2>1. Busy(h) /\ h \in consuming /\ job[h].tx \in Commands /\ n \in up
    BY <1>5, BusyIs DEF n
  <2>2. job' \in [Handlers -> Jobs] /\ \A g \in Handlers \ {h} : job'[g] = job[g]
    BY <1>5, <2>1, GotoIs DEF AddTransactionToPool
  <2>3. pool' \in [Nodes -> Seq(Tx)] /\ \A m \in Nodes \ {n} : pool'[m] = pool[m]
    <3>1. job[h].tx \in Tx
      BY <2>1 DEF Commands, Tx
    <3> QED BY <1>0, <1>5, <3>1 DEF Shape, AddTransactionToPool, n
  <2> QED BY <1>5, <2>1, <2>2, <2>3 DEF Shape, Busy, AddTransactionToPool
<1>6. CASE Accept(h)
  <2>1. Busy(h) /\ h \in consuming /\ n \in up
    BY <1>6, BusyIs DEF n
  <2>2. job' \in [Handlers -> Jobs] /\ \A g \in Handlers \ {h} : job'[g] = job[g]
    BY <1>6, <2>1, GotoIs DEF Accept
  <2>3. /\ answered' \subseteq [tx : Commands, by : Nodes, accepted : BOOLEAN]
        /\ unanswered' \subseteq Commands /\ faults' \in [FaultKinds -> Nat]
    BY <1>6, <2>1, PublishIs DEF Accept
  <2>4. mining' \in [Nodes -> Nat] /\ \A m \in Nodes \ {n} : mining'[m] = mining[m]
    BY <1>0, <1>6 DEF Shape, Accept, n
  <2> QED BY <1>6, <2>1, <2>2, <2>3, <2>4 DEF Shape, Busy, Accept
<1>7. CASE Ack(h)
  <2>1. job' \in [Handlers -> Jobs] /\ \A g \in Handlers : job'[g] = Idle \/ job'[g] = job[g]
    BY <1>7 DEF Ack, Shape, Jobs
  <2> QED BY <1>7, <2>1 DEF Shape, Busy, Ack
<1> QED BY <1>0, <1>1, <1>2, <1>4, <1>5, <1>6, <1>7 DEF Handler

LEMMA ShapeClient ==
  ASSUME Shape, Request \/ Expire \/ \E n \in Nodes : ReceiveTransaction(n)
  PROVE  Shape' /\ UNCHANGED <<up, chain, rows, sending>>
<1>1. Len(Requests) \in Nat /\ requested \in 0..Len(Requests)
  BY RequestsAre DEF Shape
<1> DEFINE tx == Requests[requested + 1]
<1>2. ASSUME Request \/ \E n \in Nodes : ReceiveTransaction(n)
      PROVE  requested' \in 0..Len(Requests) /\ tx \in Tx
  <2>1. requested < Len(Requests) /\ requested' = requested + 1
    BY <1>2, Zenon DEF Request, ReceiveTransaction
  <2>2. requested' \in 0..Len(Requests) /\ requested + 1 \in 1..Len(Requests)
    BY <1>1, <2>1
  <2> QED BY <2>2, RequestsAre DEF Tx, Range
<1>3. CASE Expire
  <2>1. queue' = Tail(queue) /\ unanswered' = unanswered \cup {Head(queue)} /\ queue # <<>>
        /\ UNCHANGED <<consumer, consuming, job, answered, electionVars, storeVars, minerVars, failureVars, clientVars>>
    BY <1>3 DEF Expire
  <2>2. queue' \in Seq(Commands) /\ unanswered' \subseteq Commands
    BY <2>1 DEF Shape
  <2> QED BY <2>1, <2>2 DEF Shape, Busy
<1>4. CASE Request
  <2>1. tx \in Commands
    BY <1>2, <1>4 DEF Commands, Tx, Request
  <2>2. queue' = Append(queue, tx)
        /\ UNCHANGED <<consumer, consuming, job, answered, unanswered, electionVars, storeVars, minerVars, failureVars>>
    BY <1>4 DEF Request
  <2>4. requested' \in 0..Len(Requests)
    BY <1>2, <1>4
  <2> HIDE DEF tx
  <2>3. queue' \in Seq(Commands)
    BY <2>1, <2>2 DEF Shape
  <2> QED BY <2>2, <2>3, <2>4 DEF Shape, Busy
<1>5. ASSUME NEW n \in Nodes, ReceiveTransaction(n) PROVE Shape' /\ UNCHANGED <<up, chain, rows, sending>>
  <2>1. n \in up /\ pool' = [pool EXCEPT ![n] = Append(@, tx)]
        /\ UNCHANGED <<sending, chain, rows, electionVars, consumerVars, failureVars>>
        /\ mining' = IF leader[n] = n THEN [mining EXCEPT ![n] = @ + 1] ELSE mining
    BY <1>5 DEF ReceiveTransaction
  <2>3. requested' \in 0..Len(Requests) /\ tx \in Tx
    BY <1>2, <1>5
  <2> HIDE DEF tx
  <2>2. pool' \in [Nodes -> Seq(Tx)] /\ mining' \in [Nodes -> Nat]
        /\ \A m \in Nodes \ {n} : pool'[m] = pool[m] /\ mining'[m] = mining[m]
    BY <2>1, <2>3 DEF Shape
  <2> QED BY <2>1, <2>2, <2>3 DEF Shape, Busy
<1> QED BY <1>3, <1>4, <1>5 DEF Expire, Request

\* A lost connection only takes the delivery from the handler.
LEMMA LossIs ==
  ASSUME Shape, NEW h \in Handlers, LoseConnection(h)
  PROVE  /\ Busy(h) /\ job[h].owned
         /\ queue' \in Seq(Commands) /\ queue' = <<job[h].tx>> \o queue
         /\ job' \in [Handlers -> Jobs] /\ Busy(h)'
         /\ job'[h].at = job[h].at /\ job'[h].tx = job[h].tx
         /\ \A g \in Handlers \ {h} : job'[g] = job[g]
         /\ faults' \in [FaultKinds -> Nat] /\ ~Never("loss")' /\ \A k \in FaultKinds : Never(k)' => Never(k)
         /\ UNCHANGED <<consumer, consuming, answered, unanswered, electionVars, storeVars, minerVars, up, clientVars>>
<1>1. Busy(h) /\ job[h].owned
  BY BusyIs DEF LoseConnection
<1>2. /\ faults' \in [FaultKinds -> Nat] /\ ~Never("loss")' /\ \A k \in FaultKinds : Never(k)' => Never(k)
      /\ queue' = Requeued(h, queue) /\ job' = [job EXCEPT ![h].owned = FALSE]
      /\ UNCHANGED <<consumer, consuming, answered, unanswered, electionVars, storeVars, minerVars, up, clientVars>>
  BY FaultIs DEF LoseConnection, FaultKinds
<1>3. queue' \in Seq(Commands) /\ queue' = <<job[h].tx>> \o queue
  BY <1>1, <1>2, RequeuedIs DEF Shape
<1>4. /\ job[h] = [at |-> job[h].at, tx |-> job[h].tx, owned |-> job[h].owned] /\ job[h] \in Jobs
      /\ job[h].at \in {"funds", "add", "tell", "ack"} /\ job[h].tx \in Commands /\ job \in [Handlers -> Jobs]
  BY <1>1, JobIs DEF Shape
<1>5. \A r, v : r = [at |-> r.at, tx |-> r.tx, owned |-> r.owned]
                 => [r EXCEPT !.owned = v] = [at |-> r.at, tx |-> r.tx, owned |-> v]
  OBVIOUS
<1>6. [job[h] EXCEPT !.owned = FALSE] = [at |-> job[h].at, tx |-> job[h].tx, owned |-> FALSE]
  BY <1>4, <1>5
<1> DEFINE new == [at |-> job[h].at, tx |-> job[h].tx, owned |-> FALSE]
<1>7. new \in Jobs /\ new # Idle /\ new.at = job[h].at /\ new.tx = job[h].tx
  <2>1. "tx" \in DOMAIN new /\ "tx" \notin DOMAIN Idle
    BY DEF Idle
  <2> QED BY <1>4, <2>1 DEF Jobs
<1>8. job' = [job EXCEPT ![h] = new]
  BY <1>2, <1>6
<1> HIDE DEF new
<1>9. job' \in [Handlers -> Jobs] /\ job'[h] = new /\ \A g \in Handlers \ {h} : job'[g] = job[g]
  BY <1>4, <1>7, <1>8
<1> QED BY <1>1, <1>2, <1>3, <1>7, <1>9 DEF Busy

\* After a crash the node has nothing but its table, and the broker has what it
\* was at.
LEMMA CrashIs ==
  ASSUME Shape, Tables, NEW n \in Nodes, Crash(n)
  PROVE  /\ n \in up /\ up' = up \ {n} /\ due' = due \ {n}
         /\ faults' \in [FaultKinds -> Nat] /\ ~Never("crash")' /\ \A k \in FaultKinds : Never(k)' => Never(k)
         /\ leader' \in [Nodes -> Nodes \cup {NoLeader}] /\ leader'[n] = NoLeader
         /\ beat' \in [Nodes -> Nodes \cup {NoLeader}] /\ beat'[n] = NoLeader
         /\ telling' \in [Nodes -> SUBSET Nodes] /\ telling'[n] = {}
         /\ mining' \in [Nodes -> Nat] /\ mining'[n] = 0
         /\ pool' \in [Nodes -> Seq(Tx)] /\ pool'[n] = <<>>
         /\ OnNodes(chain)' /\ chain'[n] = <<>>
         /\ \A m \in Nodes \ {n} : /\ leader'[m] = leader[m] /\ telling'[m] = telling[m] /\ mining'[m] = mining[m]
                                   /\ pool'[m] = pool[m] /\ chain'[m] = chain[m] /\ beat'[m] = beat[m]
                                   /\ consumer'[m] = consumer[m]
         /\ consumer' \in [Nodes -> {NoConsumer} \cup Consumers] /\ consumer'[n] = NoConsumer
         /\ \A h : h \in consuming' <=> h \in consuming /\ h[1] # n
         /\ job' \in [Handlers -> Jobs]
         /\ \A h \in Handlers : job'[h] = IF h[1] = n THEN Idle ELSE job[h]
         /\ sending' = {s \in sending : s.from # n}
         /\ UNCHANGED <<rows, answered, unanswered, clientVars>>
<1>1. /\ n \in up /\ up' = up \ {n} /\ due' = due \ {n} /\ sending' = {s \in sending : s.from # n}
      /\ UNCHANGED <<rows, answered, unanswered, clientVars>>
      /\ consuming' = consuming \ HandlersOf(n)
  BY DEF Crash
<1>2. faults' \in [FaultKinds -> Nat] /\ ~Never("crash")' /\ \A k \in FaultKinds : Never(k)' => Never(k)
  BY FaultIs DEF Crash, FaultKinds
<1>3. /\ leader' \in [Nodes -> Nodes \cup {NoLeader}] /\ leader'[n] = NoLeader
      /\ beat' \in [Nodes -> Nodes \cup {NoLeader}] /\ beat'[n] = NoLeader
      /\ telling' \in [Nodes -> SUBSET Nodes] /\ telling'[n] = {}
      /\ mining' \in [Nodes -> Nat] /\ mining'[n] = 0
      /\ consumer' \in [Nodes -> {NoConsumer} \cup Consumers] /\ consumer'[n] = NoConsumer
      /\ \A m \in Nodes \ {n} : /\ leader'[m] = leader[m] /\ telling'[m] = telling[m]
                                /\ mining'[m] = mining[m] /\ beat'[m] = beat[m] /\ consumer'[m] = consumer[m]
  BY DEF Crash, Shape
<1>4. pool' \in [Nodes -> Seq(Tx)] /\ pool'[n] = <<>> /\ \A m \in Nodes \ {n} : pool'[m] = pool[m]
  <2>1. <<>> \in Seq(Tx)
    OBVIOUS
  <2> QED BY <2>1 DEF Crash, Shape
<1>5. job' \in [Handlers -> Jobs] /\ \A h \in Handlers : job'[h] = IF h[1] = n THEN Idle ELSE job[h]
  <2>1. job' = [h \in Handlers |-> IF h[1] = n THEN Idle ELSE job[h]]
    BY DEF Crash
  <2> QED BY <2>1 DEF Shape, Jobs
<1>6. OnNodes(chain)' /\ chain'[n] = <<>> /\ \A m \in Nodes \ {n} : chain'[m] = chain[m]
  BY DEF Crash, Tables, OnNodes
<1>7. \A h : h \in consuming' <=> h \in consuming /\ h[1] # n
  <2>1. \A h \in consuming : h \in HandlersOf(n) <=> h[1] = n
    BY HandlerIs DEF Shape
  <2> QED BY <1>1, <2>1
<1> QED BY <1>1, <1>2, <1>3, <1>4, <1>5, <1>6, <1>7

\* What the node was at comes back in front of the queue, in some order.
LEMMA CrashQueueIs ==
  ASSUME Shape, NEW n \in Nodes, Crash(n)
  PROVE  /\ queue' \in Seq(Commands)
         /\ \E g, h \in HandlersOf(n) : /\ g # h /\ g \in Handlers /\ h \in Handlers
                                        /\ queue' = Requeued(g, Requeued(h, queue))
<1>1. PICK c \in Consumers, d \in Consumers : c # d /\ queue' = Requeued(<<n, c>>, Requeued(<<n, d>>, queue))
  BY DEF Crash
<1> DEFINE g == <<n, c>>
           h == <<n, d>>
<1>2. g # h /\ g \in Handlers /\ h \in Handlers /\ g \in HandlersOf(n) /\ h \in HandlersOf(n)
  BY <1>1 DEF Handlers, HandlersOf
<1> HIDE DEF g, h
<1>3. Requeued(h, queue) \in Seq(Commands)
  BY <1>2, RequeuedIs DEF Shape
<1>4. Requeued(g, Requeued(h, queue)) \in Seq(Commands)
  BY <1>2, <1>3, RequeuedIs
<1> QED BY <1>1, <1>2, <1>4 DEF g, h

LEMMA ShapeLosses ==
  ASSUME Shape, Tables, NEW n \in Nodes, Crash(n) \/ Restart(n)
  PROVE  Shape' /\ Tables'
<1>2. CASE Crash(n)
  <2>1. /\ n \in up /\ up' = up \ {n} /\ due' = due \ {n}
        /\ faults' \in [FaultKinds -> Nat]
        /\ leader' \in [Nodes -> Nodes \cup {NoLeader}]
        /\ beat' \in [Nodes -> Nodes \cup {NoLeader}] /\ beat'[n] = NoLeader
        /\ telling' \in [Nodes -> SUBSET Nodes] /\ telling'[n] = {}
        /\ mining' \in [Nodes -> Nat] /\ mining'[n] = 0
        /\ pool' \in [Nodes -> Seq(Tx)] /\ pool'[n] = <<>>
        /\ OnNodes(chain)' /\ chain'[n] = <<>>
        /\ \A m \in Nodes \ {n} : /\ telling'[m] = telling[m] /\ mining'[m] = mining[m]
                                  /\ pool'[m] = pool[m] /\ chain'[m] = chain[m] /\ beat'[m] = beat[m]
                                  /\ consumer'[m] = consumer[m]
        /\ consumer' \in [Nodes -> {NoConsumer} \cup Consumers] /\ consumer'[n] = NoConsumer
        /\ \A h : h \in consuming' <=> h \in consuming /\ h[1] # n
        /\ job' \in [Handlers -> Jobs]
        /\ \A h \in Handlers : job'[h] = IF h[1] = n THEN Idle ELSE job[h]
        /\ sending' = {s \in sending : s.from # n}
        /\ UNCHANGED <<rows, answered, unanswered, clientVars>>
    BY <1>2, CrashIs
  <2>2. queue' \in Seq(Commands)
    BY <1>2, CrashQueueIs
  <2>3. \A h \in Handlers : Busy(h)' => h \in consuming'
    BY <2>1 DEF Shape, Busy
  <2>4. /\ consuming' \subseteq Handlers /\ \A h \in consuming' : h[1] \in up'
        /\ \A m \in Nodes : consumer'[m] # NoConsumer => <<m, consumer'[m]>> \in consuming'
    BY <2>1, HandlerIs DEF Shape
  <2>5. \A s \in sending' :
       /\ s = [from |-> s.from, block |-> s.block, todo |-> s.todo]
       /\ s.from \in up' /\ s.todo \subseteq Nodes \ {s.from} /\ s.todo # {}
       /\ s.block.index \in Nat /\ s.block.txs \in Seq(Tx)
    BY <2>1 DEF Shape
  <2>6. ElectionShape'
    BY <2>1 DEF Shape, ElectionShape
  <2>9. /\ up' \subseteq Nodes /\ mining' \in [Nodes -> Nat] /\ requested' \in 0..Len(Requests)
        /\ unanswered' \subseteq Commands /\ answered' \subseteq [tx : Commands, by : Nodes, accepted : BOOLEAN]
        /\ \A m \in Nodes \ up' : chain'[m] = <<>> /\ pool'[m] = <<>> /\ mining'[m] = 0
    BY <2>1 DEF Shape
  <2>10. /\ pool' \in [Nodes -> Seq(Tx)] /\ faults' \in [FaultKinds -> Nat] /\ job' \in [Handlers -> Jobs]
         /\ consumer' \in [Nodes -> {NoConsumer} \cup Consumers]
    BY <2>1
  <2>7. Shape'
    BY <2>2, <2>3, <2>4, <2>5, <2>6, <2>9, <2>10 DEF Shape, ElectionShape
  <2>8. Tables'
    BY <2>1 DEF Tables, Shape, OnNodes
  <2> QED BY <2>7, <2>8
<1>3. CASE Restart(n)
  <2>1. /\ n \notin up /\ faults' \in [FaultKinds -> Nat] /\ up' = up \cup {n}
        /\ chain' = [chain EXCEPT ![n] = LoadBlocks(n)]
        /\ UNCHANGED <<pool, rows, electionVars, minerVars, consumerVars, clientVars>>
    BY <1>3, FaultIs DEF Restart, FaultKinds
  <2>2. Blocks(rows[n]) /\ LoadBlocks(n) = rows[n]
    BY LoadsRows DEF Tables
  <2>3. OnNodes(chain)' /\ chain'[n] = rows[n] /\ \A m \in Nodes \ {n} : chain'[m] = chain[m]
    BY <2>1, <2>2 DEF Tables, OnNodes
  <2>4. Shape'
    BY <2>1, <2>3 DEF Shape, Busy
  <2>5. Last(rows[n]).index <= Last(rows[n]).index
    BY <2>2, LastOf
  <2>6. Tables'
    BY <2>1, <2>2, <2>3, <2>5 DEF Tables, OnNodes
  <2> QED BY <2>4, <2>6
<1> QED BY <1>2, <1>3

\* A consumer without its connection goes on.
LEMMA ShapeLoss ==
  ASSUME Shape, NEW h \in Handlers, LoseConnection(h)
  PROVE  Shape' /\ UNCHANGED <<up, chain, rows, sending>>
<1>1. /\ queue' \in Seq(Commands) /\ job' \in [Handlers -> Jobs] /\ faults' \in [FaultKinds -> Nat]
      /\ UNCHANGED <<consumer, consuming, answered, unanswered, electionVars, storeVars, minerVars, up, clientVars>>
  BY LossIs
<1>2. \A g \in Handlers : Busy(g)' => g \in consuming
  BY LossIs DEF Shape, Busy
<1> QED BY <1>1, <1>2 DEF Shape

\* Appending a block keeps tables below chains.
LEMMA TablesAppend ==
  ASSUME Shape, Tables, NEW n, NEW b, Appends(n, b), up' = up
  PROVE  Tables'
<1>1. /\ n \in Nodes /\ b.index \in Nat /\ OnNodes(chain)' /\ OnNodes(rows)'
      /\ Blocks(chain'[n]) /\ Last(chain'[n]) = b
      /\ \A m \in Nodes \ {n} : chain'[m] = chain[m] /\ rows'[m] = rows[m]
      /\ (Blocks(rows'[n]) /\ Last(rows'[n]) = b) \/ rows' = rows
  BY AppendsIs
<1>2. n \in up /\ b.index = Last(chain[n]).index + 1
  BY DEF Appends
<1>3. Last(rows[n]).index \in Nat /\ Last(chain[n]).index \in Nat /\ Blocks(rows[n])
      /\ Last(rows[n]).index <= Last(chain[n]).index
  BY <1>1, <1>2, LastOf DEF Tables
<1>4. Last(rows'[n]).index <= b.index /\ Blocks(rows'[n])
  BY <1>1, <1>2, <1>3
<1> QED BY <1>1, <1>4 DEF Tables, Shape

LEMMA ShapeMine ==
  ASSUME Shape, Tables, NEW n \in Nodes, NEW t, Mine(n, t)
  PROVE  Shape' /\ Tables'
<1> DEFINE b == NewBlock(n, t)
<1>1. /\ n \in up /\ mining[n] > 0 /\ mining' = [mining EXCEPT ![n] = @ - 1]
      /\ UNCHANGED <<electionVars, consumerVars, up, clientVars>>
  BY MineIs
<1>2. mining' \in [Nodes -> Nat] /\ \A m \in Nodes \ {n} : mining'[m] = mining[m]
  BY <1>1 DEF Shape
<1>3. CASE UNCHANGED <<storeVars, faults, sending>>
  <2>1. Tables'
    BY <1>1, <1>3, SameTables
  <2> QED BY <1>1, <1>2, <1>3, <2>1 DEF Shape, Busy
<1>4. CASE /\ Appends(n, b)
           /\ sending' = IF Saved(n, b) /\ Nodes # {n}
                         THEN sending \cup {[from |-> n, block |-> b, todo |-> Nodes \ {n}]}
                         ELSE sending
  <2> HIDE DEF b
  <2>1. /\ b.index \in Nat /\ pool' \in [Nodes -> Seq(Tx)] /\ faults' \in [FaultKinds -> Nat]
        /\ \A m \in Nodes \ {n} : chain'[m] = chain[m] /\ pool'[m] = pool[m]
    BY <1>4, AppendsIs
  <2>2. b.txs \in Seq(Tx)
    BY <1>4 DEF Appends
  <2>3. \A s \in sending' : s \in sending \/ s = [from |-> n, block |-> b, todo |-> Nodes \ {n}]
    BY <1>4
  <2>4. \A s \in sending' :
          /\ s = [from |-> s.from, block |-> s.block, todo |-> s.todo]
          /\ s.from \in up' /\ s.todo \subseteq Nodes \ {s.from} /\ s.todo # {}
          /\ s.block.index \in Nat /\ s.block.txs \in Seq(Tx)
    <3>1. CASE Nodes = {n}
      BY <1>1, <1>4, <3>1 DEF Shape
    <3>2. CASE Nodes # {n}
      <4>1. Nodes \ {n} # {}
        BY <1>1, <3>2 DEF Shape
      <4>2. TAKE s \in sending'
      <4>3. CASE s \in sending
        BY <1>1, <4>3 DEF Shape
      <4>4. CASE s = [from |-> n, block |-> b, todo |-> Nodes \ {n}]
        <5>1. s.from = n /\ s.block = b /\ s.todo = Nodes \ {n}
          BY <4>4
        <5>2. s.from \in up' /\ s.todo \subseteq Nodes \ {s.from} /\ s.todo # {}
          BY <1>1, <4>1, <5>1
        <5> QED BY <2>1, <2>2, <4>4, <5>1, <5>2
      <4> QED BY <2>3, <4>3, <4>4
    <3> QED BY <3>1, <3>2
  <2>5. Tables'
    BY <1>1, <1>4, TablesAppend
  <2> QED BY <1>1, <1>2, <2>1, <2>4, <2>5 DEF Shape, Busy
<1> QED BY <1>3, <1>4, MineIs

LEMMA ShapeReceive ==
  ASSUME Shape, Tables, NEW s \in sending, NEW p \in s.todo, ReceiveBlock(s, p)
  PROVE  Shape' /\ Tables'
<1>1. /\ p \in Nodes /\ UNCHANGED <<mining, electionVars, consumerVars, up, clientVars>>
      /\ UNCHANGED <<storeVars, faults>> \/ Appends(p, s.block)
  BY ReceiveIs
<1>2. \A x \in sending' :
        /\ x = [from |-> x.from, block |-> x.block, todo |-> x.todo]
        /\ x.from \in up' /\ x.todo \subseteq Nodes \ {x.from} /\ x.todo # {}
        /\ x.block.index \in Nat /\ x.block.txs \in Seq(Tx)
  <2> TAKE x \in sending'
  <2>1. PICK y \in sending : x.from = y.from /\ x.block = y.block
    BY SentIs
  <2>2. /\ x = [from |-> x.from, block |-> x.block, todo |-> x.todo]
        /\ x.todo \subseteq Nodes \ {x.from} /\ x.todo # {}
    BY SentIs
  <2> QED BY <1>1, <2>1, <2>2 DEF Shape
<1>3. CASE UNCHANGED <<storeVars, faults>>
  <2>1. Tables'
    BY <1>1, <1>3, SameTables
  <2> QED BY <1>1, <1>2, <1>3, <2>1 DEF Shape, Busy
<1>4. CASE Appends(p, s.block)
  <2>1. /\ pool' \in [Nodes -> Seq(Tx)] /\ faults' \in [FaultKinds -> Nat]
        /\ \A m \in Nodes \ {p} : chain'[m] = chain[m] /\ pool'[m] = pool[m]
    BY <1>4, AppendsIs
  <2>2. p \in up
    BY <1>4 DEF Appends
  <2>3. Tables'
    BY <1>1, <1>4, TablesAppend
  <2> QED BY <1>1, <1>2, <2>1, <2>2, <2>3 DEF Shape, Busy
<1> QED BY <1>1, <1>3, <1>4

LEMMA ShapeSame ==
  ASSUME Shape, Tables, UNCHANGED vars
  PROVE  Shape' /\ Tables'
<1>1. Tables'
  BY SameTables DEF vars
<1> QED BY <1>1 DEF Shape, vars, Busy

LEMMA ShapeNext ==
  ASSUME Shape, Tables, [Next]_vars
  PROVE  Shape' /\ Tables'
<1>1. ASSUME NEW n \in Nodes, Electing(n) \/ Heartbeat(n) PROVE Shape' /\ Tables'
  BY <1>1, ShapeElecting, SameTables
<1>2. ASSUME NEW n \in Nodes, Monitor(n) PROVE Shape' /\ Tables'
  BY <1>2, ShapeMonitor, SameTables
<1>3. ASSUME NEW n \in Nodes, NEW t \in Times, Mine(n, t) PROVE Shape' /\ Tables'
  BY <1>3, ShapeMine
<1>4. CASE Request \/ Expire \/ \E n \in Nodes : ReceiveTransaction(n)
  BY <1>4, ShapeClient, SameTables
<1>5. ASSUME NEW n \in Nodes, Crash(n) \/ Restart(n) PROVE Shape' /\ Tables'
  BY <1>5, ShapeLosses
<1>6. ASSUME NEW s \in sending, NEW p \in s.todo, ReceiveBlock(s, p) PROVE Shape' /\ Tables'
  BY <1>6, ShapeReceive
<1>7. ASSUME NEW h \in Handlers, Handler(h) PROVE Shape' /\ Tables'
  BY <1>7, ShapeHandler, SameTables
<1>8. ASSUME NEW h \in Handlers, LoseConnection(h) PROVE Shape' /\ Tables'
  BY <1>8, ShapeLoss, SameTables
<1> QED BY <1>1, <1>2, <1>3, <1>4, <1>5, <1>6, <1>7, <1>8, ShapeSame DEF Next, Mining

-----------------------------------------------------------------------------
(***************************************************************************)
(* Without a restart, only the highest node that runs acts.                *)
(***************************************************************************)

\* A fault happens at once with the step that notices it.
LEMMA FaultStep ==
  ASSUME [Next]_vars
  PROVE  \/ UNCHANGED faults
         \/ \E k \in {"save", "loss", "publish", "overlap"} : Fault(k)
         \/ Fault("crash") /\ \E n \in Nodes : Crash(n)
         \/ Fault("restart") /\ \E n \in Nodes : Restart(n)
<1>1. ASSUME NEW n \in Nodes, Electing(n) \/ Heartbeat(n) PROVE UNCHANGED faults
  BY <1>1 DEF Electing, Heartbeat, StartElection, Announce, ReadLeader, LeaderAlive, LeaderDown
<1>2. ASSUME NEW n \in Nodes, Monitor(n) PROVE UNCHANGED faults \/ Fault("overlap")
  BY <1>2 DEF Monitor, Start, Stop
<1>3. ASSUME NEW n \in Nodes, Mining(n) PROVE UNCHANGED faults \/ Fault("save")
  BY <1>3 DEF Mining, Mine, MinePendingTransactions, Save
<1>4. ASSUME NEW s \in sending, NEW p \in s.todo, ReceiveBlock(s, p) PROVE UNCHANGED faults \/ Fault("save")
  BY <1>4 DEF ReceiveBlock, AddBlock, Save
<1>5. ASSUME NEW h \in Handlers, Handler(h) PROVE UNCHANGED faults \/ Fault("publish")
  BY <1>5 DEF Handler, Deliver, CheckFunds, AddTransactionToPool, Accept, Ack, End, Publish
<1>6. ASSUME NEW h \in Handlers, LoseConnection(h) PROVE Fault("loss")
  BY <1>6 DEF LoseConnection
<1>7. ASSUME NEW n \in Nodes, Crash(n) PROVE Fault("crash")
  BY <1>7 DEF Crash
<1>8. ASSUME NEW n \in Nodes, Restart(n) PROVE Fault("restart")
  BY <1>8 DEF Restart
<1>9. ASSUME NEW n \in Nodes, ReceiveTransaction(n) PROVE UNCHANGED faults
  BY <1>9 DEF ReceiveTransaction
<1>10. ASSUME Request \/ Expire \/ UNCHANGED vars PROVE UNCHANGED faults
  BY <1>10 DEF Request, Expire, vars
<1> QED BY <1>1, <1>2, <1>3, <1>4, <1>5, <1>6, <1>7, <1>8, <1>9, <1>10 DEF Next

\* Faults do not go away.
LEMMA FaultsNext ==
  ASSUME Shape, Tables, [Next]_vars
  PROVE  \A k \in FaultKinds : Never(k)' => Never(k)
<1>1. CASE UNCHANGED faults
  BY <1>1 DEF Never
<1>2. ASSUME NEW k \in FaultKinds, Fault(k) PROVE \A x \in FaultKinds : Never(x)' => Never(x)
  BY <1>2, FaultIs
<1>3. \A k \in {"save", "loss", "publish", "overlap", "crash", "restart"} : k \in FaultKinds
  BY DEF FaultKinds
<1> QED BY <1>1, <1>2, <1>3, FaultStep

\* Only a crash or a restart changes who runs.
LEMMA UpNext ==
  ASSUME [Next]_vars
  PROVE  up' = up \/ \E n \in Nodes : (Crash(n) /\ up' = up \ {n}) \/ (Restart(n) /\ up' = up \cup {n})
<1>1. ASSUME NEW n \in Nodes, Electing(n) \/ Heartbeat(n) \/ Monitor(n) PROVE up' = up
  BY <1>1 DEF Electing, Heartbeat, StartElection, Announce, ReadLeader, LeaderAlive, LeaderDown, Monitor
<1>2. ASSUME NEW n \in Nodes, Mining(n) \/ ReceiveTransaction(n) PROVE up' = up
  BY <1>2 DEF Mining, Mine, ReceiveTransaction
<1>3. ASSUME NEW h \in Handlers, Handler(h) \/ LoseConnection(h) PROVE up' = up
  BY <1>3 DEF Handler, Deliver, CheckFunds, AddTransactionToPool, Accept, Ack, End, LoseConnection
<1>4. ASSUME NEW s \in sending, NEW p \in s.todo, ReceiveBlock(s, p) PROVE up' = up
  BY <1>4 DEF ReceiveBlock
<1>5. ASSUME Request \/ Expire \/ UNCHANGED vars PROVE up' = up
  BY <1>5 DEF Request, Expire, vars
<1>6. ASSUME NEW n \in Nodes, Crash(n) \/ Restart(n)
      PROVE  (Crash(n) /\ up' = up \ {n}) \/ (Restart(n) /\ up' = up \cup {n})
  BY <1>6 DEF Crash, Restart
<1> QED BY <1>1, <1>2, <1>3, <1>4, <1>5, <1>6 DEF Next

LEMMA ActsInit ==
  ASSUME Init
  PROVE  \A n \in Nodes : ~Acts(n)
BY BlockchainAssumption DEF Init, Acts, NoLeader

\* Who acts after a step acted before, or rules and has proclaimed itself.
LEMMA ActsNext ==
  ASSUME Shape, Tables, [Next]_vars, NEW m \in Nodes, Acts(m)'
  PROVE  (Acts(m) /\ (m \in up => m \in up')) \/ (Ruler(m) /\ up' = up) \/ \E n \in Nodes : Restart(n)
<1> USE BlockchainAssumption DEF Acts, NoLeader
<1>1. ASSUME NEW n \in Nodes, StartElection(n) PROVE Acts(m) \/ Ruler(m)
  <2>1. CASE Higher(n) \cap up # {}
    BY <1>1, <2>1 DEF StartElection
  <2>2. CASE Higher(n) \cap up = {}
    <3>1. CASE m = n
      BY <1>1, <2>2, <3>1 DEF StartElection, Ruler, Shape
    <3>2. CASE m # n
      BY <1>1, <2>2, <3>2 DEF StartElection, ProclaimCoordinator, Shape
    <3> QED BY <3>1, <3>2
  <2> QED BY <2>1, <2>2
<1>2. ASSUME NEW n \in Nodes, NEW p \in Nodes, Announce(n, p) PROVE Acts(m)
  <2>1. p # n /\ p \in telling[n]
    BY <1>2 DEF Announce, Shape
  <2>2. telling'[m] # {} => telling[m] # {}
    BY <1>2 DEF Announce, Shape
  <2>3. leader'[m] = m => leader[m] = m
    BY <1>2, <2>1 DEF Announce, Shape
  <2> QED BY <1>2, <2>2, <2>3 DEF Announce
<1>3. ASSUME NEW n \in Nodes, Heartbeat(n) PROVE Acts(m)
  <2>1. leader'[m] = m => leader[m] = m
    BY <1>3 DEF Heartbeat, ReadLeader, LeaderAlive, LeaderDown, Shape
  <2>2. UNCHANGED <<telling, mining, sending, consuming, up, answered>>
    BY <1>3 DEF Heartbeat, ReadLeader, LeaderAlive, LeaderDown
  <2> QED BY <2>1, <2>2
<1>4. ASSUME NEW n \in Nodes, Monitor(n) PROVE Acts(m)
  <2>1. UNCHANGED <<leader, telling, mining, sending, up, answered>>
    BY <1>4, MonitorIs
  <2>2. consuming' = consuming \/ \E c \in Consumers : consuming' = consuming \cup {<<n, c>>} /\ leader[n] = n
    BY <1>4, MonitorIs
  <2> QED BY <2>1, <2>2
<1>5. ASSUME NEW h \in Handlers, Deliver(h) \/ Ack(h) \/ AddTransactionToPool(h) \/ End(h) PROVE Acts(m)
  <2>1. /\ UNCHANGED <<leader, telling, mining, sending, up, answered>>
        /\ \A g \in consuming' : g \in consuming
    BY <1>5 DEF Deliver, Ack, AddTransactionToPool, End
  <2> QED BY <2>1
<1>6. ASSUME NEW h \in Handlers, CheckFunds(h) PROVE Acts(m)
  <2>1. Busy(h) /\ h \in consuming
    BY <1>6, BusyIs
  <2>2. Publish(h, FALSE) \/ UNCHANGED answered
    BY <1>6 DEF CheckFunds
  <2>3. \A a \in answered' : a \in answered \/ a.by = h[1]
    BY <2>1, <2>2, PublishIs
  <2>4. UNCHANGED <<leader, telling, mining, sending, up, consuming>>
    BY <1>6 DEF CheckFunds
  <2> QED BY <2>1, <2>3, <2>4
<1>8. ASSUME NEW h \in Handlers, Accept(h) PROVE Acts(m)
  <2>1. Busy(h) /\ h \in consuming
    BY <1>8, BusyIs
  <2>2. \A x \in Nodes : x # h[1] => mining'[x] = mining[x]
    BY <1>8 DEF Accept, Shape
  <2>3. \A a \in answered' : a \in answered \/ a.by = h[1]
    BY <1>8, <2>1, PublishIs DEF Accept
  <2>4. UNCHANGED <<leader, telling, sending, up, consuming>>
    BY <1>8 DEF Accept
  <2> QED BY <2>1, <2>2, <2>3, <2>4
<1>10. ASSUME NEW n \in Nodes, NEW t \in Times, Mine(n, t) PROVE Acts(m)
  <2>1. /\ mining[n] > 0 /\ mining' = [mining EXCEPT ![n] = @ - 1]
        /\ UNCHANGED <<electionVars, consumerVars, up, clientVars>>
        /\ \A s \in sending' : s \in sending \/ s.from = n
    BY <1>10, MineIs
  <2>2. mining'[m] > 0 => mining[m] > 0
    BY <2>1 DEF Shape
  <2> QED BY <2>1, <2>2
<1>11. ASSUME NEW s \in sending, NEW p \in s.todo, ReceiveBlock(s, p) PROVE Acts(m)
  <2>1. \A x \in sending' : \E y \in sending : x.from = y.from
    BY <1>11, SentIs
  <2>2. UNCHANGED <<mining, electionVars, consumerVars, up>>
    BY <1>11, ReceiveIs
  <2> QED BY <2>1, <2>2
<1>12. ASSUME NEW n \in Nodes, ReceiveTransaction(n) PROVE Acts(m)
  <2>1. UNCHANGED <<leader, telling, sending, consuming, up, answered>>
    BY <1>12 DEF ReceiveTransaction
  <2>2. mining'[m] = mining[m] \/ leader[m] = m
    BY <1>12 DEF ReceiveTransaction, Shape
  <2> QED BY <2>1, <2>2
<1>13. ASSUME NEW h \in Handlers, LoseConnection(h) PROVE Acts(m)
  <2>1. UNCHANGED <<leader, telling, mining, sending, consuming, up, answered>>
    BY <1>13 DEF LoseConnection
  <2> QED BY <2>1
<1>14. ASSUME NEW n \in Nodes, Crash(n) PROVE Acts(m) /\ (m \in up => m \in up')
  <2>0. /\ up' = up \ {n} /\ answered' = answered /\ sending' = {s \in sending : s.from # n}
        /\ leader'[n] = NoLeader /\ telling'[n] = {} /\ mining'[n] = 0
        /\ \A h \in consuming' : h \in consuming /\ h[1] # n
        /\ \A x \in Nodes \ {n} : leader'[x] = leader[x] /\ telling'[x] = telling[x] /\ mining'[x] = mining[x]
    <3>1. up' = up \ {n} /\ answered' = answered /\ sending' = {s \in sending : s.from # n}
      BY <1>14 DEF Crash
    <3>2. leader'[n] = NoLeader /\ telling'[n] = {} /\ mining'[n] = 0
      BY <1>14, CrashIs
    <3>3. \A h \in consuming' : h \in consuming /\ h[1] # n
      BY <1>14, CrashIs
    <3>4. \A x \in Nodes \ {n} : leader'[x] = leader[x] /\ telling'[x] = telling[x] /\ mining'[x] = mining[x]
      BY <1>14 DEF Crash, Shape
    <3> QED BY <3>1, <3>2, <3>3, <3>4
  <2>1. CASE m = n
    <3>1. n \notin up' /\ \A s \in sending' : s.from # n
      BY <2>0
    <3>2. ~Acts(n)'
      BY <2>0, <3>1
    <3> QED BY <2>1, <3>2
  <2>2. CASE m # n
    BY <2>0, <2>2
  <2> QED BY <2>1, <2>2
<1>15. ASSUME Request \/ Expire \/ UNCHANGED vars PROVE Acts(m)
  <2>1. /\ leader' = leader /\ telling' = telling /\ consuming' = consuming /\ mining' = mining
        /\ sending' = sending /\ up' = up /\ answered' = answered
    BY <1>15 DEF Request, Expire, vars
  <2> QED BY <2>1
<1> HIDE DEF Acts
<1>17. ASSUME ~(\E n \in Nodes : Crash(n) \/ Restart(n)) PROVE Acts(m) \/ Ruler(m)
  BY <1>1, <1>2, <1>3, <1>4, <1>5, <1>6, <1>8, <1>10, <1>11, <1>12, <1>13, <1>15, <1>17
     DEF Next, Electing, Mining, Handler
<1> QED BY <1>14, <1>17, UpNext

\* Who begins to lead is the highest node up, and no higher one comes up.
LEMMA RulersNext ==
  ASSUME Shape, Tables, Rulers, [Next]_vars
  PROVE  Rulers'
<1> SUFFICES ASSUME Never("restart")', NEW n \in Nodes, Acts(n)'
             PROVE  Ruler(n)'
  BY DEF Rulers
<1>1. Never("restart") /\ ~\E m \in Nodes : Restart(m)
  BY FaultsNext, FaultIs DEF Restart, FaultKinds
<1>2. (Acts(n) /\ (n \in up => n \in up')) \/ (Ruler(n) /\ up' = up)
  BY <1>1, ActsNext
<1>3. Ruler(n) /\ n \in up'
  BY <1>1, <1>2 DEF Rulers, Ruler
<1>4. up' \subseteq up
  BY <1>1, UpNext
<1> QED BY <1>3, <1>4 DEF Ruler

\* The steps of a handler leave its consumer in place, or end it.
LEMMA SingleNext ==
  ASSUME Shape, Tables, Single, [Next]_vars
  PROVE  Single'
<1> SUFFICES ASSUME Never("overlap")', NEW g \in consuming', NEW h \in consuming', g[1] = h[1]
             PROVE  g = h
  BY DEF Single
<1>1. \A x, y \in consuming : x[1] = y[1] => x = y
  BY FaultsNext DEF Single, FaultKinds
<1>2. ASSUME consuming' \subseteq consuming PROVE g = h
  BY <1>1, <1>2
<1>3. ASSUME NEW n \in Nodes, Monitor(n) PROVE g = h
  <2>1. CASE consuming' = consuming
    BY <1>1, <2>1
  <2>2. ASSUME NEW c \in Consumers, consuming' = consuming \cup {<<n, c>>}, \A x \in consuming : x[1] # n
        PROVE  g = h
    BY <1>1, <2>2
  <2> QED BY <1>3, <2>1, <2>2, MonitorIs
<1>4. ASSUME NEW n \in Nodes, Electing(n) \/ Heartbeat(n) \/ Mining(n) \/ ReceiveTransaction(n)
      PROVE  consuming' \subseteq consuming
  BY <1>4 DEF Electing, Heartbeat, StartElection, Announce, ReadLeader, LeaderAlive, LeaderDown, Mining, Mine,
              ReceiveTransaction
<1>5. ASSUME NEW n \in Nodes, Crash(n) \/ Restart(n) PROVE consuming' \subseteq consuming
  BY <1>5 DEF Crash, Restart
<1>6. ASSUME NEW k \in Handlers, Handler(k) \/ LoseConnection(k) PROVE consuming' \subseteq consuming
  BY <1>6 DEF Handler, Deliver, CheckFunds, AddTransactionToPool, Accept, Ack, End, LoseConnection
<1>7. ASSUME Request \/ Expire \/ UNCHANGED vars PROVE consuming' \subseteq consuming
  BY <1>7 DEF Request, Expire, vars
<1>8. ASSUME NEW s \in sending, NEW p \in s.todo, ReceiveBlock(s, p) PROVE consuming' \subseteq consuming
  BY <1>8 DEF ReceiveBlock
<1> QED BY <1>2, <1>3, <1>4, <1>5, <1>6, <1>7, <1>8 DEF Next

-----------------------------------------------------------------------------
(***************************************************************************)
(* Chains are linked, and so are the tables.                               *)
(***************************************************************************)

\* The steps that change chains or tables.
LEMMA ChainsNext ==
  ASSUME Shape, Tables, [Next]_vars
  PROVE  \/ UNCHANGED <<up, chain, rows, sending>>
         \/ \E n \in Nodes, t \in Times : Mine(n, t) /\ Appends(n, NewBlock(n, t))
         \/ \E s \in sending : \E p \in s.todo : ReceiveBlock(s, p)
         \/ \E n \in Nodes : Crash(n) \/ Restart(n)
<1>1. ASSUME NEW n \in Nodes, Electing(n) \/ Heartbeat(n) \/ Monitor(n) \/ ReceiveTransaction(n)
      PROVE  UNCHANGED <<up, chain, rows, sending>>
  BY <1>1 DEF Electing, Heartbeat, StartElection, Announce, ReadLeader, LeaderAlive, LeaderDown, Monitor,
              ReceiveTransaction
<1>2. ASSUME Request \/ Expire \/ UNCHANGED vars PROVE UNCHANGED <<up, chain, rows, sending>>
  BY <1>2 DEF Request, Expire, vars
<1>3. ASSUME NEW n \in Nodes, NEW t \in Times, Mine(n, t)
      PROVE  UNCHANGED <<up, chain, rows, sending>> \/ Appends(n, NewBlock(n, t))
  BY <1>3, MineIs
<1>4. ASSUME NEW h \in Handlers, Handler(h) \/ LoseConnection(h) PROVE UNCHANGED <<up, chain, rows, sending>>
  BY <1>4 DEF Handler, Deliver, CheckFunds, AddTransactionToPool, Accept, Ack, End, LoseConnection
<1> QED BY <1>1, <1>2, <1>3, <1>4 DEF Next, Mining

\* What was in a chain that is appended to stays where it was.
LEMMA AppendKeeps ==
  ASSUME Shape, Tables, Links, Stored, NEW n, NEW b, Appends(n, b)
  PROVE  /\ \A k \in DOMAIN chain[n] : k \in DOMAIN chain'[n] /\ chain'[n][k] = chain[n][k]
         /\ Whole' => /\ Whole /\ IsValid(chain[n]) /\ IsValid(chain'[n])
                      /\ b.index + 1 \in DOMAIN chain'[n] /\ chain'[n][b.index + 1] = b
         /\ Never("save")' => IsValid(rows'[n]) /\ rows'[n] = chain'[n]
<1> DEFINE c == chain[n]
           d == Append(c, b)
<1>1. /\ n \in Nodes /\ n \in up /\ b.index = Last(c).index + 1 /\ b.prev = Last(c)
      /\ chain'[n] = d /\ \A k \in FaultKinds : Never(k)' => Never(k)
      /\ rows'[n] = Append(rows[n], b) \/ ~Never("save")'
  BY AppendsIs DEF Appends
<1>2. Blocks(c)
  BY <1>1 DEF Tables
<1>3. /\ DOMAIN d = 1..Len(c) + 1 /\ DOMAIN c = 1..Len(c) /\ Len(c) \in Nat
      /\ d[Len(c) + 1] = b /\ \A i \in 1..Len(c) : d[i] = c[i]
  BY <1>2, AppendIs DEF Blocks
<1>4. ASSUME Whole'
      PROVE  /\ Whole /\ IsValid(c) /\ IsValid(d) /\ b.index + 1 = Len(c) + 1
  <2>1. Whole
    BY <1>1, <1>4 DEF Whole, FaultKinds
  <2>2. IsValid(c)
    BY <1>1, <2>1 DEF Links
  <2> QED BY <1>1, <1>2, <2>1, <2>2, ValidAppend
<1>5. ASSUME Never("save")' PROVE IsValid(rows'[n]) /\ rows'[n] = d
  <2>1. rows[n] = c
    BY <1>1, <1>5 DEF Stored, FaultKinds
  <2>2. Whole'
    BY <1>5 DEF Whole
  <2> QED BY <1>1, <1>4, <1>5, <2>1, <2>2
<1> HIDE DEF d
<1> QED BY <1>1, <1>3, <1>4, <1>5

\* An appended block links, and what is sent stays in the chain of its sender.
LEMMA LinksAppend ==
  ASSUME Shape, Tables, Links, Stored, NEW n, NEW b, Appends(n, b), up' = up,
         \A x \in sending' : \/ \E y \in sending : x.from = y.from /\ x.block = y.block
                             \/ x.from = n /\ x.block = b
  PROVE  Links' /\ Stored'
<1>1. /\ n \in Nodes /\ \A m \in Nodes \ {n} : chain'[m] = chain[m] /\ rows'[m] = rows[m]
      /\ \A k \in FaultKinds : Never(k)' => Never(k)
  BY AppendsIs
<1>2. /\ \A k \in DOMAIN chain[n] : k \in DOMAIN chain'[n] /\ chain'[n][k] = chain[n][k]
      /\ Whole' => /\ Whole /\ IsValid(chain[n]) /\ IsValid(chain'[n])
                   /\ b.index + 1 \in DOMAIN chain'[n] /\ chain'[n][b.index + 1] = b
      /\ Never("save")' => IsValid(rows'[n]) /\ rows'[n] = chain'[n]
  BY AppendKeeps
<1>3. ASSUME Whole', NEW m \in up PROVE IsValid(chain'[m])
  BY <1>1, <1>2, <1>3 DEF Links, Shape
<1>4. ASSUME Whole', NEW x \in sending'
      PROVE  x.block.index + 1 \in DOMAIN chain'[x.from] /\ chain'[x.from][x.block.index + 1] = x.block
  <2>1. CASE x.from = n /\ x.block = b
    BY <1>2, <1>4, <2>1
  <2>2. ASSUME NEW y \in sending, x.from = y.from, x.block = y.block
        PROVE  x.block.index + 1 \in DOMAIN chain'[x.from] /\ chain'[x.from][x.block.index + 1] = x.block
    <3>1. x.block.index + 1 \in DOMAIN chain[x.from] /\ chain[x.from][x.block.index + 1] = x.block
      BY <1>2, <1>4, <2>2 DEF Links
    <3>2. x.from \in Nodes
      BY <2>2 DEF Shape
    <3> QED BY <1>1, <1>2, <3>1, <3>2
  <2> QED BY <2>1, <2>2
<1>5. ASSUME Never("save")', NEW m \in Nodes PROVE IsValid(rows'[m]) /\ (m \in up => rows'[m] = chain'[m])
  BY <1>1, <1>2, <1>5 DEF Stored, FaultKinds
<1> QED BY <1>3, <1>4, <1>5 DEF Links, Stored

LEMMA LinksInit ==
  ASSUME Init
  PROVE  Links /\ Stored
<1>1. IsValid(<<Genesis>>)
  <2> DEFINE c == <<Genesis>>
  <2>1. DOMAIN c = {1} /\ c[1] = Genesis /\ Genesis.index = 0
    BY DEF Genesis
  <2> HIDE DEF c
  <2>2. IsValid(c)
    BY <2>1 DEF IsValid
  <2> QED BY <2>2 DEF c
<1> QED BY <1>1 DEF Init, Links, Stored

\* Only mining and receiving append; a block that is received follows the last one.
LEMMA LinksNext ==
  ASSUME Shape, Tables, Links, Stored, [Next]_vars
  PROVE  Links' /\ Stored'
<1>1. CASE UNCHANGED <<up, chain, rows, sending>>
  <2>1. (Whole' => Whole) /\ (Never("save")' => Never("save"))
    BY FaultsNext DEF Whole, FaultKinds
  <2> QED BY <1>1, <2>1 DEF Links, Stored
<1>2. ASSUME NEW n \in Nodes, NEW t \in Times, Mine(n, t), Appends(n, NewBlock(n, t)) PROVE Links' /\ Stored'
  <2> DEFINE b == NewBlock(n, t)
  <2>1. up' = up /\ (sending' = sending \/ sending' = sending \cup {[from |-> n, block |-> b, todo |-> Nodes \ {n}]})
    BY <1>2, MineIs
  <2> HIDE DEF b
  <2>2. \A x \in sending' : \/ \E y \in sending : x.from = y.from /\ x.block = y.block
                            \/ x.from = n /\ x.block = b
    BY <2>1
  <2> QED BY <1>2, <2>1, <2>2, LinksAppend DEF b
<1>3. ASSUME NEW s \in sending, NEW p \in s.todo, ReceiveBlock(s, p) PROVE Links' /\ Stored'
  <2>1. \A x \in sending' : \E y \in sending : x.from = y.from /\ x.block = y.block
    BY <1>3, SentIs
  <2>2. up' = up /\ (UNCHANGED <<storeVars, faults>> \/ Appends(p, s.block))
    BY <1>3, ReceiveIs
  <2>3. CASE Appends(p, s.block)
    BY <2>1, <2>2, <2>3, LinksAppend
  <2>4. CASE UNCHANGED <<storeVars, faults>>
    BY <2>1, <2>2, <2>4 DEF Links, Stored, Whole, Never
  <2> QED BY <2>2, <2>3, <2>4
<1>4. ASSUME NEW n \in Nodes, Crash(n) PROVE Links' /\ Stored'
  <2>1. (Whole' => Whole) /\ (Never("save")' => Never("save"))
    BY FaultsNext DEF Whole, FaultKinds
  <2>2. /\ up' = up \ {n} /\ rows' = rows /\ \A m \in Nodes \ {n} : chain'[m] = chain[m]
        /\ sending' = {s \in sending : s.from # n}
    BY <1>4 DEF Crash, Tables, OnNodes
  <2> QED BY <2>1, <2>2 DEF Links, Stored, Shape
<1>5. ASSUME NEW n \in Nodes, Restart(n) PROVE Links' /\ Stored'
  <2>1. (Whole' => Never("save")) /\ (Never("save")' => Never("save"))
    BY <1>5, FaultsNext, FaultIs DEF Whole, FaultKinds, Restart
  <2>2. LoadBlocks(n) = rows[n]
    BY LoadsRows DEF Tables
  <2>3. /\ up' = up \cup {n} /\ rows' = rows /\ \A m \in Nodes \ {n} : chain'[m] = chain[m]
        /\ chain'[n] = rows[n] /\ sending' = sending /\ n \notin up
    BY <1>5, <2>2 DEF Restart, Tables, OnNodes
  <2>4. ASSUME Never("save") PROVE Whole /\ IsValid(rows[n])
    BY <2>4 DEF Whole, Stored
  <2>5. Links'
    <3> SUFFICES ASSUME Whole'
                 PROVE  /\ \A m \in up' : IsValid(chain'[m])
                        /\ \A s \in sending' : /\ s.block.index + 1 \in DOMAIN chain'[s.from]
                                              /\ chain'[s.from][s.block.index + 1] = s.block
      BY DEF Links
    <3>1. Whole /\ IsValid(rows[n]) /\ up \subseteq Nodes
      BY <2>1, <2>4 DEF Shape
    <3>2. ASSUME NEW m \in up' PROVE IsValid(chain'[m])
      <4>1. CASE m = n
        BY <2>3, <3>1, <4>1
      <4>2. CASE m # n
        BY <2>3, <3>1, <3>2, <4>2 DEF Links
      <4> QED BY <4>1, <4>2
    <3>3. ASSUME NEW s \in sending'
          PROVE  /\ s.block.index + 1 \in DOMAIN chain'[s.from]
                 /\ chain'[s.from][s.block.index + 1] = s.block
      <4>1. s \in sending /\ s.from \in up
        BY <2>3 DEF Shape
      <4>2. s.from \in Nodes \ {n}
        BY <2>3, <3>1, <4>1
      <4>3. chain'[s.from] = chain[s.from]
        BY <2>3, <4>2
      <4> QED BY <3>1, <4>1, <4>3 DEF Links
    <3> QED BY <3>2, <3>3
  <2>6. Stored'
    BY <2>1, <2>3 DEF Stored
  <2> QED BY <2>5, <2>6
<1> QED BY <1>1, <1>2, <1>3, <1>4, <1>5, ChainsNext

-----------------------------------------------------------------------------
(***************************************************************************)
(* Without a crash, every chain is a beginning of the ruler's.             *)
(***************************************************************************)

\* The highest node up is one.
LEMMA OneRuler ==
  ASSUME Shape, NEW m, NEW n, Ruler(m), Ruler(n)
  PROVE  m = n
<1>1. m \in Nat /\ n \in Nat /\ m \in Nodes /\ n \in Nodes /\ m \in up /\ n \in up
  BY BlockchainAssumption DEF Shape, Ruler
<1>2. ~(m > n) /\ ~(n > m)
  BY <1>1 DEF Ruler, Higher
<1> QED BY <1>1, <1>2

\* Only a restart counts as one.
LEMMA RestartsNext ==
  ASSUME Shape, Tables, [Next]_vars, Never("restart"), \A n \in Nodes : ~Restart(n)
  PROVE  Never("restart")'
<1>1. ASSUME UNCHANGED faults PROVE Never("restart")'
  BY <1>1 DEF Never
<1>2. ASSUME NEW k \in {"crash", "save", "loss", "publish", "overlap"}, Fault(k) PROVE Never("restart")'
  BY <1>2 DEF Never, Fault, Shape, FaultKinds
<1> QED BY <1>1, <1>2, FaultStep

LEMMA AgreementInit ==
  ASSUME Init
  PROVE  Agreement
BY DEF Init, Agreement, Within, Never, FaultKinds

\* The ruler's chain grows at its end; another's by a block of the ruler's.
LEMMA AgreementNext ==
  ASSUME Shape, Tables, Rulers, Links, Agreement, [Next]_vars
  PROVE  Agreement'
<1> SUFFICES ASSUME Never("crash")'
             PROVE  /\ up' = Nodes /\ Never("restart")'
                    /\ \A n \in up' : Ruler(n)' => \A p \in up' : Within(chain'[p], chain'[n])
                    /\ \A m, n \in up' : Within(chain'[m], chain'[n]) \/ Within(chain'[n], chain'[m])
  BY DEF Agreement
<1>1. Never("crash") /\ \A n \in Nodes : ~Crash(n)
  BY FaultsNext, FaultIs DEF Crash, FaultKinds
<1>2. /\ up = Nodes /\ Never("restart")
      /\ \A n \in up : Ruler(n) => \A p \in up : Within(chain[p], chain[n])
      /\ \A m, n \in up : Within(chain[m], chain[n]) \/ Within(chain[n], chain[m])
  BY <1>1 DEF Agreement
<1>3. \A n \in Nodes : ~Restart(n)
  BY <1>2 DEF Restart
<1>4. up' = up /\ Never("restart")' /\ \A n : Ruler(n)' <=> Ruler(n)
  BY <1>1, <1>2, <1>3, UpNext, RestartsNext DEF Ruler
<1>5. \A n \in Nodes : Blocks(chain[n]) /\ IsValid(chain[n])
  BY <1>2 DEF Tables, Links, Whole
<1>6. \A n \in Nodes : Blocks(chain'[n])
  BY <1>2, <1>4, ShapeNext DEF Tables
<1>7. ASSUME NEW r \in Nodes, Ruler(r), \A p \in Nodes : Within(chain'[p], chain'[r])
      PROVE  /\ \A n \in up' : Ruler(n)' => \A p \in up' : Within(chain'[p], chain'[n])
             /\ \A m, n \in up' : Within(chain'[m], chain'[n]) \/ Within(chain'[n], chain'[m])
  <2>1. \A n : Ruler(n)' => n = r
    BY <1>4, <1>7, OneRuler
  <2>2. \A m, n \in Nodes : Within(chain'[m], chain'[n]) \/ Within(chain'[n], chain'[m])
    BY <1>6, <1>7, WithinSame
  <2> QED BY <1>2, <1>4, <1>7, <2>1, <2>2
<1>8. CASE UNCHANGED <<up, chain, rows, sending>>
  BY <1>2, <1>4, <1>8
<1>9. ASSUME NEW n \in Nodes, NEW t \in Times, Mine(n, t), Appends(n, NewBlock(n, t))
      PROVE  \A p \in Nodes : Ruler(n) /\ Within(chain'[p], chain'[n])
  <2> DEFINE b == NewBlock(n, t)
  <2>1. Acts(n)
    BY <1>9, MineIs DEF Acts
  <2>2. Ruler(n)
    BY <1>2, <2>1 DEF Rulers
  <2> HIDE DEF b
  <2>3. /\ chain'[n] = Append(chain[n], b) /\ \A m \in Nodes \ {n} : chain'[m] = chain[m]
    BY <1>9, AppendsIs DEF b
  <2>4. \A p \in Nodes : Within(chain[p], chain[n])
    BY <1>2, <2>2
  <2>5. \A p \in Nodes : Within(chain[p], Append(chain[n], b))
    BY <1>5, <2>4, WithinAppend
  <2>6. Within(chain'[n], chain'[n])
    BY <1>6, LastOf DEF Within
  <2> QED BY <2>2, <2>3, <2>5, <2>6
<1>10. ASSUME NEW s \in sending, NEW p \in s.todo, ReceiveBlock(s, p)
       PROVE  Ruler(s.from) /\ \A q \in Nodes : Within(chain'[q], chain'[s.from])
  <2>1. s.from \in Nodes /\ p \in Nodes /\ p # s.from /\ (UNCHANGED <<storeVars, faults>> \/ Appends(p, s.block))
    BY <1>10, ReceiveIs DEF Shape
  <2>2. Ruler(s.from)
    BY <1>2, <2>1 DEF Rulers, Acts
  <2>3. \A q \in Nodes : Within(chain[q], chain[s.from])
    BY <1>2, <2>1, <2>2
  <2>4. CASE UNCHANGED <<storeVars, faults>>
    BY <2>2, <2>3, <2>4
  <2>5. CASE Appends(p, s.block)
    <3>1. /\ chain'[p] = Append(chain[p], s.block) /\ \A m \in Nodes \ {p} : chain'[m] = chain[m]
          /\ s.block.index = Last(chain[p]).index + 1 /\ s.block.prev = Last(chain[p])
      BY <2>5, AppendsIs DEF Appends
    <3>2. s.block.index + 1 \in DOMAIN chain[s.from] /\ chain[s.from][s.block.index + 1] = s.block
      BY <1>2 DEF Links, Whole
    <3>3. Within(chain'[p], chain[s.from])
      BY <1>5, <2>1, <3>1, <3>2, FollowsWithin
    <3> QED BY <2>1, <2>2, <2>3, <3>1, <3>3
  <2> QED BY <2>1, <2>4, <2>5
<1>11. \/ UNCHANGED <<up, chain, rows, sending>>
       \/ \E n \in Nodes, t \in Times : Mine(n, t) /\ Appends(n, NewBlock(n, t))
       \/ \E s \in sending : \E p \in s.todo : ReceiveBlock(s, p)
  BY <1>1, <1>3, ChainsNext
<1>12. \A s \in sending : s.from \in Nodes
  BY DEF Shape
<1> QED BY <1>2, <1>4, <1>7, <1>8, <1>9, <1>10, <1>11, <1>12

-----------------------------------------------------------------------------
(***************************************************************************)
(* What a step does to a node's books and to its handler's job.            *)
(***************************************************************************)

\* What a step can do to a node's books.
LEMMA BooksNext ==
  ASSUME Shape, Tables, [Next]_vars, NEW n \in Nodes
  PROVE  \/ chain'[n] = chain[n] /\ pool'[n] = pool[n] /\ rows'[n] = rows[n]
         \/ /\ UNCHANGED <<chain, rows>>
            /\ \E h \in HandlersOf(n) : /\ AddTransactionToPool(h) /\ pool'[n] = Append(pool[n], job[h].tx)
                                        /\ h \in Handlers /\ h[1] = n
         \/ /\ ReceiveTransaction(n) /\ UNCHANGED <<chain, rows>>
            /\ pool'[n] = Append(pool[n], Requests[requested + 1])
         \/ \E t \in Times : Mine(n, t) /\ Appends(n, NewBlock(n, t))
         \/ \E s \in sending : n \in s.todo /\ ReceiveBlock(s, n) /\ Appends(n, s.block)
         \/ Crash(n) \/ Restart(n)
<1> DEFINE Same == chain'[n] = chain[n] /\ pool'[n] = pool[n] /\ rows'[n] = rows[n]
<1>1. ASSUME NEW m \in Nodes, Electing(m) \/ Heartbeat(m) \/ Monitor(m) PROVE Same
  BY <1>1 DEF Electing, Heartbeat, StartElection, Announce, ReadLeader, LeaderAlive, LeaderDown, Monitor
<1>2. ASSUME NEW h \in Handlers, Deliver(h) \/ CheckFunds(h) \/ Accept(h) \/ Ack(h) \/ End(h) \/ LoseConnection(h)
      PROVE  Same
  BY <1>2 DEF Deliver, CheckFunds, Accept, Ack, End, LoseConnection
<1>3. ASSUME NEW h \in Handlers, AddTransactionToPool(h)
      PROVE  /\ UNCHANGED <<chain, rows>>
             /\ \/ h[1] = n /\ h \in HandlersOf(n) /\ pool'[n] = Append(pool[n], job[h].tx)
                \/ pool'[n] = pool[n]
  <2>1. UNCHANGED <<chain, rows>> /\ pool' = [pool EXCEPT ![h[1]] = Append(@, job[h].tx)]
    BY <1>3 DEF AddTransactionToPool
  <2> QED BY <2>1, HandlerIs DEF Shape
<1>4. ASSUME NEW m \in Nodes, ReceiveTransaction(m)
      PROVE  /\ UNCHANGED <<chain, rows>>
             /\ IF m = n THEN pool'[n] = Append(pool[n], Requests[requested + 1]) ELSE pool'[n] = pool[n]
  BY <1>4 DEF ReceiveTransaction, Shape
<1>5. ASSUME NEW m \in Nodes, NEW t \in Times, Mine(m, t)
      PROVE  Same \/ (m = n /\ Appends(n, NewBlock(n, t)))
  <2>1. UNCHANGED storeVars \/ Appends(m, NewBlock(m, t))
    BY <1>5, MineIs
  <2>2. ASSUME Appends(m, NewBlock(m, t)), m # n PROVE Same
    <3> DEFINE b == NewBlock(m, t)
    <3> HIDE DEF b
    <3> QED BY <2>2, AppendsIs DEF b
  <2> QED BY <2>1, <2>2
<1>6. ASSUME NEW s \in sending, NEW p \in s.todo, ReceiveBlock(s, p)
      PROVE  Same \/ (p = n /\ Appends(n, s.block))
  <2>1. UNCHANGED storeVars \/ Appends(p, s.block)
    BY <1>6, ReceiveIs
  <2>2. ASSUME Appends(p, s.block), p # n PROVE Same
    BY <2>2, AppendsIs
  <2> QED BY <2>1, <2>2
<1>7. ASSUME NEW m \in Nodes, m # n, Crash(m) \/ Restart(m) PROVE Same
  BY <1>7 DEF Crash, Restart, Tables, OnNodes, Shape
<1>8. ASSUME Request \/ Expire \/ UNCHANGED vars PROVE Same
  BY <1>8 DEF Request, Expire, vars
<1> QED BY <1>1, <1>2, <1>3, <1>4, <1>5, <1>6, <1>7, <1>8 DEF Next, Mining, Handler

\* Nothing leaves a node's books but when it receives a block or crashes.
LEMMA BooksAre ==
  ASSUME Shape, Tables, [Next]_vars, NEW n \in Nodes
  PROVE  \/ \A tx : InBooks(n, tx)' <=> InBooks(n, tx)
         \/ \E h \in HandlersOf(n) : /\ AddTransactionToPool(h) /\ h \in Handlers /\ h[1] = n
                                     /\ \A tx : InBooks(n, tx)' <=> InBooks(n, tx) \/ tx = job[h].tx
         \/ /\ ReceiveTransaction(n)
            /\ \A tx : InBooks(n, tx)' <=> InBooks(n, tx) \/ tx = Requests[requested + 1]
         \/ \E s \in sending : n \in s.todo /\ ReceiveBlock(s, n) /\ Appends(n, s.block)
         \/ Crash(n) \/ Restart(n)
<1>1. CASE chain'[n] = chain[n] /\ pool'[n] = pool[n]
  BY <1>1 DEF InBooks, InChain
<1>2. ASSUME NEW x, pool'[n] = Append(pool[n], x), UNCHANGED <<chain, rows>>
      PROVE  \A tx : InBooks(n, tx)' <=> InBooks(n, tx) \/ tx = x
  <2> DEFINE q == pool[n]
  <2>0. q \in Seq(Tx)
    BY DEF Shape
  <2> HIDE DEF q
  <2>1. \A tx : tx \in Range(Append(q, x)) <=> tx \in Range(q) \/ tx = x
    <3>1. /\ DOMAIN q = 1..Len(q) /\ Len(q) \in Nat /\ DOMAIN Append(q, x) = 1..(Len(q) + 1)
          /\ Append(q, x)[Len(q) + 1] = x /\ \A i \in 1..Len(q) : Append(q, x)[i] = q[i]
      BY <2>0
    <3>2. \A i \in 1..(Len(q) + 1) : i \in 1..Len(q) \/ i = Len(q) + 1
      BY <3>1
    <3>3. Len(q) + 1 \in 1..(Len(q) + 1) /\ \A i \in 1..Len(q) : i \in 1..(Len(q) + 1)
      BY <3>1
    <3> QED BY <3>1, <3>2, <3>3, Zenon DEF Range
  <2>2. \A tx : InChain(chain'[n], tx) <=> InChain(chain[n], tx)
    BY <1>2
  <2> QED BY <1>2, <2>1, <2>2, Zenon DEF InBooks, q
<1>3. ASSUME NEW t \in Times, Mine(n, t), Appends(n, NewBlock(n, t))
      PROVE  \A tx : InBooks(n, tx)' <=> InBooks(n, tx)
  <2> DEFINE b == NewBlock(n, t)
  <2>1. b.txs = pool[n] /\ n \in up
    BY <1>3 DEF NewBlock, Appends
  <2> HIDE DEF b
  <2>2. /\ chain'[n] = Append(chain[n], b)
        /\ pool'[n] = <<>> \/ pool'[n] = pool[n]
    BY <1>3, AppendsIs DEF b
  <2>3. chain[n] \in Seq(Range(chain[n]))
    BY <2>1 DEF Tables, Blocks
  <2>4. \A tx : InChain(chain'[n], tx) <=> InChain(chain[n], tx) \/ tx \in Range(pool[n])
    BY <2>1, <2>2, <2>3, InAppend
  <2>5. Range(<<>>) = {}
    BY DEF Range
  <2> QED BY <2>2, <2>4, <2>5 DEF InBooks
<1>4. ASSUME NEW h \in HandlersOf(n), AddTransactionToPool(h), h \in Handlers, h[1] = n,
             pool'[n] = Append(pool[n], job[h].tx), UNCHANGED <<chain, rows>>
      PROVE  \E g \in HandlersOf(n) : /\ AddTransactionToPool(g) /\ g \in Handlers /\ g[1] = n
                                      /\ \A tx : InBooks(n, tx)' <=> InBooks(n, tx) \/ tx = job[g].tx
  BY <1>2, <1>4
<1> QED BY <1>1, <1>2, <1>3, <1>4, BooksNext

\* What a step can do to a handler's job.
LEMMA JobsNext ==
  ASSUME Shape, Tables, [Next]_vars, NEW h \in Handlers
  PROVE  \/ job'[h] = job[h]
         \/ /\ Deliver(h) /\ job'[h].owned = TRUE /\ job'[h].tx = Head(queue) /\ queue # <<>> /\ Busy(h)'
            /\ ~Busy(h) /\ h[1] \in up
            /\ job'[h].at = (IF HasTransaction(h[1], Head(queue)) THEN "ack"
                             ELSE IF Head(queue).sender = "" THEN "add" ELSE "funds")
         \/ /\ Busy(h) /\ Busy(h)' /\ job'[h].tx = job[h].tx /\ h[1] \in up
            /\ \/ CheckFunds(h) /\ job[h].at = "funds" /\ job'[h].owned = job[h].owned
                  /\ job'[h].at = (IF GetBalance(h[1], job[h].tx.sender) < job[h].tx.amount THEN "ack" ELSE "add")
               \/ /\ AddTransactionToPool(h) /\ job[h].at = "add" /\ job'[h].at = "tell"
                  /\ job'[h].owned = job[h].owned
               \/ Accept(h) /\ job[h].at = "tell" /\ job'[h].at = "ack" /\ job'[h].owned = job[h].owned
               \/ LoseConnection(h) /\ job'[h].at = job[h].at /\ job[h].owned
         \/ (Ack(h) \/ Crash(h[1])) /\ job'[h] = Idle /\ ~Busy(h)'
<1>0. h[1] \in Nodes /\ (Busy(h) => h[1] \in up)
  BY BusyIs, HandlerIs
<1>1. ASSUME NEW m \in Nodes, Electing(m) \/ Heartbeat(m) \/ Monitor(m) \/ ReceiveTransaction(m) \/ Restart(m) \/ Mining(m)
      PROVE  job' = job
  BY <1>1 DEF Electing, Heartbeat, StartElection, Announce, ReadLeader, LeaderAlive, LeaderDown, Monitor,
              ReceiveTransaction, Restart, Mining, Mine
<1>2. ASSUME NEW s \in sending, NEW p \in s.todo, ReceiveBlock(s, p) PROVE job' = job
  BY <1>2 DEF ReceiveBlock
<1>3. ASSUME Request \/ Expire \/ UNCHANGED vars PROVE job' = job
  BY <1>3 DEF Request, Expire, vars
<1>4. ASSUME NEW g \in Handlers, g # h, Handler(g) \/ LoseConnection(g) PROVE job'[h] = job[h]
  <2>1. CASE Deliver(g)
    BY <1>4, <2>1, DeliverIs
  <2>2. ASSUME NEW s, Goto(g, s) PROVE job'[h] = job[h]
    BY <1>4, <2>2 DEF Goto, Shape
  <2>3. ASSUME CheckFunds(g) \/ AddTransactionToPool(g) \/ Accept(g) PROVE \E s : Goto(g, s)
    BY <2>3 DEF CheckFunds, AddTransactionToPool, Accept
  <2>4. CASE Ack(g)
    BY <1>4, <2>4 DEF Ack, Shape
  <2>5. CASE LoseConnection(g)
    BY <1>4, <2>5, LossIs
  <2>6. CASE End(g)
    BY <2>6 DEF End
  <2> QED BY <1>4, <2>1, <2>2, <2>3, <2>4, <2>5, <2>6 DEF Handler
<1>5. ASSUME Deliver(h)
      PROVE  /\ job'[h].owned = TRUE /\ job'[h].tx = Head(queue) /\ queue # <<>> /\ Busy(h)'
             /\ ~Busy(h) /\ h[1] \in up
             /\ job'[h].at = (IF HasTransaction(h[1], Head(queue)) THEN "ack"
                              ELSE IF Head(queue).sender = "" THEN "add" ELSE "funds")
  BY <1>5, DeliverIs
<1>6. ASSUME CheckFunds(h)
      PROVE  /\ Busy(h) /\ Busy(h)' /\ job'[h].tx = job[h].tx /\ job'[h].owned = job[h].owned
             /\ job[h].at = "funds"
             /\ job'[h].at = (IF GetBalance(h[1], job[h].tx.sender) < job[h].tx.amount THEN "ack" ELSE "add")
  <2>1. Busy(h) /\ job[h].at = "funds"
    BY <1>6, BusyIs DEF CheckFunds, At
  <2>2. IF GetBalance(h[1], job[h].tx.sender) < job[h].tx.amount THEN Goto(h, "ack") ELSE Goto(h, "add")
    BY <1>6 DEF CheckFunds
  <2> QED BY <2>1, <2>2, GotoIs
<1>7. ASSUME AddTransactionToPool(h)
      PROVE  /\ Busy(h) /\ Busy(h)' /\ job'[h].tx = job[h].tx /\ job'[h].owned = job[h].owned
             /\ job[h].at = "add" /\ job'[h].at = "tell"
  <2>1. Busy(h) /\ job[h].at = "add" /\ Goto(h, "tell")
    BY <1>7, BusyIs DEF AddTransactionToPool, At
  <2> QED BY <2>1, GotoIs
<1>8. ASSUME Accept(h)
      PROVE  /\ Busy(h) /\ Busy(h)' /\ job'[h].tx = job[h].tx /\ job'[h].owned = job[h].owned
             /\ job[h].at = "tell" /\ job'[h].at = "ack"
  <2>1. Busy(h) /\ job[h].at = "tell" /\ Goto(h, "ack")
    BY <1>8, BusyIs DEF Accept, At
  <2> QED BY <2>1, GotoIs
<1>9. ASSUME LoseConnection(h)
      PROVE  /\ Busy(h) /\ Busy(h)' /\ job'[h].tx = job[h].tx /\ job[h].owned /\ job'[h].at = job[h].at
  BY <1>9, LossIs
<1>10. ASSUME Ack(h) PROVE job'[h] = Idle /\ ~Busy(h)'
  BY <1>10 DEF Ack, Shape, Busy
<1>11. ASSUME NEW n \in Nodes, Crash(n) PROVE job'[h] = job[h] \/ (n = h[1] /\ job'[h] = Idle /\ ~Busy(h)')
  BY <1>11, CrashIs DEF Busy
<1>12. ASSUME End(h) PROVE job' = job
  BY <1>12 DEF End
<1> QED BY <1>0, <1>1, <1>2, <1>3, <1>4, <1>5, <1>6, <1>7, <1>8, <1>9, <1>10, <1>11, <1>12 DEF Next, Handler

-----------------------------------------------------------------------------
(***************************************************************************)
(* What a node has accepted is in its books.                               *)
(***************************************************************************)

LEMMA KeptInit ==
  ASSUME Init
  PROVE  Kept
BY DEF Init, Kept, At, Idle

\* Without a restart, a node that handles or has answered receives no block.
LEMMA ActsReceivesNone ==
  ASSUME Shape, Rulers, Never("restart"), NEW s \in sending, NEW n \in s.todo, Acts(n)
  PROVE  FALSE
<1>1. s.from \in Nodes /\ n \in Nodes /\ n # s.from
  BY DEF Shape
<1>2. Ruler(s.from) /\ Ruler(n)
  BY <1>1 DEF Rulers, Acts
<1> QED BY <1>1, <1>2, OneRuler

\* What a step can add to the answers.
LEMMA AnsweredNext ==
  ASSUME Shape, [Next]_vars, NEW a \in answered'
  PROVE  \/ a \in answered
         \/ \E h \in Handlers : Accept(h) /\ a.by = h[1] /\ a.tx = job[h].tx
         \/ \E h \in Handlers : CheckFunds(h) /\ ~a.accepted
<1>1. ASSUME NEW n \in Nodes, Electing(n) \/ Heartbeat(n) \/ Monitor(n) \/ ReceiveTransaction(n) \/ Mining(n)
      PROVE  answered' = answered
  BY <1>1 DEF Electing, Heartbeat, StartElection, Announce, ReadLeader, LeaderAlive, LeaderDown, Monitor,
              ReceiveTransaction, Mining, Mine
<1>2. ASSUME NEW h \in Handlers, Deliver(h) \/ AddTransactionToPool(h) \/ Ack(h) \/ End(h) \/ LoseConnection(h)
      PROVE  answered' = answered
  BY <1>2 DEF Deliver, AddTransactionToPool, Ack, End, LoseConnection
<1>3. ASSUME NEW s \in sending, NEW p \in s.todo, ReceiveBlock(s, p) PROVE answered' = answered
  BY <1>3 DEF ReceiveBlock
<1>4. ASSUME Request \/ Expire \/ UNCHANGED vars PROVE answered' = answered
  BY <1>4 DEF Request, Expire, vars
<1>5. ASSUME NEW h \in Handlers, Accept(h) PROVE a \in answered \/ (a.by = h[1] /\ a.tx = job[h].tx)
  <2>1. Busy(h) /\ Publish(h, TRUE)
    BY <1>5, BusyIs DEF Accept
  <2> QED BY <2>1, PublishIs
<1>6. ASSUME NEW h \in Handlers, CheckFunds(h) PROVE a \in answered \/ ~a.accepted
  <2>1. Busy(h) /\ (Publish(h, FALSE) \/ answered' = answered)
    BY <1>6, BusyIs DEF CheckFunds
  <2> QED BY <2>1, PublishIs
<1>7. ASSUME NEW n \in Nodes, Crash(n) \/ Restart(n) PROVE answered' = answered
  BY <1>7 DEF Crash, Restart
<1> QED BY <1>1, <1>2, <1>3, <1>4, <1>5, <1>6, <1>7 DEF Next, Handler

\* A pool is dropped only when its transactions are in the block that is saved.
LEMMA KeptNext ==
  ASSUME Shape, Tables, Rulers, Kept, [Next]_vars
  PROVE  Kept'
<1> SUFFICES ASSUME Never("restart")'
             PROVE  /\ \A a \in answered' : a.accepted /\ a.by \in up' => InBooks(a.by, a.tx)'
                    /\ \A h \in Handlers : At(h, "tell")' => InBooks(h[1], job[h].tx)'
  BY DEF Kept
<1>1. Never("restart") /\ \A n \in Nodes : ~Restart(n)
  BY FaultsNext, FaultIs DEF Restart, FaultKinds
<1>2. /\ \A a \in answered : a.accepted /\ a.by \in up => InBooks(a.by, a.tx)
      /\ \A h \in Handlers : At(h, "tell") => InBooks(h[1], job[h].tx)
  BY <1>1 DEF Kept
<1>3. up' \subseteq up /\ \A n \in Nodes : Crash(n) => n \notin up'
  BY <1>1, UpNext DEF Crash
<1>4. ASSUME NEW n \in Nodes, Acts(n), ~Crash(n), NEW tx, InBooks(n, tx)
      PROVE  InBooks(n, tx)'
  <2>1. ~\E s \in sending : n \in s.todo
    BY <1>1, <1>4, ActsReceivesNone
  <2> QED BY <1>1, <1>4, <2>1, BooksAre
<1>5. ASSUME NEW a \in answered', a.accepted, a.by \in up'
      PROVE  InBooks(a.by, a.tx)'
  <2>1. CASE a \in answered
    <3>1. a.by \in Nodes /\ Acts(a.by) /\ InBooks(a.by, a.tx) /\ ~Crash(a.by)
      BY <1>2, <1>3, <1>5, <2>1 DEF Acts, Shape
    <3> QED BY <1>4, <3>1
  <2>2. ASSUME NEW h \in Handlers, Accept(h), a.by = h[1], a.tx = job[h].tx
        PROVE  InBooks(a.by, a.tx)'
    <3>1. At(h, "tell") /\ Acts(h[1]) /\ h[1] \in Nodes /\ ~Crash(h[1])
      BY <1>3, <1>5, <2>2, BusyIs DEF Accept, Acts
    <3>2. InBooks(h[1], a.tx)
      BY <1>2, <2>2, <3>1
    <3>3. InBooks(h[1], a.tx)'
      BY <1>4, <3>1, <3>2
    <3> QED BY <2>2, <3>3
  <2>3. ASSUME NEW h \in Handlers, CheckFunds(h), ~a.accepted PROVE FALSE
    BY <1>5, <2>3
  <2> QED BY <2>1, <2>2, <2>3, AnsweredNext
<1>6. ASSUME NEW h \in Handlers, At(h, "tell")'
      PROVE  InBooks(h[1], job[h].tx)'
  <2> DEFINE n == h[1]
  <2>0. PICK x : x = job'[h].tx
    OBVIOUS
  <2> SUFFICES InBooks(n, x)'
    BY <2>0 DEF InBooks, InChain
  <2>1. Busy(h)' /\ n \in Nodes /\ ~Crash(n)
    <3>1. Busy(h)'
      BY <1>6 DEF At, Busy, Idle
    <3>2. n \in up' /\ n \in Nodes
      BY <3>1, ShapeNext, HandlerIs DEF Shape
    <3> QED BY <1>3, <3>1, <3>2
  <2> HIDE DEF n
  <2>2. CASE job'[h].tx = job[h].tx /\ At(h, "tell")
    <3>1. Busy(h)
      BY <2>2 DEF At, Busy, Idle
    <3>2. Acts(n)
      BY <3>1, BusyIs DEF n, Acts
    <3>3. InBooks(n, x)
      BY <1>2, <2>0, <2>2 DEF n
    <3> QED BY <1>4, <2>1, <3>2, <3>3
  <2>3. CASE job'[h].tx = job[h].tx /\ AddTransactionToPool(h)
    <3>3. pool' = [pool EXCEPT ![n] = Append(@, job[h].tx)]
      BY <2>3 DEF AddTransactionToPool, n
    <3>4. Len(pool[n]) \in Nat /\ pool[n] \in Seq(Tx) /\ pool'[n] = Append(pool[n], job[h].tx)
      BY <2>1, <3>3 DEF Shape
    <3>5. Len(pool[n]) + 1 \in DOMAIN pool'[n] /\ pool'[n][Len(pool[n]) + 1] = job[h].tx
      BY <3>4
    <3>6. x \in Range(pool'[n])
      BY <2>0, <2>3, <3>5 DEF Range
    <3> QED BY <3>6 DEF InBooks
  <2>4. \/ job'[h].tx = job[h].tx /\ At(h, "tell")
        \/ job'[h].tx = job[h].tx /\ AddTransactionToPool(h)
    <3>1. job'[h].at = "tell" /\ Idle.at = "idle"
      BY <1>6 DEF At, Idle
    <3> QED BY <2>1, <3>1, JobsNext DEF At
  <2> QED BY <2>2, <2>3, <2>4
<1> QED BY <1>5, <1>6

-----------------------------------------------------------------------------
(***************************************************************************)
(* Where a command is.                                                     *)
(***************************************************************************)

\* What a pool that grows by one transaction holds.
LEMMA RangeAppend ==
  ASSUME NEW S, NEW q \in Seq(S), NEW x
  PROVE  \A y : y \in Range(Append(q, x)) <=> y \in Range(q) \/ y = x
<1>1. /\ DOMAIN q = 1..Len(q) /\ Len(q) \in Nat /\ DOMAIN Append(q, x) = 1..(Len(q) + 1)
      /\ Append(q, x)[Len(q) + 1] = x /\ \A i \in 1..Len(q) : Append(q, x)[i] = q[i]
  OBVIOUS
<1>2. \A i \in 1..(Len(q) + 1) : i \in 1..Len(q) \/ i = Len(q) + 1
  BY <1>1
<1>3. Len(q) + 1 \in 1..(Len(q) + 1) /\ \A i \in 1..Len(q) : i \in 1..(Len(q) + 1)
  BY <1>1
<1> QED BY <1>1, <1>2, <1>3, Zenon DEF Range

LEMMA RangeEmpty == Range(<<>>) = {}
BY DEF Range

\* What a node has in its pool after a step, of commands.
LEMMA PoolNext ==
  ASSUME Shape, Tables, [Next]_vars, NEW n \in Nodes, NEW tx \in Commands, tx \in Range(pool'[n])
  PROVE  \/ tx \in Range(pool[n]) /\ ~Crash(n)
         \/ \E h \in HandlersOf(n) : AddTransactionToPool(h) /\ h \in Handlers /\ h[1] = n /\ tx = job[h].tx
<1>0. pool[n] \in Seq(Tx)
  BY DEF Shape
<1>1. CASE chain'[n] = chain[n] /\ pool'[n] = pool[n] /\ rows'[n] = rows[n]
  <2>1. pool[n] # <<>>
    BY <1>1, RangeEmpty
  <2>2. ~Crash(n)
    BY <1>1, <2>1 DEF Crash, Shape
  <2> QED BY <1>1, <2>2
<1>2. ASSUME NEW h \in HandlersOf(n), AddTransactionToPool(h), h \in Handlers, h[1] = n,
             pool'[n] = Append(pool[n], job[h].tx)
      PROVE  (tx \in Range(pool[n]) /\ ~Crash(n)) \/ tx = job[h].tx
  <2>1. n \in up /\ UNCHANGED up
    BY <1>2, BusyIs DEF AddTransactionToPool
  <2>2. ~Crash(n)
    BY <2>1 DEF Crash
  <2> QED BY <1>0, <1>2, <2>2, RangeAppend
<1>3. CASE ReceiveTransaction(n) /\ pool'[n] = Append(pool[n], Requests[requested + 1])
  <2>1. tx # Requests[requested + 1] /\ UNCHANGED up /\ n \in up
    BY <1>3 DEF ReceiveTransaction, Commands
  <2>2. ~Crash(n)
    BY <2>1 DEF Crash
  <2> QED BY <1>0, <1>3, <2>1, <2>2, RangeAppend
<1>4. ASSUME NEW b, Appends(n, b), ~(n \in up /\ n \notin up')
      PROVE  tx \in Range(pool[n]) /\ ~Crash(n)
  <2>1. pool'[n] = <<>> \/ pool' = pool
    BY <1>4, AppendsIs
  <2>2. ~Crash(n)
    BY <1>4 DEF Crash
  <2> QED BY <2>1, <2>2, RangeEmpty
<1>5. ASSUME NEW t \in Times, Mine(n, t), Appends(n, NewBlock(n, t)) PROVE tx \in Range(pool[n]) /\ ~Crash(n)
  <2>1. up' = up
    BY <1>5 DEF Mine
  <2> QED BY <1>4, <1>5, <2>1
<1>6. ASSUME NEW s \in sending, n \in s.todo, ReceiveBlock(s, n), Appends(n, s.block)
      PROVE  tx \in Range(pool[n]) /\ ~Crash(n)
  <2>1. up' = up
    BY <1>6 DEF ReceiveBlock
  <2> QED BY <1>4, <1>6, <2>1
<1>7. CASE Crash(n)
  BY <1>7, RangeEmpty DEF Crash, Shape
<1>8. CASE Restart(n)
  <2>1. ~Crash(n)
    BY <1>8 DEF Crash, Restart
  <2> QED BY <1>8, <2>1 DEF Restart
<1> QED BY <1>1, <1>2, <1>3, <1>5, <1>6, <1>7, <1>8, BooksNext

\* What is sent is what was mined.
LEMMA SendingNext ==
  ASSUME Shape, Tables, [Next]_vars, NEW x \in sending'
  PROVE  \/ \E y \in sending : x.from = y.from /\ x.block = y.block /\ ~Crash(x.from)
         \/ x.block.txs = pool[x.from] /\ ~Crash(x.from)
<1>0. x.from \in up'
  BY ShapeNext DEF Shape
<1>1. ~Crash(x.from)
  BY <1>0 DEF Crash
<1>2. CASE UNCHANGED sending
  BY <1>1, <1>2
<1>3. ASSUME NEW n \in Nodes, NEW t \in Times, Mine(n, t), Appends(n, NewBlock(n, t))
      PROVE  (\E y \in sending : x.from = y.from /\ x.block = y.block) \/ x.block.txs = pool[x.from]
  <2> DEFINE b == NewBlock(n, t)
  <2>0. b.txs = pool[n]
    BY DEF NewBlock
  <2>1. sending' = sending \/ sending' = sending \cup {[from |-> n, block |-> b, todo |-> Nodes \ {n}]}
    BY <1>3, MineIs
  <2> HIDE DEF b
  <2> QED BY <2>0, <2>1
<1>4. ASSUME NEW s \in sending, NEW p \in s.todo, ReceiveBlock(s, p)
      PROVE  \E y \in sending : x.from = y.from /\ x.block = y.block
  BY <1>4, SentIs
<1>5. ASSUME NEW n \in Nodes, Crash(n) \/ Restart(n) PROVE x \in sending
  BY <1>5 DEF Crash, Restart
<1> QED BY <1>1, <1>2, <1>3, <1>4, <1>5, ChainsNext

\* A node comes to hold a command only by adding it to its pool.
LEMMA HoldsNext ==
  ASSUME Shape, Tables, [Next]_vars, NEW n \in Nodes, NEW tx \in Commands, Holds(n, tx)'
  PROVE  \/ Holds(n, tx) /\ ~Crash(n)
         \/ \E h \in HandlersOf(n) : AddTransactionToPool(h) /\ h \in Handlers /\ h[1] = n /\ tx = job[h].tx
<1>1. CASE tx \in Range(pool'[n])
  BY <1>1, PoolNext DEF Holds
<1>2. ASSUME NEW x \in sending', x.from = n, tx \in Range(x.block.txs) PROVE Holds(n, tx) /\ ~Crash(n)
  BY <1>2, SendingNext DEF Holds
<1> QED BY <1>1, <1>2 DEF Holds

\* Who handles a command handled it before, or got it from the queue.
LEMMA HandlingNext ==
  ASSUME Shape, Tables, [Next]_vars, NEW h \in Handlers, NEW tx, Handling(h, tx)'
  PROVE  \/ /\ Handling(h, tx) /\ ~Crash(h[1])
            /\ AboutToAdd(h)' => AboutToAdd(h) /\ ~AddTransactionToPool(h)
         \/ Deliver(h) /\ queue # <<>> /\ tx = Head(queue)
<1>1. Busy(h)' /\ job'[h].tx = tx
  BY DEF Handling
<1>2. ~Crash(h[1])
  <2>1. h[1] \in up'
    BY <1>1, ShapeNext DEF Shape
  <2> QED BY <2>1 DEF Crash
<1>3. CASE job'[h] = job[h]
  <2>1. Handling(h, tx) /\ (AboutToAdd(h)' <=> AboutToAdd(h))
    BY <1>1, <1>3 DEF Handling, Busy, AboutToAdd, At
  <2>2. AddTransactionToPool(h) => At(h, "add") /\ job'[h].at = "tell"
    <3>1. Busy(h)
      BY <1>1, <1>3 DEF Busy
    <3> QED BY <3>1, GotoIs DEF AddTransactionToPool
  <2> QED BY <1>2, <1>3, <2>1, <2>2 DEF At
<1>4. CASE Busy(h) /\ job'[h].tx = job[h].tx /\ (AboutToAdd(h)' => AboutToAdd(h) /\ ~AddTransactionToPool(h))
  BY <1>1, <1>2, <1>4 DEF Handling
<1>5. AddTransactionToPool(h) => job'[h].at = "tell"
  BY BusyIs, GotoIs DEF AddTransactionToPool
<1>6. job'[h].at = "tell" => ~AboutToAdd(h)'
  BY DEF AboutToAdd, At
<1> QED BY <1>1, <1>2, <1>3, <1>4, <1>5, <1>6, JobsNext DEF AboutToAdd, At

\* The steps that change the queue and the number of requests.
LEMMA QueueNext ==
  ASSUME [Next]_vars
  PROVE  /\ \/ queue' = queue \/ Request \/ Expire \/ \E n \in Nodes : Crash(n)
            \/ \E h \in Handlers : Deliver(h) \/ LoseConnection(h)
         /\ requested' = requested \/ Request \/ \E n \in Nodes : ReceiveTransaction(n)
<1>1. ASSUME NEW n \in Nodes, Electing(n) \/ Heartbeat(n) \/ Monitor(n) \/ Restart(n) \/ Mining(n)
      PROVE  queue' = queue /\ requested' = requested
  BY <1>1 DEF Electing, Heartbeat, StartElection, Announce, ReadLeader, LeaderAlive, LeaderDown, Monitor,
              Restart, Mining, Mine
<1>2. ASSUME NEW h \in Handlers, CheckFunds(h) \/ AddTransactionToPool(h) \/ Accept(h) \/ Ack(h) \/ End(h)
      PROVE  queue' = queue /\ requested' = requested
  BY <1>2 DEF CheckFunds, AddTransactionToPool, Accept, Ack, End
<1>3. ASSUME NEW s \in sending, NEW p \in s.todo, ReceiveBlock(s, p) PROVE queue' = queue /\ requested' = requested
  BY <1>3 DEF ReceiveBlock
<1>4. ASSUME UNCHANGED vars PROVE queue' = queue /\ requested' = requested
  BY <1>4 DEF vars
<1>5. ASSUME NEW h \in Handlers, Deliver(h) \/ LoseConnection(h) PROVE requested' = requested
  BY <1>5 DEF Deliver, LoseConnection
<1>6. ASSUME NEW n \in Nodes, ReceiveTransaction(n) PROVE queue' = queue
  BY <1>6 DEF ReceiveTransaction
<1>7. ASSUME NEW n \in Nodes, Crash(n) PROVE requested' = requested
  BY <1>7 DEF Crash
<1>8. Expire => requested' = requested
  BY DEF Expire
<1> QED BY <1>1, <1>2, <1>3, <1>4, <1>5, <1>6, <1>7, <1>8 DEF Next, Handler

LEMMA OnePlaceInit ==
  ASSUME Init
  PROVE  OnePlace
BY RangeEmpty DEF Init, OnePlace, Apart, Busy, Handling, Holds

\* The queue's first command is in it, and what follows it is, too.
LEMMA TailIs ==
  ASSUME NEW S, NEW q \in Seq(S), q # <<>>
  PROVE  /\ Head(q) \in Range(q) /\ \A x \in Range(Tail(q)) : x \in Range(q)
         /\ (\A i, j \in DOMAIN q : q[i] = q[j] => i = j)
              => /\ Head(q) \notin Range(Tail(q))
                 /\ \A i, j \in DOMAIN Tail(q) : Tail(q)[i] = Tail(q)[j] => i = j
<1>1. /\ DOMAIN q = 1..Len(q) /\ Len(q) \in Nat /\ Len(q) >= 1 /\ Head(q) = q[1]
      /\ DOMAIN Tail(q) = 1..(Len(q) - 1) /\ \A i \in 1..(Len(q) - 1) : Tail(q)[i] = q[i + 1]
  OBVIOUS
<1>2. \A i \in 1..(Len(q) - 1) : i + 1 \in DOMAIN q /\ i + 1 # 1
  BY <1>1
<1>3. 1 \in DOMAIN q
  BY <1>1
<1>4. \A i, j \in 1..(Len(q) - 1) : i + 1 = j + 1 => i = j
  BY <1>1
<1>5. Head(q) \in Range(q) /\ \A x \in Range(Tail(q)) : x \in Range(q)
  BY <1>1, <1>2, <1>3 DEF Range
<1>6. ASSUME \A i, j \in DOMAIN q : q[i] = q[j] => i = j
      PROVE  /\ Head(q) \notin Range(Tail(q))
             /\ \A i, j \in DOMAIN Tail(q) : Tail(q)[i] = Tail(q)[j] => i = j
  <2>1. ASSUME NEW i \in DOMAIN Tail(q) PROVE Tail(q)[i] # Head(q)
    BY <1>1, <1>2, <1>3, <1>6, <2>1
  <2>2. ASSUME NEW i \in DOMAIN Tail(q), NEW j \in DOMAIN Tail(q), Tail(q)[i] = Tail(q)[j] PROVE i = j
    <3>1. q[i + 1] = q[j + 1] /\ i + 1 \in DOMAIN q /\ j + 1 \in DOMAIN q
      BY <1>1, <1>2, <2>2
    <3>2. i + 1 = j + 1
      BY <1>6, <3>1
    <3> QED BY <1>1, <1>4, <2>2, <3>2
  <2> QED BY <2>1, <2>2 DEF Range
<1> QED BY <1>5, <1>6

\* So is what is put before or behind it.
LEMMA DistinctAppend ==
  ASSUME NEW S, NEW q \in Seq(S), NEW x, x \notin Range(q), \A i, j \in DOMAIN q : q[i] = q[j] => i = j
  PROVE  \A i, j \in DOMAIN Append(q, x) : Append(q, x)[i] = Append(q, x)[j] => i = j
<1> DEFINE r == Append(q, x)
<1>1. /\ DOMAIN q = 1..Len(q) /\ Len(q) \in Nat /\ DOMAIN r = 1..(Len(q) + 1)
      /\ r[Len(q) + 1] = x /\ \A i \in 1..Len(q) : r[i] = q[i]
  OBVIOUS
<1>2. \A i \in DOMAIN r : (i \in 1..Len(q) /\ r[i] = q[i] /\ r[i] # x) \/ (i = Len(q) + 1 /\ r[i] = x)
  <2> HIDE DEF r
  <2>1. \A i \in 1..Len(q) : q[i] # x
    BY <1>1 DEF Range
  <2>2. \A i \in 1..(Len(q) + 1) : i \in 1..Len(q) \/ i = Len(q) + 1
    BY <1>1
  <2> TAKE i \in DOMAIN r
  <2>3. CASE i \in 1..Len(q)
    BY <1>1, <2>1, <2>3
  <2>4. CASE i = Len(q) + 1
    BY <1>1, <2>4
  <2> QED BY <1>1, <2>2, <2>3, <2>4
<1> HIDE DEF r
<1>3. \A i, j \in DOMAIN r : r[i] = r[j] => i = j
  BY <1>1, <1>2
<1> QED BY <1>3 DEF r

\* A sequence without repetitions, and one more element in front.
LEMMA DistinctBefore ==
  ASSUME NEW S, NEW q \in Seq(S), NEW x \in S
  PROVE  /\ \A y : y \in Range(<<x>> \o q) <=> y = x \/ y \in Range(q)
         /\ x \notin Range(q) /\ (\A i, j \in DOMAIN q : q[i] = q[j] => i = j)
              => \A i, j \in DOMAIN (<<x>> \o q) : (<<x>> \o q)[i] = (<<x>> \o q)[j] => i = j
<1> DEFINE r == <<x>> \o q
<1>1. /\ DOMAIN q = 1..Len(q) /\ Len(q) \in Nat /\ DOMAIN r = 1..(Len(q) + 1)
      /\ r[1] = x /\ \A i \in 2..(Len(q) + 1) : r[i] = q[i - 1]
  OBVIOUS
<1> HIDE DEF r
<1>2. \A i \in DOMAIN r : (i = 1 /\ r[i] = x) \/ (i - 1 \in DOMAIN q /\ r[i] = q[i - 1])
  <2> TAKE i \in DOMAIN r
  <2>1. i = 1 \/ (i \in 2..(Len(q) + 1) /\ i - 1 \in 1..Len(q))
    BY <1>1
  <2>2. CASE i = 1
    BY <1>1, <2>2
  <2>3. CASE i \in 2..(Len(q) + 1) /\ i - 1 \in 1..Len(q)
    <3>1. r[i] = q[i - 1]
      BY <1>1, <2>3
    <3>2. i - 1 \in DOMAIN q
      BY <1>1, <2>3
    <3> QED BY <3>1, <3>2
  <2> QED BY <2>1, <2>2, <2>3
<1>3. \A i \in DOMAIN q : i + 1 \in DOMAIN r /\ r[i + 1] = q[i]
  <2> TAKE i \in DOMAIN q
  <2>1. i \in 1..Len(q) /\ i + 1 \in 2..(Len(q) + 1) /\ (i + 1) - 1 = i
    BY <1>1
  <2>2. r[i + 1] = q[(i + 1) - 1]
    BY <1>1, <2>1
  <2> QED BY <1>1, <2>1, <2>2
<1>4. 1 \in DOMAIN r /\ r[1] = x
  BY <1>1
<1>5. \A y : y \in Range(r) <=> y = x \/ y \in Range(q)
  BY <1>2, <1>3, <1>4 DEF Range
<1>6. ASSUME x \notin Range(q), \A i, j \in DOMAIN q : q[i] = q[j] => i = j, NEW i \in DOMAIN r, NEW j \in DOMAIN r, r[i] = r[j]
      PROVE  i = j
  <2>1. \A k \in DOMAIN q : q[k] # x
    BY <1>6 DEF Range
  <2>2. i \in Nat /\ j \in Nat
    BY <1>1
  <2>3. CASE i = 1 \/ j = 1
    BY <1>2, <1>4, <1>6, <2>1, <2>3
  <2>4. CASE i # 1 /\ j # 1
    <3>1. i - 1 \in DOMAIN q /\ j - 1 \in DOMAIN q /\ q[i - 1] = q[j - 1]
      BY <1>2, <1>6, <2>4
    <3>2. i - 1 = j - 1
      BY <1>6, <3>1
    <3> QED BY <2>2, <3>2
  <2> QED BY <2>3, <2>4
<1> QED BY <1>5, <1>6 DEF r

\* What a crash puts back, if nobody else has it.
LEMMA DistinctRequeued ==
  ASSUME Shape, NEW h \in Handlers, NEW q \in Seq(Commands), Busy(h) => job[h].owned,
         Busy(h) => job[h].tx \notin Range(q), \A i, j \in DOMAIN q : q[i] = q[j] => i = j
  PROVE  LET r == Requeued(h, q)
         IN /\ r \in Seq(Commands)
            /\ \A i, j \in DOMAIN r : r[i] = r[j] => i = j
            /\ \A x \in Range(r) : x \in Range(q) \/ Handling(h, x)
<1>1. Requeued(h, q) \in Seq(Commands) /\ Requeued(h, q) = IF Busy(h) THEN <<job[h].tx>> \o q ELSE q
  BY RequeuedIs
<1>2. CASE Busy(h)
  <2> DEFINE x == job[h].tx
  <2>1. x \in Commands /\ x \notin Range(q) /\ Handling(h, x)
    BY <1>2, BusyIs DEF Handling
  <2> HIDE DEF x
  <2>2. /\ \A y : y \in Range(<<x>> \o q) <=> y = x \/ y \in Range(q)
        /\ \A i, j \in DOMAIN (<<x>> \o q) : (<<x>> \o q)[i] = (<<x>> \o q)[j] => i = j
    BY <2>1, DistinctBefore
  <2>3. Requeued(h, q) = <<x>> \o q
    BY <1>1, <1>2 DEF x
  <2> QED BY <1>1, <2>1, <2>2, <2>3
<1>3. CASE ~Busy(h)
  BY <1>1, <1>3
<1> QED BY <1>2, <1>3

\* A step moves a command from one place to the next.
LEMMA OnePlaceNext ==
  ASSUME Shape, Tables, OnePlace, [Next]_vars
  PROVE  OnePlace'
<1> SUFFICES ASSUME Never("loss")'
             PROVE  Apart' /\ \A h \in Handlers : Busy(h)' => job'[h].owned
  BY DEF OnePlace
<1>1. Never("loss") /\ \A h \in Handlers : ~LoseConnection(h)
  BY FaultsNext, FaultIs DEF LoseConnection, FaultKinds
<1>0. Apart /\ \A h \in Handlers : Busy(h) => job[h].owned
  BY <1>1 DEF OnePlace
<1>2. /\ \A i, j \in DOMAIN queue : queue[i] = queue[j] => i = j
      /\ \A h \in Handlers, tx \in Commands :
           Handling(h, tx) => tx \notin Range(queue) /\ \A g \in Handlers : Handling(g, tx) => g = h
      /\ \A n \in Nodes, tx \in Commands :
           Holds(n, tx) => /\ tx \notin Range(queue)
                           /\ \A h \in Handlers : Handling(h, tx) => h[1] = n /\ ~AboutToAdd(h)
  BY <1>0 DEF Apart
<1>3. \A i \in requested + 1..Len(Requests) :
        /\ Requests[i] \notin Range(queue)
        /\ Requests[i] \in Commands =>
             /\ \A h \in Handlers : ~Handling(h, Requests[i])
             /\ \A n \in Nodes : ~Holds(n, Requests[i])
  BY <1>0 DEF Apart
<1>4. queue \in Seq(Commands) /\ Len(Requests) \in Nat /\ requested \in 0..Len(Requests)
  BY RequestsAre DEF Shape
<1>5. \A h \in Handlers : Busy(h)' => job'[h].owned
  BY <1>0, <1>1, JobsNext DEF Busy
<1>6. requested' = requested \/ requested' = requested + 1
  BY QueueNext DEF Request, ReceiveTransaction
<1>7. \A i \in requested' + 1..Len(Requests) : i \in requested + 1..Len(Requests)
  BY <1>4, <1>6
<1>8. ASSUME NEW h \in Handlers, AddTransactionToPool(h)
      PROVE  Handling(h, job[h].tx) /\ job[h].tx \in Commands /\ ~AboutToAdd(h)'
  <2>1. Busy(h) /\ job[h].tx \in Commands
    BY <1>8, BusyIs
  <2>2. job'[h].at = "tell"
    BY <1>8, <2>1, GotoIs DEF AddTransactionToPool
  <2> QED BY <2>1, <2>2 DEF Handling, AboutToAdd, At
\* Nothing gets from the queue to a handler, or back.
<1>9. ASSUME \A x \in Range(queue') : x \in Range(queue), \A h \in Handlers : ~Deliver(h),
             \A i, j \in DOMAIN queue' : queue'[i] = queue'[j] => i = j
      PROVE  Apart'
  <2>1. ASSUME NEW h \in Handlers, NEW tx, Handling(h, tx)'
        PROVE  Handling(h, tx) /\ (AboutToAdd(h)' => AboutToAdd(h) /\ ~AddTransactionToPool(h))
    BY <1>9, <2>1, HandlingNext
  <2>2. ASSUME NEW n \in Nodes, NEW tx \in Commands, Holds(n, tx)', NEW h \in Handlers, Handling(h, tx)'
        PROVE  h[1] = n /\ ~AboutToAdd(h)'
    <3>1. CASE Holds(n, tx)
      BY <1>2, <2>1, <2>2, <3>1
    <3>2. ASSUME NEW g \in Handlers, AddTransactionToPool(g), g[1] = n, tx = job[g].tx
          PROVE  h[1] = n /\ ~AboutToAdd(h)'
      <4>1. Handling(h, tx) /\ Handling(g, tx) /\ ~AboutToAdd(g)'
        BY <1>8, <2>1, <2>2, <3>2
      <4> QED BY <1>2, <3>2, <4>1
    <3> QED BY <2>2, <3>1, <3>2, HoldsNext
  <2>3. ASSUME NEW n \in Nodes, NEW tx \in Commands, Holds(n, tx)' PROVE tx \notin Range(queue)
    BY <1>2, <1>8, <2>3, HoldsNext
  <2>4. ASSUME NEW i \in requested' + 1..Len(Requests), Requests[i] \in Commands
        PROVE  /\ \A h \in Handlers : ~Handling(h, Requests[i])'
               /\ \A n \in Nodes : ~Holds(n, Requests[i])'
    BY <1>3, <1>7, <1>8, <2>1, <2>4, HoldsNext
  <2>5. \A i \in requested' + 1..Len(Requests) : Requests[i] \notin Range(queue')
    BY <1>3, <1>7, <1>9
  <2>6. \A h \in Handlers, tx \in Commands :
          Handling(h, tx)' => tx \notin Range(queue') /\ \A g \in Handlers : Handling(g, tx)' => g = h
    BY <1>2, <1>9, <2>1
  <2> QED BY <1>9, <2>2, <2>3, <2>4, <2>5, <2>6 DEF Apart
<1>10. ASSUME NEW h \in Handlers, Deliver(h) PROVE Apart'
  <2>1. /\ queue # <<>> /\ queue' = Tail(queue)
        /\ \A g \in Handlers \ {h} : job'[g] = job[g]
        /\ job'[h].tx = Head(queue) /\ ~Busy(h) /\ Busy(h)'
        /\ UNCHANGED <<storeVars, minerVars>>
    BY <1>10, DeliverIs
  <2>2. /\ Head(queue) \in Range(queue) /\ \A x \in Range(queue') : x \in Range(queue)
        /\ Head(queue) \notin Range(queue') /\ \A i, j \in DOMAIN queue' : queue'[i] = queue'[j] => i = j
    BY <1>2, <1>4, <2>1, TailIs
  <2>3. \A g \in Handlers : \A tx : Handling(g, tx)' <=> (g # h /\ Handling(g, tx)) \/ (g = h /\ tx = Head(queue))
    BY <2>1 DEF Handling, Busy
  <2>4. \A g \in Handlers \ {h} : AboutToAdd(g)' <=> AboutToAdd(g)
    BY <2>1 DEF AboutToAdd, At
  <2>5. \A n \in Nodes : \A tx : Holds(n, tx)' <=> Holds(n, tx)
    BY <2>1 DEF Holds
  <2>6. /\ \A g \in Handlers, tx \in Commands : Handling(g, tx) => tx # Head(queue)
        /\ \A n \in Nodes, tx \in Commands : Holds(n, tx) => tx # Head(queue)
    BY <1>2, <2>2
  <2>7. ASSUME NEW g \in Handlers, NEW tx \in Commands, Handling(g, tx)'
        PROVE  tx \notin Range(queue') /\ \A x \in Handlers : Handling(x, tx)' => x = g
    BY <1>2, <2>2, <2>3, <2>6, <2>7
  <2>8. ASSUME NEW n \in Nodes, NEW tx \in Commands, Holds(n, tx)'
        PROVE  /\ tx \notin Range(queue')
               /\ \A x \in Handlers : Handling(x, tx)' => x[1] = n /\ ~AboutToAdd(x)'
    <3>1. Holds(n, tx) /\ tx # Head(queue)
      BY <2>5, <2>6, <2>8
    <3>2. \A x \in Handlers : Handling(x, tx)' => x # h /\ Handling(x, tx)
      BY <2>3, <3>1
    <3>3. /\ tx \notin Range(queue)
          /\ \A x \in Handlers : Handling(x, tx) => x[1] = n /\ ~AboutToAdd(x)
      BY <1>2, <3>1
    <3> QED BY <2>2, <2>4, <3>2, <3>3
  <2>9. ASSUME NEW i \in requested' + 1..Len(Requests)
        PROVE  /\ Requests[i] \notin Range(queue')
               /\ Requests[i] \in Commands =>
                    /\ \A x \in Handlers : ~Handling(x, Requests[i])'
                    /\ \A n \in Nodes : ~Holds(n, Requests[i])'
    BY <1>3, <1>7, <2>2, <2>3, <2>5, <2>9
  <2> QED BY <2>2, <2>7, <2>8, <2>9 DEF Apart
<1>11. ASSUME NEW n \in Nodes, Crash(n) PROVE Apart'
  <2>1. /\ \A h \in Handlers : job'[h] = IF h[1] = n THEN Idle ELSE job[h]
        /\ \A m \in Nodes \ {n} : pool'[m] = pool[m]
        /\ pool'[n] = <<>> /\ sending' = {s \in sending : s.from # n}
    BY <1>11, CrashIs
  <2>2. PICK g \in HandlersOf(n), h \in HandlersOf(n) :
          g # h /\ g \in Handlers /\ h \in Handlers /\ queue' = Requeued(g, Requeued(h, queue))
    BY <1>11, CrashQueueIs
  <2>20. g[1] = n /\ h[1] = n
    BY <2>2, HandlerIs
  <2>3. \A x \in Handlers : \A tx : Handling(x, tx)' <=> x[1] # n /\ Handling(x, tx)
    BY <2>1 DEF Handling, Busy
  <2>4. \A m \in Nodes : \A tx : Holds(m, tx)' <=> m # n /\ Holds(m, tx)
    BY <2>1, RangeEmpty DEF Holds
  <2>5. \A x \in Handlers : x[1] # n => (AboutToAdd(x)' <=> AboutToAdd(x))
    BY <2>1 DEF AboutToAdd, At
  <2>6. \A x \in Handlers : Busy(x) => job[x].tx \in Commands /\ Handling(x, job[x].tx)
    BY BusyIs DEF Handling
  <2> DEFINE q == Requeued(h, queue)
  <2>7. /\ q \in Seq(Commands) /\ \A i, j \in DOMAIN q : q[i] = q[j] => i = j
        /\ \A x \in Range(q) : x \in Range(queue) \/ Handling(h, x)
    <3>1. /\ Busy(h) => job[h].owned /\ job[h].tx \notin Range(queue)
          /\ \A i, j \in DOMAIN queue : queue[i] = queue[j] => i = j
      BY <1>0, <1>2, <2>2, <2>6
    <3> QED BY <1>4, <2>2, <3>1, DistinctRequeued
  <2> HIDE DEF q
  <2>8. /\ \A i, j \in DOMAIN queue' : queue'[i] = queue'[j] => i = j
        /\ \A x \in Range(queue') : x \in Range(queue) \/ Handling(h, x) \/ Handling(g, x)
    <3>1. Busy(g) => job[g].owned /\ job[g].tx \notin Range(q)
      BY <1>0, <1>2, <2>2, <2>6, <2>7
    <3>2. queue' = Requeued(g, q)
      BY <2>2 DEF q
    <3> QED BY <2>2, <2>7, <3>1, <3>2, DistinctRequeued
  <2>9. ASSUME NEW tx \in Commands, NEW x \in Handlers, x[1] # n, Handling(x, tx) PROVE tx \notin Range(queue')
    BY <1>2, <2>2, <2>20, <2>8, <2>9
  <2>10. ASSUME NEW m \in Nodes, NEW tx \in Commands, Holds(m, tx)'
         PROVE  /\ tx \notin Range(queue')
                /\ \A x \in Handlers : Handling(x, tx)' => x[1] = m /\ ~AboutToAdd(x)'
    <3>1. m # n /\ Holds(m, tx)
      BY <2>4, <2>10
    <3>2. /\ tx \notin Range(queue)
          /\ \A x \in Handlers : Handling(x, tx) => x[1] = m /\ ~AboutToAdd(x)
      BY <1>2, <3>1
    <3>3. ~Handling(g, tx) /\ ~Handling(h, tx)
      BY <2>2, <2>20, <3>1, <3>2
    <3> QED BY <2>3, <2>5, <2>8, <3>2, <3>3
  <2>11. ASSUME NEW i \in requested' + 1..Len(Requests)
         PROVE  /\ Requests[i] \notin Range(queue')
                /\ Requests[i] \in Commands =>
                     /\ \A x \in Handlers : ~Handling(x, Requests[i])'
                     /\ \A m \in Nodes : ~Holds(m, Requests[i])'
    <3>1. \A x : Handling(g, x) \/ Handling(h, x) => x \in Commands
      BY <2>2, <2>6 DEF Handling
    <3> QED BY <1>3, <1>7, <2>2, <2>3, <2>4, <2>8, <2>11, <3>1
  <2>12. \A x \in Handlers, tx \in Commands :
           Handling(x, tx)' => tx \notin Range(queue') /\ \A y \in Handlers : Handling(y, tx)' => y = x
    BY <1>2, <2>3, <2>9
  <2> QED BY <2>8, <2>10, <2>11, <2>12 DEF Apart
<1>12. CASE Request
  <2> DEFINE new == Requests[requested + 1]
  <2>1. requested < Len(Requests) /\ requested' = requested + 1 /\ queue' = Append(queue, new) /\ new.id # ""
        /\ UNCHANGED <<job, storeVars, minerVars>>
    BY <1>12 DEF Request
  <2>0. DOMAIN Requests = 1..Len(Requests) /\ requested < Len(Requests) /\ requested' = requested + 1
    BY <2>1, RequestsAre
  <2>2. requested + 1 \in requested + 1..Len(Requests) /\ requested + 1 \in DOMAIN Requests
    <3> HIDE DEF new
    <3> QED BY <1>4, <2>0
  <2>3. new \in Commands
    BY <2>1, <2>2 DEF Commands, Range
  <2>4. /\ new \notin Range(queue) /\ \A h \in Handlers : ~Handling(h, new)
        /\ \A n \in Nodes : ~Holds(n, new)
    BY <1>3, <2>2, <2>3
  <2>5. \A i \in requested' + 1..Len(Requests) : Requests[i] # new /\ i \in DOMAIN Requests
    <3> TAKE i \in requested' + 1..Len(Requests)
    <3>1. i \in DOMAIN Requests /\ i # requested + 1
      <4> HIDE DEF new
      <4> QED BY <1>4, <2>0
    <3> QED BY <2>2, <2>3, <3>1, RequestsAre
  <2> HIDE DEF new
  <2>6. /\ \A x : x \in Range(queue') <=> x \in Range(queue) \/ x = new
        /\ \A i, j \in DOMAIN queue' : queue'[i] = queue'[j] => i = j
    <3>1. /\ \A x : x \in Range(Append(queue, new)) <=> x \in Range(queue) \/ x = new
          /\ \A i, j \in DOMAIN Append(queue, new) : Append(queue, new)[i] = Append(queue, new)[j] => i = j
      BY <1>2, <1>4, <2>4, RangeAppend, DistinctAppend
    <3> QED BY <2>1, <3>1
  <2>7. /\ \A h, tx : Handling(h, tx)' <=> Handling(h, tx)
        /\ \A n, tx : Holds(n, tx)' <=> Holds(n, tx)
        /\ \A h : AboutToAdd(h)' <=> AboutToAdd(h)
    BY <2>1 DEF Handling, Holds, AboutToAdd, Busy, At
  <2>8. \A i \in requested' + 1..Len(Requests) :
          /\ Requests[i] \notin Range(queue')
          /\ Requests[i] \in Commands =>
               /\ \A h \in Handlers : ~Handling(h, Requests[i])'
               /\ \A n \in Nodes : ~Holds(n, Requests[i])'
    BY <1>3, <1>7, <2>5, <2>6, <2>7
  <2>9. \A h \in Handlers, tx \in Commands :
          Handling(h, tx)' => tx \notin Range(queue') /\ \A g \in Handlers : Handling(g, tx)' => g = h
    BY <1>2, <2>4, <2>6, <2>7
  <2>10. \A n \in Nodes, tx \in Commands :
           Holds(n, tx)' => /\ tx \notin Range(queue')
                            /\ \A h \in Handlers : Handling(h, tx)' => h[1] = n /\ ~AboutToAdd(h)'
    BY <1>2, <2>4, <2>6, <2>7
  <2> QED BY <1>5, <2>6, <2>8, <2>9, <2>10 DEF Apart
<1>13. CASE Expire
  <2>1. queue # <<>> /\ queue' = Tail(queue) /\ job' = job
    BY <1>13 DEF Expire
  <2>2. \A h \in Handlers : ~Deliver(h)
    BY <2>1, DeliverIs DEF Busy
  <2>3. /\ \A x \in Range(Tail(queue)) : x \in Range(queue)
        /\ \A i, j \in DOMAIN Tail(queue) : Tail(queue)[i] = Tail(queue)[j] => i = j
    BY <1>2, <1>4, <2>1, TailIs
  <2>4. /\ \A x \in Range(queue') : x \in Range(queue)
        /\ \A i, j \in DOMAIN queue' : queue'[i] = queue'[j] => i = j
    BY <2>1, <2>3
  <2> QED BY <1>5, <1>9, <2>2, <2>4
<1>14. CASE queue' = queue /\ (\A h \in Handlers : ~Deliver(h))
  <2>1. /\ \A x \in Range(queue') : x \in Range(queue)
        /\ \A i, j \in DOMAIN queue' : queue'[i] = queue'[j] => i = j
    BY <1>2, <1>14
  <2> QED BY <1>5, <1>9, <1>14, <2>1
<1>15. \/ queue' = queue /\ (\A h \in Handlers : ~Deliver(h))
       \/ Request \/ Expire \/ (\E n \in Nodes : Crash(n)) \/ (\E h \in Handlers : Deliver(h))
  BY <1>1, QueueNext
<1> QED BY <1>5, <1>10, <1>11, <1>12, <1>13, <1>14, <1>15

-----------------------------------------------------------------------------
(***************************************************************************)
(* A command is in a node's books once.                                    *)
(***************************************************************************)

LEMMA CountedInit ==
  ASSUME Init
  PROVE  Counted
<1>1. OnceChain(<<Genesis>>)
  <2> DEFINE c == <<Genesis>>
  <2>1. DOMAIN c = {1} /\ c[1].txs = <<>> /\ DOMAIN <<>> = {}
    BY DEF Genesis
  <2> HIDE DEF c
  <2>2. OnceChain(c)
    BY <2>1 DEF OnceChain
  <2> QED BY <2>2 DEF c
<1>2. OncePool(<<>>)
  BY DEF OncePool
<1> QED BY <1>1, <1>2, RangeEmpty DEF Init, Counted, AboutToAdd, At, Idle

\* A command that is not in a pool is added.
LEMMA OncePoolAppend ==
  ASSUME NEW q \in Seq(Tx), NEW x, OncePool(q), x \in Commands => x \notin Range(q)
  PROVE  OncePool(Append(q, x))
<1> DEFINE r == Append(q, x)
<1>1. /\ DOMAIN q = 1..Len(q) /\ Len(q) \in Nat /\ DOMAIN r = 1..(Len(q) + 1)
      /\ r[Len(q) + 1] = x /\ \A i \in 1..Len(q) : r[i] = q[i]
  OBVIOUS
<1> HIDE DEF r
<1>2. ASSUME NEW i \in DOMAIN r, NEW j \in DOMAIN r, r[i] \in Commands, r[i] = r[j]
      PROVE  i = j
  <2>1. \A k \in 1..Len(q) : x \in Commands => q[k] # x
    BY <1>1 DEF Range
  <2>2. i \in 1..Len(q) \/ i = Len(q) + 1
    BY <1>1
  <2>3. j \in 1..Len(q) \/ j = Len(q) + 1
    BY <1>1
  <2>4. CASE i \in 1..Len(q) /\ j \in 1..Len(q)
    BY <1>1, <1>2, <2>4 DEF OncePool
  <2>5. CASE i = Len(q) + 1 /\ j \in 1..Len(q)
    BY <1>1, <1>2, <2>1, <2>5
  <2>6. CASE j = Len(q) + 1 /\ i \in 1..Len(q)
    BY <1>1, <1>2, <2>1, <2>6
  <2> QED BY <2>2, <2>3, <2>4, <2>5, <2>6
<1> QED BY <1>2 DEF OncePool, r

\* A block that is received is one of the sender's, so is all it follows.
LEMMA ReceivedWithin ==
  ASSUME Shape, Tables, Links, Whole, NEW s \in sending, NEW p \in s.todo, Appends(p, s.block)
  PROVE  /\ s.from \in Nodes /\ p \in Nodes /\ p # s.from
         /\ Within(Append(chain[p], s.block), chain[s.from])
         /\ chain'[s.from] = chain[s.from] /\ Blocks(chain[s.from])
<1>1. s.from \in Nodes /\ s.from \in up /\ p \in Nodes /\ p # s.from
  BY DEF Shape
<1>2. /\ p \in up /\ s.block.index = Last(chain[p]).index + 1 /\ s.block.prev = Last(chain[p])
      /\ chain'[s.from] = chain[s.from]
  BY <1>1, AppendsIs DEF Appends
<1>3. /\ Blocks(chain[p]) /\ Blocks(chain[s.from]) /\ IsValid(chain[p]) /\ IsValid(chain[s.from])
      /\ s.block.index + 1 \in DOMAIN chain[s.from] /\ chain[s.from][s.block.index + 1] = s.block
  BY <1>1, <1>2 DEF Tables, Links
<1> QED BY <1>1, <1>2, <1>3, FollowsWithin

\* A command is added by the handler that has it, of which OnePlace and Rulers
\* leave one, and a block takes it from the pool or is the ruler's.
LEMMA CountedNext ==
  ASSUME Shape, Tables, Rulers, Single, Links, Stored, OnePlace, Counted, [Next]_vars
  PROVE  Counted'
<1> SUFFICES ASSUME Counting'
             PROVE  /\ \A n \in Nodes :
                         /\ OnceChain(rows'[n]) /\ OncePool(pool'[n])
                         /\ \A tx \in Commands : tx \in Range(pool'[n]) => ~InChain(chain'[n], tx)
                    /\ \A h \in Handlers : AboutToAdd(h)' => ~InBooks(h[1], job[h].tx)'
  BY DEF Counted
<1>1. Counting /\ Whole /\ Never("save")'
  BY FaultsNext DEF FaultKinds, Whole, Counting
<1>2. /\ \A n \in Nodes :
           /\ OnceChain(rows[n]) /\ OncePool(pool[n])
           /\ \A tx \in Commands : tx \in Range(pool[n]) => ~InChain(chain[n], tx)
      /\ \A h \in Handlers : AboutToAdd(h) => ~InBooks(h[1], job[h].tx)
  BY <1>1 DEF Counted
<1>3. \A m \in up : rows[m] = chain[m] /\ Blocks(chain[m])
  BY <1>1 DEF Stored, Tables, Shape, Counting
<1>4. \A n \in Nodes : pool[n] \in Seq(Tx)
  BY DEF Shape
<1>5. OncePool(<<>>)
  BY DEF OncePool
\* The tables and the pools.
<1>6. ASSUME NEW n \in Nodes PROVE OnceChain(rows'[n])
  <2>1. ASSUME NEW b, Appends(n, b), OnceChain(Append(chain[n], b)) PROVE OnceChain(rows'[n])
    BY <1>1, <1>3, <2>1, AppendsIs DEF Appends
  <2>2. ASSUME NEW t \in Times, Mine(n, t), Appends(n, NewBlock(n, t)) PROVE OnceChain(rows'[n])
    <3> DEFINE b == NewBlock(n, t)
    <3>1. b.txs = pool[n] /\ n \in up
      BY <2>2 DEF NewBlock, Appends
    <3> HIDE DEF b
    <3>2. OnceChain(Append(chain[n], b))
      BY <1>2, <1>3, <1>4, <3>1, OnceAppend
    <3> QED BY <2>1, <2>2, <3>2 DEF b
  <2>3. ASSUME NEW s \in sending, n \in s.todo, ReceiveBlock(s, n), Appends(n, s.block) PROVE OnceChain(rows'[n])
    <3>1. /\ s.from \in Nodes /\ s.from \in up /\ Within(Append(chain[n], s.block), chain[s.from])
          /\ Blocks(chain[s.from])
      BY <1>1, <2>3, ReceivedWithin DEF Shape
    <3>2. Blocks(Append(chain[n], s.block)) /\ OnceChain(chain[s.from])
      BY <1>2, <1>3, <2>3, <3>1, AppendsIs
    <3> QED BY <2>1, <2>3, <3>1, <3>2, OnceWithin
  <2>4. CASE rows'[n] = rows[n]
    BY <1>2, <2>4
  <2>5. ASSUME Crash(n) \/ Restart(n) \/ UNCHANGED <<chain, rows>> PROVE rows'[n] = rows[n]
    BY <2>5 DEF Crash, Restart
  <2> QED BY <2>2, <2>3, <2>4, <2>5, BooksNext
<1>7. ASSUME NEW n \in Nodes PROVE OncePool(pool'[n])
  <2>1. ASSUME NEW b, Appends(n, b) PROVE pool'[n] = <<>>
    BY <1>1, <2>1, AppendsIs
  <2>2. ASSUME NEW h \in HandlersOf(n), AddTransactionToPool(h), h \in Handlers, h[1] = n,
               pool'[n] = Append(pool[n], job[h].tx)
        PROVE  OncePool(pool'[n])
    <3>1. AboutToAdd(h)
      BY <2>2 DEF AddTransactionToPool, AboutToAdd
    <3>2. job[h].tx \notin Range(pool[n])
      BY <1>2, <2>2, <3>1 DEF InBooks
    <3> QED BY <1>2, <1>4, <2>2, <3>2, OncePoolAppend
  <2>3. CASE ReceiveTransaction(n) /\ pool'[n] = Append(pool[n], Requests[requested + 1])
    <3>1. Requests[requested + 1] \notin Commands
      BY <2>3 DEF ReceiveTransaction, Commands
    <3> QED BY <1>2, <1>4, <2>3, <3>1, OncePoolAppend
  <2>4. CASE Crash(n)
    BY <1>5, <2>4 DEF Crash, Shape
  <2>5. CASE Restart(n)
    BY <1>2, <2>5 DEF Restart
  <2> QED BY <1>2, <1>5, <2>1, <2>2, <2>3, <2>4, <2>5, BooksNext
\* Nothing of a pool is in the chain.
<1>8. ASSUME NEW n \in Nodes, NEW tx \in Commands, tx \in Range(pool'[n]) PROVE ~InChain(chain'[n], tx)
  <2>1. ASSUME NEW b, Appends(n, b) PROVE FALSE
    <3>1. pool'[n] = <<>>
      BY <1>1, <2>1, AppendsIs
    <3> QED BY <1>8, <3>1, RangeEmpty
  <2>2. CASE Restart(n)
    <3>1. pool'[n] = <<>>
      BY <2>2 DEF Restart, Shape
    <3> QED BY <1>8, <3>1, RangeEmpty
  <2>3. ~Crash(n)
    BY <1>8, RangeEmpty DEF Crash, Shape
  <2>4. CASE chain'[n] = chain[n]
    <3>1. CASE tx \in Range(pool[n])
      BY <1>2, <2>4, <3>1
    <3>2. ASSUME NEW h \in HandlersOf(n), AddTransactionToPool(h), h \in Handlers, h[1] = n, tx = job[h].tx
          PROVE  ~InChain(chain'[n], tx)
      <4>1. ~InBooks(n, tx)
        BY <1>2, <3>2 DEF AddTransactionToPool, AboutToAdd
      <4> QED BY <2>4, <4>1 DEF InBooks
    <3> QED BY <1>8, <3>1, <3>2, PoolNext
  <2> QED BY <2>1, <2>2, <2>3, <2>4, BooksNext
\* Nor is what is about to be added.
<1>9. ASSUME NEW h \in Handlers, AboutToAdd(h)' PROVE ~InBooks(h[1], job[h].tx)'
  <2> DEFINE n == h[1]
  <2>0. PICK x : x = job'[h].tx
    OBVIOUS
  <2> SUFFICES ~InBooks(n, x)'
    BY <2>0 DEF InBooks, InChain
  <2>1. Busy(h)' /\ Shape' /\ Handling(h, x)'
    BY <1>9, <2>0, ShapeNext DEF AboutToAdd, At, Busy, Idle, Handling
  <2>2. x \in Commands /\ n \in up' /\ n \in Nodes
    <3>1. x \in Commands
      BY <2>0, <2>1 DEF Shape, Jobs, Busy
    <3> QED BY <2>1, <3>1, HandlerIs DEF Shape
  <2> HIDE DEF n
  <2>3. CASE Handling(h, x) /\ AboutToAdd(h) /\ ~AddTransactionToPool(h)
    <3>1. ~InBooks(n, x) /\ Acts(n) /\ Busy(h) /\ n \in up /\ h \in consuming
      BY <1>2, <2>3, BusyIs DEF Handling, Acts, n
    <3>2. ~Crash(n) /\ ~Restart(n)
      BY <2>2, <3>1 DEF Crash, Restart
    <3>3. CASE ReceiveTransaction(n) /\ \A tx : InBooks(n, tx)' <=> InBooks(n, tx) \/ tx = Requests[requested + 1]
      <4>1. x # Requests[requested + 1]
        BY <2>2, <3>3 DEF ReceiveTransaction, Commands
      <4> QED BY <3>1, <3>3, <4>1
    <3>4. ASSUME NEW s \in sending, n \in s.todo, ReceiveBlock(s, n), Appends(n, s.block) PROVE ~InBooks(n, x)'
      <4>1. CASE Never("restart")
        BY <3>1, <3>4, <4>1, ActsReceivesNone
      <4>2. CASE Never("loss")
        <5>1. n # s.from /\ s.from \in Nodes
          BY <3>4 DEF Shape
        <5>2. x \notin Range(s.block.txs)
          <6>1. Handling(h, x) /\ h[1] # s.from
            BY <2>3, <5>1 DEF n
          <6>2. ~Holds(s.from, x)
            BY <2>2, <4>2, <5>1, <6>1 DEF OnePlace, Apart
          <6> QED BY <3>4, <6>2 DEF Holds
        <5>3. chain'[n] = Append(chain[n], s.block) /\ pool'[n] = <<>>
          BY <1>1, <3>4, AppendsIs
        <5>4. chain[n] \in Seq(Range(chain[n])) /\ ~InChain(chain[n], x)
          BY <1>3, <3>1 DEF Blocks, InBooks
        <5>5. ~InChain(chain'[n], x)
          BY <5>2, <5>3, <5>4, InAppend
        <5> QED BY <5>3, <5>5, RangeEmpty DEF InBooks
      <4> QED BY <1>1, <4>1, <4>2 DEF Counting
    <3>5. ASSUME NEW g \in HandlersOf(n), AddTransactionToPool(g), g \in Handlers, g[1] = n, x = job[g].tx
          PROVE  FALSE
      <4>1. Busy(g) /\ g \in consuming /\ Handling(g, x)
        BY <3>5, BusyIs DEF Handling
      <4>2. CASE Never("loss")
        BY <2>2, <2>3, <3>5, <4>1, <4>2 DEF OnePlace, Apart
      <4>3. CASE Never("overlap")
        BY <2>3, <3>1, <3>5, <4>1, <4>3 DEF Single, n
      <4> QED BY <1>1, <4>2, <4>3 DEF Counting
    <3>6. ASSUME NEW g \in HandlersOf(n), AddTransactionToPool(g), g \in Handlers, g[1] = n,
                 \A tx : InBooks(n, tx)' <=> InBooks(n, tx) \/ tx = job[g].tx
          PROVE  ~InBooks(n, x)'
      BY <3>1, <3>5, <3>6
    <3> QED BY <2>2, <3>1, <3>2, <3>3, <3>4, <3>6, BooksAre
  <2>4. CASE Deliver(h) /\ queue # <<>> /\ x = Head(queue)
    <3>1. /\ n \in up /\ UNCHANGED storeVars
          /\ job'[h].at = (IF HasTransaction(n, x) THEN "ack" ELSE IF x.sender = "" THEN "add" ELSE "funds")
      BY <2>4, DeliverIs DEF n
    <3>2. ~HasTransaction(n, x)
      BY <1>9, <3>1 DEF AboutToAdd, At
    <3>3. ~InBooks(n, x)
      BY <1>3, <1>4, <2>2, <3>1, <3>2, InBooksIs
    <3> QED BY <3>1, <3>3 DEF InBooks, InChain
  <2> QED BY <1>9, <2>1, <2>3, <2>4, HandlingNext
<1> QED BY <1>6, <1>7, <1>8, <1>9

-----------------------------------------------------------------------------
(***************************************************************************)
(* Nobody spends what he does not have.                                    *)
(***************************************************************************)

EffectOf(tx, a) == (IF tx.receiver = a THEN tx.amount ELSE 0) - (IF tx.sender = a THEN tx.amount ELSE 0)
Effects(txs, a) == [i \in DOMAIN txs |-> EffectOf(txs[i], a)]

\* A balance is the sum of the effects of transactions.
LEMMA BalanceIs ==
  ASSUME NEW txs, NEW a
  PROVE  Balance(txs, a) = SumFunctionOnSet(Effects(txs, a), DOMAIN txs)
<1>1. Balance(txs, a) = SumFunction(Effects(txs, a))
  BY DEF Balance, Effects, EffectOf
<1>2. DOMAIN Effects(txs, a) = DOMAIN txs
  BY DEF Effects
<1> QED BY <1>1, <1>2 DEF SumFunction

LEMMA EffectIsInt == \A tx \in Tx : \A a : EffectOf(tx, a) \in Int
BY RequestsAre DEF EffectOf

\* Only its sender loses by a transaction, and no more than its amount.
LEMMA EffectIs ==
  ASSUME NEW tx, NEW a, tx.amount \in Int
  PROVE  /\ tx.sender # a /\ tx.amount >= 0 => EffectOf(tx, a) >= 0
         /\ tx.amount >= 0 => EffectOf(tx, a) >= 0 - tx.amount
         /\ EffectOf(tx, a) \in Int
<1> DEFINE m == tx.amount
<1>1. m \in Int
  OBVIOUS
<1>2. EffectOf(tx, a) = (IF tx.receiver = a THEN m ELSE 0) - (IF tx.sender = a THEN m ELSE 0)
  BY DEF EffectOf
<1> HIDE DEF m
<1>3. CASE tx.receiver = a /\ tx.sender = a
  BY <1>1, <1>2, <1>3 DEF m
<1>4. CASE tx.receiver = a /\ tx.sender # a
  BY <1>1, <1>2, <1>4 DEF m
<1>5. CASE tx.receiver # a /\ tx.sender = a
  BY <1>1, <1>2, <1>5 DEF m
<1>6. CASE tx.receiver # a /\ tx.sender # a
  BY <1>1, <1>2, <1>6 DEF m
<1> QED BY <1>3, <1>4, <1>5, <1>6

\* One more transaction adds its effect.
LEMMA BalanceAppend ==
  ASSUME NEW s \in Seq(Tx), NEW tx \in Tx, NEW a
  PROVE  /\ Balance(s, a) \in Int
         /\ Balance(Append(s, tx), a) = Balance(s, a) + EffectOf(tx, a)
<1> DEFINE r == Append(s, tx)
           n == Len(s)
           f == Effects(s, a)
           g == Effects(r, a)
<1>1. n \in Nat /\ DOMAIN s = 1..n /\ DOMAIN r = 1..(n + 1) /\ r[n + 1] = tx
      /\ (\A i \in 1..n : r[i] = s[i] /\ s[i] \in Tx)
  OBVIOUS
<1> HIDE DEF n, r
<1>2. 1..(n + 1) = (1..n) \cup {n + 1} /\ n + 1 \notin 1..n
  BY <1>1
<1>3. IsFiniteSet(1..n)
  BY <1>1, FS_Interval
<1>4. /\ \A i \in 1..n : f[i] = EffectOf(s[i], a) /\ g[i] = EffectOf(r[i], a)
      /\ g[n + 1] = EffectOf(tx, a)
  BY <1>1, <1>2 DEF Effects
<1> HIDE DEF f, g
<1>5. (\A i \in 1..n : f[i] \in Int) /\ (\A i \in (1..n) \cup {n + 1} : g[i] \in Int)
  BY <1>1, <1>4, EffectIsInt
<1>6. \A i \in 1..n : g[i] = f[i]
  BY <1>1, <1>4
<1>7. SumFunctionOnSet(g, 1..n) = SumFunctionOnSet(f, 1..n)
  BY <1>3, <1>6, SumSame
<1>8. SumFunctionOnSet(f, 1..n) \in Int
  BY <1>3, <1>5, SumType
<1>9. SumFunctionOnSet(g, (1..n) \cup {n + 1}) = g[n + 1] + SumFunctionOnSet(g, 1..n)
  <2> DEFINE x == n + 1
  <2>1. x \notin 1..n /\ \A i \in (1..n) \cup {x} : g[i] \in Int
    BY <1>2, <1>5
  <2> HIDE DEF x
  <2>2. SumFunctionOnSet(g, (1..n) \cup {x}) = g[x] + SumFunctionOnSet(g, 1..n)
    BY <1>3, <2>1, SumAdd
  <2> QED BY <2>2 DEF x
<1>10. Balance(s, a) = SumFunctionOnSet(f, 1..n)
  BY <1>1, BalanceIs DEF f
<1>11. Balance(r, a) = SumFunctionOnSet(g, 1..(n + 1))
  BY <1>1, BalanceIs DEF g
<1>12. EffectOf(tx, a) \in Int
  BY EffectIsInt
<1>13. Balance(r, a) = Balance(s, a) + EffectOf(tx, a)
  <2>1. Balance(r, a) = SumFunctionOnSet(g, (1..n) \cup {n + 1})
    BY <1>2, <1>11, Zenon
  <2>2. Balance(r, a) = EffectOf(tx, a) + Balance(s, a)
    BY <2>1, <1>4, <1>7, <1>9, <1>10, Zenon
  <2> QED BY <2>2, <1>8, <1>10, <1>12
<1> QED BY <1>8, <1>10, <1>13 DEF r

LEMMA BalanceEmpty == \A a : Balance(<<>>, a) = 0
<1> TAKE a
<1>1. DOMAIN <<>> = {}
  OBVIOUS
<1>2. IsFiniteSet({})
  BY FS_EmptySet
<1> QED BY <1>1, <1>2, BalanceIs, SumRec

\* The confirmed transactions up to a block depend on the blocks so far.
LEMMA UpToSame ==
  ASSUME NEW c, NEW d, NEW k, \A i \in 1..k : c[i] = d[i]
  PROVE  UpTo(c, k) = UpTo(d, k)
<1>1. [i \in 1..k |-> c[i].txs] = [i \in 1..k |-> d[i].txs]
  OBVIOUS
<1> QED BY <1>1 DEF UpTo

\* The transactions up to each block, with a block more.
LEMMA UpToAppend ==
  ASSUME NEW c, NEW b, Blocks(c), Blocks(Append(c, b))
  PROVE  /\ \A k \in DOMAIN c : UpTo(Append(c, b), k) = UpTo(c, k)
         /\ UpTo(Append(c, b), Len(c) + 1) = Confirmed(c) \o b.txs
         /\ Confirmed(Append(c, b)) = Confirmed(c) \o b.txs
         /\ DOMAIN Append(c, b) = DOMAIN c \cup {Len(c) + 1}
<1> DEFINE d == Append(c, b)
<1>1. /\ DOMAIN d = 1..(Len(c) + 1) /\ DOMAIN c = 1..Len(c) /\ Len(c) \in Nat /\ Len(c) >= 1
      /\ d[Len(c) + 1] = b /\ (\A i \in 1..Len(c) : d[i] = c[i]) /\ Len(d) = Len(c) + 1
  BY AppendIs, LastOf DEF Blocks
<1> HIDE DEF d
<1>2. ASSUME NEW k \in DOMAIN c PROVE UpTo(d, k) = UpTo(c, k)
  <2>1. \A i \in 1..k : d[i] = c[i]
    BY <1>1
  <2> QED BY <2>1, UpToSame
<1>3. UpTo(d, Len(c) + 1) = Confirmed(c) \o b.txs
  <2> DEFINE k == Len(c) + 1
  <2>1. k \in 1..Len(d) /\ k # 1 /\ k - 1 = Len(c) /\ Len(c) \in DOMAIN c
    BY <1>1
  <2>2. UpTo(d, k) = UpTo(d, k - 1) \o d[k].txs
    <3> HIDE DEF k
    <3> QED BY <2>1, UpToRec DEF d
  <2> QED BY <1>1, <1>2, <2>1, <2>2 DEF Confirmed
<1>4. Confirmed(d) = UpTo(d, Len(c) + 1)
  BY <1>1 DEF Confirmed
<1>5. 1..(Len(c) + 1) = (1..Len(c)) \cup {Len(c) + 1}
  BY <1>1
<1> QED BY <1>1, <1>2, <1>3, <1>4, <1>5 DEF d

LEMMA ConcatAppend ==
  ASSUME NEW S, NEW s \in Seq(S), NEW q \in Seq(S), NEW x \in S
  PROVE  s \o Append(q, x) = Append(s \o q, x) /\ s \o <<>> = s
OBVIOUS

\* What a step does to a balance in a node's books.
LEMMA BalanceNext ==
  ASSUME Shape, Tables, [Next]_vars, Never("save")', NEW n \in up, NEW a
  PROVE  \/ GetBalance(n, a)' = GetBalance(n, a)
         \/ \E h \in HandlersOf(n) :
              /\ AddTransactionToPool(h) /\ h \in Handlers /\ h[1] = n
              /\ GetBalance(n, a)' = GetBalance(n, a) + EffectOf(job[h].tx, a)
         \/ /\ ReceiveTransaction(n)
            /\ GetBalance(n, a)' = GetBalance(n, a) + EffectOf(Requests[requested + 1], a)
         \/ \E s \in sending : n \in s.todo /\ ReceiveBlock(s, n) /\ Appends(n, s.block)
         \/ Crash(n) \/ Restart(n)
<1>1. /\ n \in Nodes /\ Blocks(chain[n]) /\ pool[n] \in Seq(Tx) /\ Confirmed(chain[n]) \in Seq(Tx)
      /\ Transactions(n) = Confirmed(chain[n]) \o pool[n]
  BY TransactionsAre, ConfirmedIs DEF Shape, Tables
<1>2. /\ Shape' /\ Tables'
  BY ShapeNext
<1>3. ASSUME ~Crash(n) PROVE Transactions(n)' = Confirmed(chain'[n]) \o pool'[n]
  <2>1. n \in up'
    BY <1>3, UpNext
  <2>2. Blocks(chain'[n]) /\ pool'[n] \in Seq(Tx)
    BY <1>1, <1>2, <2>1 DEF Tables, Shape
  <2>3. Len(chain'[n]) \in Nat /\ DOMAIN chain'[n] = 1..Len(chain'[n])
    BY <2>2, LastOf
  <2> QED BY <2>3 DEF Transactions, Confirmed, UpTo
<1>4. CASE chain'[n] = chain[n] /\ pool'[n] = pool[n] /\ rows'[n] = rows[n]
  BY <1>4 DEF GetBalance, Transactions
<1>5. ASSUME NEW x \in Tx, pool'[n] = Append(pool[n], x), UNCHANGED <<chain, rows>>, ~Crash(n)
      PROVE  GetBalance(n, a)' = GetBalance(n, a) + EffectOf(x, a)
  <2>1. Transactions(n)' = Append(Transactions(n), x) /\ Transactions(n) \in Seq(Tx)
    <3> DEFINE s == Confirmed(chain[n])
               q == pool[n]
    <3>1. s \in Seq(Tx) /\ q \in Seq(Tx) /\ Transactions(n) = s \o q
      BY <1>1
    <3>2. Transactions(n)' = s \o Append(q, x)
      BY <1>3, <1>5
    <3> HIDE DEF s, q
    <3>3. s \o Append(q, x) = Append(s \o q, x) /\ s \o q \in Seq(Tx)
      BY <1>5, <3>1, ConcatAppend
    <3> QED BY <3>1, <3>2, <3>3
  <2> QED BY <2>1, BalanceAppend DEF GetBalance
<1>6. ASSUME NEW h \in HandlersOf(n), AddTransactionToPool(h), h \in Handlers, h[1] = n,
             UNCHANGED <<chain, rows>>, pool'[n] = Append(pool[n], job[h].tx)
      PROVE  GetBalance(n, a)' = GetBalance(n, a) + EffectOf(job[h].tx, a)
  <2>1. job[h].tx \in Tx
    <3>1. job[h].tx \in Commands
      BY <1>6, BusyIs
    <3> QED BY <3>1 DEF Commands, Tx
  <2>2. UNCHANGED up
    BY <1>6 DEF AddTransactionToPool, failureVars
  <2>3. ~Crash(n)
    BY <2>2 DEF Crash
  <2> QED BY <1>5, <1>6, <2>1, <2>3
<1>7. CASE ReceiveTransaction(n) /\ UNCHANGED <<chain, rows>> /\ pool'[n] = Append(pool[n], Requests[requested + 1])
  <2>1. Requests[requested + 1] \in Tx
    <3>1. requested < Len(Requests) /\ requested \in 0..Len(Requests) /\ Len(Requests) \in Nat
          /\ DOMAIN Requests = 1..Len(Requests)
      BY <1>7, RequestsAre DEF ReceiveTransaction, Shape
    <3>2. requested + 1 \in DOMAIN Requests
      BY <3>1
    <3> QED BY <3>2 DEF Tx, Range
  <2>2. UNCHANGED up
    BY <1>7 DEF ReceiveTransaction
  <2>3. ~Crash(n)
    BY <2>2 DEF Crash
  <2> QED BY <1>5, <1>7, <2>1, <2>3
<1>8. ASSUME NEW t \in Times, Mine(n, t), Appends(n, NewBlock(n, t))
      PROVE  GetBalance(n, a)' = GetBalance(n, a)
  <2> DEFINE b == NewBlock(n, t)
  <2>1. b.txs = pool[n]
    BY DEF NewBlock
  <2> HIDE DEF b
  <2>2. chain'[n] = Append(chain[n], b) /\ Blocks(chain'[n]) /\ pool'[n] = <<>>
    BY <1>8, AppendsIs DEF b
  <2>3. Confirmed(chain'[n]) = Transactions(n)
    <3>1. Blocks(Append(chain[n], b))
      BY <2>2
    <3>2. Confirmed(Append(chain[n], b)) = Confirmed(chain[n]) \o b.txs
      BY <1>1, <3>1, UpToAppend
    <3> QED BY <1>1, <2>1, <2>2, <3>2
  <2>4. Transactions(n) \in Seq(Tx)
    BY <1>1
  <2>5. UNCHANGED up
    BY <1>8 DEF Mine
  <2>6. Transactions(n)' = Transactions(n) \o <<>>
    BY <1>3, <2>2, <2>3, <2>5 DEF Crash
  <2>7. Transactions(n)' = Transactions(n)
    BY <2>4, <2>6
  <2> QED BY <2>7 DEF GetBalance
<1> QED BY <1>1, <1>4, <1>6, <1>7, <1>8, BooksNext

\* What is queued or handled is an amount to spend or to credit.
LEMMA PositiveInit ==
  ASSUME Init
  PROVE  Positive
BY RangeEmpty DEF Init, Positive, Busy

\* Commands are for positive amounts: the gateway refuses others.
LEMMA PositiveNext ==
  ASSUME Shape, Tables, Positive, [Next]_vars
  PROVE  Positive'
<1>1. queue \in Seq(Commands) /\ \A x \in Range(queue) : x.amount > 0
  BY DEF Shape, Positive
\* What goes back to the queue was handled.
<1>2. ASSUME NEW h \in Handlers, NEW q \in Seq(Commands), \A x \in Range(q) : x.amount > 0
      PROVE  \A x \in Range(Requeued(h, q)) : x.amount > 0
  <2>1. CASE Busy(h) /\ job[h].owned
    <3>1. job[h].tx \in Commands /\ job[h].tx.amount > 0
      BY <2>1, BusyIs DEF Positive
    <3>2. Requeued(h, q) = <<job[h].tx>> \o q
      BY <2>1, RequeuedIs
    <3>3. \A y : y \in Range(<<job[h].tx>> \o q) <=> y = job[h].tx \/ y \in Range(q)
      BY <3>1, DistinctBefore
    <3> QED BY <1>2, <3>1, <3>2, <3>3
  <2>2. CASE ~(Busy(h) /\ job[h].owned)
    BY <1>2, <2>2, RequeuedIs
  <2> QED BY <2>1, <2>2
<1>3. \A tx \in Range(queue') : tx.amount > 0
  <2>1. CASE queue' = queue
    BY <1>1, <2>1
  <2>2. CASE Request
    <3>1. queue' = Append(queue, Requests[requested + 1]) /\ Requests[requested + 1].amount > 0
      BY <2>2 DEF Request
    <3> QED BY <1>1, <3>1, RangeAppend
  <2>3. CASE queue # <<>> /\ queue' = Tail(queue)
    BY <1>1, <2>3, TailIs
  <2>4. ASSUME NEW h \in Handlers, LoseConnection(h) PROVE \A tx \in Range(queue') : tx.amount > 0
    <3>1. queue' = Requeued(h, queue)
      BY <2>4 DEF LoseConnection
    <3> QED BY <1>1, <1>2, <3>1
  <2>5. ASSUME NEW n \in Nodes, Crash(n) PROVE \A tx \in Range(queue') : tx.amount > 0
    <3>1. PICK g, h \in HandlersOf(n) : g \in Handlers /\ h \in Handlers /\ queue' = Requeued(g, Requeued(h, queue))
      BY <2>5, CrashQueueIs
    <3>2. Requeued(h, queue) \in Seq(Commands) /\ \A x \in Range(Requeued(h, queue)) : x.amount > 0
      BY <1>1, <1>2, <3>1, RequeuedIs
    <3> QED BY <1>2, <3>1, <3>2
  <2>6. ASSUME NEW h \in Handlers, Deliver(h) PROVE queue # <<>> /\ queue' = Tail(queue)
    BY <2>6, DeliverIs
  <2>7. Expire => queue # <<>> /\ queue' = Tail(queue)
    BY DEF Expire
  <2> QED BY <2>1, <2>2, <2>3, <2>4, <2>5, <2>6, <2>7, QueueNext
<1>4. ASSUME NEW h \in Handlers, Busy(h)' PROVE job'[h].tx.amount > 0
  <2>1. CASE job'[h] = job[h]
    BY <1>4, <2>1 DEF Positive, Busy
  <2>2. CASE queue # <<>> /\ job'[h].tx = Head(queue)
    BY <1>1, <2>2, TailIs
  <2>3. CASE Busy(h) /\ job'[h].tx = job[h].tx
    BY <2>3 DEF Positive
  <2> QED BY <1>4, <2>1, <2>2, <2>3, JobsNext
<1> QED BY <1>3, <1>4 DEF Positive

LEMMA FundsInit ==
  ASSUME Init
  PROVE  Funds
<1>1. ASSUME NEW n \in Nodes, NEW a
      PROVE  /\ \A k \in DOMAIN chain[n] : Balance(UpTo(chain[n], k), a) = 0
             /\ GetBalance(n, a) = 0
  <2> DEFINE c == <<Genesis>>
  <2>1. chain[n] = c /\ pool[n] = <<>> /\ n \in up
    BY DEF Init
  <2>2. Blocks(c)
    BY <2>1, ShapeInit DEF Tables
  <2>3. DOMAIN c = {1} /\ Len(c) = 1 /\ c[1].txs = <<>>
    BY DEF Genesis
  <2> HIDE DEF c
  <2>4. 1 \in 1..Len(c)
    BY <2>3
  <2>5. UpTo(c, 1) = <<>>
    BY <2>2, <2>3, <2>4, UpToRec
  <2>6. Confirmed(c) = <<>>
    BY <2>3, <2>5 DEF Confirmed
  <2>7. pool[n] \in Seq(Tx)
    <3>1. <<>> \in Seq(Tx)
      OBVIOUS
    <3> QED BY <2>1, <3>1
  <2>8. Transactions(n) = <<>> \o <<>>
    BY <2>1, <2>2, <2>6, <2>7, TransactionsAre
  <2>9. Transactions(n) = <<>>
    BY <2>8
  <2> QED BY <2>1, <2>3, <2>5, <2>9, BalanceEmpty DEF GetBalance
<1>2. \A h \in Handlers : ~At(h, "add")
  BY DEF Init, At, Idle
<1>3. up = Nodes
  BY DEF Init
<1>4. 0 >= 0
  OBVIOUS
<1>5. \A n \in up, a \in Accounts :
        /\ \A k \in DOMAIN chain[n] : Balance(UpTo(chain[n], k), a) >= 0
        /\ GetBalance(n, a) >= 0
  BY <1>1, <1>3, <1>4, Zenon
<1> QED BY <1>2, <1>5, Zenon DEF Funds

\* A debit was checked by the handler that adds it, and no other step of its node
\* lowers the balance of its sender in between.
LEMMA FundsNext ==
  ASSUME Shape, Tables, Rulers, Single, Links, Positive, Funds, [Next]_vars
  PROVE  Funds'
<1> SUFFICES ASSUME LegacyCredits, Never("save")', Never("restart")', Never("overlap")'
             PROVE  /\ \A n \in up', a \in Accounts :
                         /\ \A k \in DOMAIN chain'[n] : Balance(UpTo(chain'[n], k), a) >= 0
                         /\ GetBalance(n, a)' >= 0
                    /\ \A h \in Handlers :
                         At(h, "add")' /\ job'[h].tx.sender # ""
                           => GetBalance(h[1], job[h].tx.sender)' >= job'[h].tx.amount
  BY DEF Funds
<1>1. Never("save") /\ Never("restart") /\ Never("overlap") /\ Whole /\ \A n \in Nodes : ~Restart(n)
  BY FaultsNext, FaultIs DEF FaultKinds, Whole, Restart
<1>2. /\ \A n \in up, a \in Accounts :
           /\ \A k \in DOMAIN chain[n] : Balance(UpTo(chain[n], k), a) >= 0
           /\ GetBalance(n, a) >= 0
      /\ \A h \in Handlers :
           At(h, "add") /\ job[h].tx.sender # "" => GetBalance(h[1], job[h].tx.sender) >= job[h].tx.amount
  BY <1>1 DEF Funds
<1>3. \A n \in up' : n \in up /\ n \in Nodes /\ ~Crash(n)
  BY <1>1, UpNext DEF Crash, Shape
<1>4. \A n \in up : Blocks(chain[n]) /\ pool[n] \in Seq(Tx) /\ Transactions(n) \in Seq(Tx) /\ n \in Nodes
  BY TransactionsAre DEF Tables, Shape
<1>5. \A n \in up : \A a : GetBalance(n, a) \in Int
  <2> TAKE n \in up
  <2> TAKE a
  <2>1. Transactions(n) \in Seq(Tx)
    BY <1>4
  <2>2. Balance(Transactions(n), a) \in Int
    <3> DEFINE s == Transactions(n)
    <3> HIDE DEF s
    <3>1. \A tx \in Tx : s \in Seq(Tx) => Balance(s, a) \in Int
      BY BalanceAppend
    <3>2. CASE \E tx \in Tx : TRUE
      BY <2>1, <3>1, <3>2 DEF s
    <3>3. CASE ~\E tx \in Tx : TRUE
      <4>1. s = <<>>
        BY <2>1, <3>3 DEF s
      <4> QED BY <4>1, BalanceEmpty DEF s
    <3> QED BY <3>2, <3>3
  <2> QED BY <2>2 DEF GetBalance
<1>6. \A tx \in Tx : tx.amount \in Int
  BY RequestsAre
\* A legacy transaction takes nothing.
<1>7. ASSUME NEW n \in up, ReceiveTransaction(n), NEW a, a # "" PROVE EffectOf(Requests[requested + 1], a) >= 0
  <2> DEFINE tx == Requests[requested + 1]
  <2>1. requested < Len(Requests) /\ requested \in 0..Len(Requests) /\ Len(Requests) \in Nat
        /\ DOMAIN Requests = 1..Len(Requests)
    BY <1>7, RequestsAre DEF ReceiveTransaction, Shape
  <2>2. requested + 1 \in DOMAIN Requests
    BY <2>1
  <2>3. tx \in Tx /\ tx.id = ""
    BY <1>7, <2>2 DEF Tx, Range, ReceiveTransaction
  <2> HIDE DEF tx
  <2>4. tx.sender = "" /\ tx.amount >= 0 /\ tx.amount \in Int
    BY <1>6, <2>3 DEF LegacyCredits
  <2>5. EffectOf(tx, a) >= 0
    BY <1>7, <2>4, EffectIs
  <2> QED BY <2>5 DEF tx
\* The accounts of a chain that a block is received in are the sender's.
<1>8. ASSUME NEW n \in up, NEW s \in sending, n \in s.todo, ReceiveBlock(s, n), Appends(n, s.block), NEW a \in Accounts
      PROVE  /\ \A k \in DOMAIN chain'[n] : Balance(UpTo(chain'[n], k), a) >= 0
             /\ GetBalance(n, a)' >= 0
  <2>1. /\ Within(Append(chain[n], s.block), chain[s.from]) /\ Blocks(chain[s.from]) /\ s.from \in up
    BY <1>1, <1>8, ReceivedWithin DEF Shape
  <2>2. chain'[n] = Append(chain[n], s.block) /\ Blocks(chain'[n]) /\ pool'[n] = <<>>
    BY <1>1, <1>8, AppendsIs
  <2>3. /\ DOMAIN chain'[n] = 1..Len(chain'[n]) /\ Len(chain'[n]) \in Nat /\ Len(chain'[n]) >= 1
        /\ DOMAIN chain[s.from] = 1..Len(chain[s.from]) /\ Len(chain[s.from]) \in Nat
    BY <2>1, <2>2, LastOf
  <2>4. ASSUME NEW k \in DOMAIN chain'[n] PROVE Balance(UpTo(chain'[n], k), a) >= 0
    <3>1. k \in DOMAIN chain[s.from] /\ \A i \in 1..k : chain'[n][i] = chain[s.from][i]
      BY <2>1, <2>2, <2>3, <2>4 DEF Within
    <3>2. UpTo(chain'[n], k) = UpTo(chain[s.from], k)
      BY <3>1, UpToSame
    <3> QED BY <1>2, <2>1, <3>1, <3>2
  <2>5. Confirmed(chain'[n]) \in Seq(Tx) /\ Balance(Confirmed(chain'[n]), a) >= 0
    <3>1. Confirmed(chain'[n]) \in Seq(Tx)
      BY <2>2, ConfirmedIs
    <3>2. Len(chain'[n]) \in DOMAIN chain'[n]
      BY <2>3
    <3> QED BY <2>4, <3>1, <3>2 DEF Confirmed
  <2>6. Transactions(n)' = Confirmed(chain'[n]) \o <<>>
    BY <2>2, <2>3 DEF Transactions, Confirmed, UpTo
  <2>7. Transactions(n)' = Confirmed(chain'[n])
    <3> DEFINE s0 == Confirmed(chain'[n])
    <3>1. s0 \in Seq(Tx)
      BY <2>5
    <3> HIDE DEF s0
    <3>2. s0 \o <<>> = s0
      BY <3>1
    <3> QED BY <2>6, <3>2 DEF s0
  <2> QED BY <2>4, <2>5, <2>7 DEF GetBalance
\* What is mined was in the pool.
<1>9. ASSUME NEW n \in up, NEW t \in Times, Mine(n, t), Appends(n, NewBlock(n, t)), NEW a \in Accounts,
             NEW k \in DOMAIN chain'[n]
      PROVE  Balance(UpTo(chain'[n], k), a) >= 0
  <2> DEFINE b == NewBlock(n, t)
  <2>1. b.txs = pool[n]
    BY DEF NewBlock
  <2> HIDE DEF b
  <2>2. chain'[n] = Append(chain[n], b) /\ Blocks(chain'[n]) /\ Blocks(chain[n]) /\ pool[n] \in Seq(Tx)
    BY <1>4, <1>9, AppendsIs DEF b
  <2>3. Blocks(Append(chain[n], b))
    BY <2>2
  <2>4. /\ \A j \in DOMAIN chain[n] : UpTo(Append(chain[n], b), j) = UpTo(chain[n], j)
        /\ UpTo(Append(chain[n], b), Len(chain[n]) + 1) = Confirmed(chain[n]) \o pool[n]
        /\ DOMAIN Append(chain[n], b) = DOMAIN chain[n] \cup {Len(chain[n]) + 1}
    <3> DEFINE c == chain[n]
    <3>1. Blocks(c) /\ Blocks(Append(c, b))
      BY <2>2, <2>3
    <3> HIDE DEF c
    <3>2. /\ \A j \in DOMAIN c : UpTo(Append(c, b), j) = UpTo(c, j)
          /\ UpTo(Append(c, b), Len(c) + 1) = Confirmed(c) \o b.txs
          /\ DOMAIN Append(c, b) = DOMAIN c \cup {Len(c) + 1}
      BY <3>1, UpToAppend
    <3> QED BY <2>1, <3>2 DEF c
  <2>5. Confirmed(chain[n]) \o pool[n] = Transactions(n)
    BY <2>2, TransactionsAre
  <2> QED BY <1>2, <1>9, <2>2, <2>4, <2>5 DEF GetBalance
<1>10. ASSUME NEW n \in up', NEW a \in Accounts, NEW k \in DOMAIN chain'[n]
       PROVE  Balance(UpTo(chain'[n], k), a) >= 0
  <2>1. CASE chain'[n] = chain[n]
    BY <1>2, <1>3, <1>10, <2>1
  <2> QED BY <1>1, <1>3, <1>8, <1>9, <1>10, <2>1, BooksNext
<1>11. ASSUME NEW n \in up', NEW a \in Accounts PROVE GetBalance(n, a)' >= 0
  <2>1. n \in up /\ n \in Nodes /\ ~Crash(n) /\ ~Restart(n) /\ a # "" /\ GetBalance(n, a) >= 0 /\ GetBalance(n, a) \in Int
    <3>1. n \in up /\ n \in Nodes /\ ~Crash(n) /\ ~Restart(n)
      BY <1>1, <1>3
    <3>2. a # ""
      BY DEF Accounts
    <3> QED BY <1>2, <1>5, <3>1, <3>2, Zenon
  <2>2. ASSUME NEW h \in HandlersOf(n), AddTransactionToPool(h), h \in Handlers, h[1] = n,
               GetBalance(n, a)' = GetBalance(n, a) + EffectOf(job[h].tx, a)
        PROVE  GetBalance(n, a)' >= 0
    <3> DEFINE tx == job[h].tx
    <3>1. At(h, "add") /\ Busy(h)
      BY <2>2, BusyIs DEF AddTransactionToPool
    <3>2. tx.amount > 0 /\ tx \in Tx
      <4>1. tx \in Commands /\ tx.amount > 0
        BY <2>2, <3>1, BusyIs DEF Positive
      <4> QED BY <4>1 DEF Commands, Tx
    <3>3. tx.sender # "" => GetBalance(n, tx.sender) >= tx.amount
      BY <1>2, <2>2, <3>1
    <3> HIDE DEF tx
    <3>4. tx.amount \in Int
      BY <1>6, <3>2
    <3>5. tx.sender = a => GetBalance(n, a) >= tx.amount
      BY <2>1, <3>3
    <3>6. GetBalance(n, a)' = GetBalance(n, a) + EffectOf(tx, a)
      BY <2>2 DEF tx
    <3>7. /\ tx.sender # a => EffectOf(tx, a) >= 0
          /\ EffectOf(tx, a) >= 0 - tx.amount /\ EffectOf(tx, a) \in Int
      BY <3>2, <3>4, EffectIs
    <3>8. PICK g : g = GetBalance(n, a)
      OBVIOUS
    <3>9. PICK e : e = EffectOf(tx, a)
      OBVIOUS
    <3>10. g \in Int /\ g >= 0 /\ e \in Int /\ (tx.sender # a => e >= 0) /\ e >= 0 - tx.amount
           /\ (tx.sender = a => g >= tx.amount)
      BY <2>1, <3>5, <3>7, <3>8, <3>9
    <3>11. g + e >= 0
      BY <3>4, <3>10
    <3> QED BY <3>6, <3>8, <3>9, <3>11
  <2>3. CASE ReceiveTransaction(n) /\ GetBalance(n, a)' = GetBalance(n, a) + EffectOf(Requests[requested + 1], a)
    <3>1. EffectOf(Requests[requested + 1], a) >= 0
      BY <1>7, <2>1, <2>3
    <3>2. EffectOf(Requests[requested + 1], a) \in Int
      <4>1. requested < Len(Requests) /\ requested \in 0..Len(Requests) /\ Len(Requests) \in Nat
            /\ DOMAIN Requests = 1..Len(Requests)
        BY <2>3, RequestsAre DEF ReceiveTransaction, Shape
      <4>2. requested + 1 \in DOMAIN Requests
        BY <4>1
      <4>3. Requests[requested + 1] \in Tx
        BY <4>2 DEF Tx, Range
      <4> QED BY <4>3, EffectIsInt
    <3>3. PICK g : g = GetBalance(n, a)
      OBVIOUS
    <3>4. PICK e : e = EffectOf(Requests[requested + 1], a)
      OBVIOUS
    <3>5. g \in Int /\ g >= 0 /\ e \in Int /\ e >= 0
      BY <2>1, <3>1, <3>2, <3>3, <3>4
    <3>6. g + e >= 0
      BY <3>5
    <3> QED BY <2>3, <3>3, <3>4, <3>6
  <2> QED BY <1>8, <2>1, <2>2, <2>3, BalanceNext
\* A handler that is about to add has checked, and nobody else takes.
<1>12. ASSUME NEW h \in Handlers, At(h, "add")', job'[h].tx.sender # ""
       PROVE  GetBalance(h[1], job[h].tx.sender)' >= job'[h].tx.amount
  <2> DEFINE n == h[1]
  <2>0. PICK x : x = job'[h].tx
    OBVIOUS
  <2> SUFFICES GetBalance(n, x.sender)' >= x.amount
    BY <2>0 DEF GetBalance
  <2>1. Busy(h)' /\ Shape'
    <3>1. job'[h].at = "add" /\ Idle.at = "idle"
      BY <1>12 DEF At, Idle
    <3>2. job'[h] # Idle
      BY <3>1
    <3>3. Busy(h)'
      BY <3>2 DEF Busy
    <3> QED BY <3>3, ShapeNext
  <2>2. x \in Commands /\ n \in Nodes /\ n \in up' /\ n \in up /\ ~Crash(n) /\ ~Restart(n)
    <3>1. x \in Commands
      BY <2>0, <2>1 DEF Shape, Jobs, Busy
    <3>2. n \in up' /\ n \in Nodes
      BY <2>1, HandlerIs DEF Shape
    <3> QED BY <1>1, <1>3, <3>1, <3>2
  <2>3. GetBalance(n, x.sender) \in Int /\ x.amount \in Int /\ x.sender # ""
    BY <1>5, <1>6, <1>12, <2>0, <2>2 DEF Commands, Tx
  <2> HIDE DEF n
  <2>4. CASE At(h, "add") /\ job[h].tx = x /\ ~AddTransactionToPool(h)
    <3>1. GetBalance(n, x.sender) >= x.amount
      BY <1>2, <2>3, <2>4 DEF n
    <3>2. Busy(h) /\ h \in consuming /\ Acts(n)
      <4>1. Busy(h)
        BY <2>4 DEF Busy, At, Idle
      <4> QED BY <4>1, BusyIs DEF Acts, n
    <3>3. ~\E s \in sending : n \in s.todo
      BY <1>1, <3>2, ActsReceivesNone
    <3>4. CASE ReceiveTransaction(n) /\ GetBalance(n, x.sender)' = GetBalance(n, x.sender) + EffectOf(Requests[requested + 1], x.sender)
      <4>1. EffectOf(Requests[requested + 1], x.sender) >= 0
        BY <1>7, <2>2, <2>3, <3>4
      <4>2. EffectOf(Requests[requested + 1], x.sender) \in Int
        <5>1. requested < Len(Requests) /\ requested \in 0..Len(Requests) /\ Len(Requests) \in Nat
              /\ DOMAIN Requests = 1..Len(Requests)
          BY <3>4, RequestsAre DEF ReceiveTransaction, Shape
        <5>2. requested + 1 \in DOMAIN Requests
          BY <5>1
        <5>3. Requests[requested + 1] \in Tx
          BY <5>2 DEF Tx, Range
        <5> QED BY <5>3, EffectIsInt
      <4>3. PICK g : g = GetBalance(n, x.sender)
        OBVIOUS
      <4>4. PICK e : e = EffectOf(Requests[requested + 1], x.sender)
        OBVIOUS
      <4>5. g \in Int /\ g >= x.amount /\ e \in Int /\ e >= 0 /\ x.amount \in Int
        BY <2>3, <3>1, <4>1, <4>2, <4>3, <4>4
      <4>6. g + e >= x.amount
        BY <4>5
      <4> QED BY <3>4, <4>3, <4>4, <4>6
    <3>5. \A g \in Handlers : ~(g[1] = n /\ AddTransactionToPool(g))
      <4> SUFFICES ASSUME NEW g \in Handlers, g[1] = n, AddTransactionToPool(g) PROVE FALSE
        OBVIOUS
      <4>1. g \in consuming /\ h[1] = n
        BY BusyIs DEF n
      <4>2. g = h
        BY <1>1, <3>2, <4>1 DEF Single
      <4> QED BY <2>4, <4>2
    <3> QED BY <2>2, <3>1, <3>3, <3>4, <3>5, BalanceNext
  <2>5. CASE CheckFunds(h) /\ job[h].tx = x /\ ~(GetBalance(n, x.sender) < x.amount)
    <3>1. UNCHANGED storeVars
      BY <2>5 DEF CheckFunds
    <3>2. GetBalance(n, x.sender)' = GetBalance(n, x.sender)
      BY <3>1 DEF GetBalance, Transactions, storeVars
    <3>3. PICK g : g = GetBalance(n, x.sender)
      OBVIOUS
    <3>4. ~(g < x.amount) /\ g \in Int /\ x.amount \in Int
      BY <2>3, <2>5, <3>3
    <3>5. g >= x.amount
      BY <3>4
    <3> QED BY <3>2, <3>3, <3>5
  <2>6. CASE job'[h] = job[h]
    <3>1. At(h, "add") /\ job[h].tx = x
      BY <1>12, <2>0, <2>6 DEF At
    <3>2. ~AddTransactionToPool(h)
      <4>1. Busy(h)
        BY <3>1 DEF Busy, At, Idle
      <4>2. AddTransactionToPool(h) => job'[h].at = "tell"
        BY <4>1, GotoIs DEF AddTransactionToPool
      <4> QED BY <1>12, <4>2 DEF At
    <3> QED BY <2>4, <3>1, <3>2
  <2>7. CASE LoseConnection(h) /\ job'[h].at = job[h].at /\ job'[h].tx = job[h].tx
    <3>1. At(h, "add") /\ job[h].tx = x
      BY <1>12, <2>0, <2>7 DEF At
    <3>2. UNCHANGED storeVars
      BY <2>7 DEF LoseConnection
    <3>3. GetBalance(n, x.sender)' = GetBalance(n, x.sender)
      BY <3>2 DEF GetBalance, Transactions, storeVars
    <3> QED BY <1>2, <2>3, <3>1, <3>3 DEF n
  <2>8. CASE queue # <<>> /\ job'[h].tx = Head(queue)
             /\ job'[h].at = (IF HasTransaction(n, Head(queue)) THEN "ack"
                              ELSE IF Head(queue).sender = "" THEN "add" ELSE "funds")
    BY <1>12, <2>0, <2>3, <2>8 DEF At
  <2> QED BY <1>12, <2>0, <2>1, <2>5, <2>6, <2>7, <2>8, JobsNext DEF At, n
<1> QED BY <1>10, <1>11, <1>12

-----------------------------------------------------------------------------
(***************************************************************************)
(* The theorems.                                                           *)
(***************************************************************************)

BlockchainInv ==
  /\ Shape /\ Tables /\ Rulers /\ Single /\ Links /\ Stored /\ Agreement /\ Kept
  /\ OnePlace /\ Counted /\ Positive /\ Funds

LEMMA InvInit ==
  ASSUME Init
  PROVE  BlockchainInv
<1>1. Rulers /\ Single
  BY ActsInit DEF Rulers, Single, Init
<1> QED BY <1>1, ShapeInit, LinksInit, AgreementInit, KeptInit, OnePlaceInit, CountedInit, PositiveInit, FundsInit
        DEF BlockchainInv

LEMMA InvNext ==
  ASSUME BlockchainInv, [Next]_vars
  PROVE  BlockchainInv'
BY ShapeNext, RulersNext, SingleNext, LinksNext, AgreementNext, KeptNext, OnePlaceNext, CountedNext, PositiveNext, FundsNext
   DEF BlockchainInv

\* The invariant holds in every state.
LEMMA BlockchainAlways == Spec => []BlockchainInv
<1>1. Init => BlockchainInv
  BY InvInit
<1>2. BlockchainInv /\ [Next]_vars => BlockchainInv'
  BY InvNext
<1> QED BY <1>1, <1>2, PTL DEF Spec

\* A node runs as long as it has a chain, a node that is down keeps its table
\* only, and every command and block is where the code keeps such.
THEOREM BlockchainTypeCorrect == Spec => []TypeOK
<1>1. BlockchainInv => TypeOK
  <2> SUFFICES ASSUME Shape, Tables PROVE TypeOK
    BY DEF BlockchainInv
  <2>1. ASSUME NEW n \in Nodes
        PROVE  /\ n \in up <=> chain[n] # <<>>
               /\ n \notin up => pool[n] = <<>> /\ mining[n] = 0 /\ HandlersOf(n) \cap consuming = {}
               /\ Range(pool[n]) \subseteq Range(Requests)
               /\ consumer[n] # NoConsumer => <<n, consumer[n]>> \in consuming
    <3>1. n \in up <=> chain[n] # <<>>
      BY DEF Shape, Tables, Blocks
    <3>2. n \notin up => pool[n] = <<>> /\ mining[n] = 0 /\ HandlersOf(n) \cap consuming = {}
      BY HandlerIs DEF Shape
    <3>3. pool[n] \in Seq(Tx)
      BY DEF Shape
    <3>4. Range(pool[n]) \subseteq Range(Requests)
      BY <3>3 DEF Range, Tx
    <3>5. consumer[n] # NoConsumer => <<n, consumer[n]>> \in consuming
      BY DEF Shape
    <3> QED BY <3>1, <3>2, <3>4, <3>5
  <2>5. ASSUME NEW h \in Handlers
        PROVE  job[h].at \in Steps /\ (At(h, "idle") \/ (h \in consuming /\ job[h].tx \in Commands))
    BY JobIs DEF Steps, At
  <2>2. Range(queue) \subseteq Commands
    <3>1. queue \in Seq(Commands)
      BY DEF Shape
    <3> QED BY <3>1 DEF Range
  <2>3. \A s \in sending : s.from \in up /\ s.todo \subseteq Nodes \ {s.from} /\ s.todo # {}
    BY DEF Shape
  <2>4. /\ up \subseteq Nodes /\ due \subseteq up /\ unanswered \subseteq Commands
        /\ leader \in [Nodes -> Nodes \cup {NoLeader}] /\ beat \in [Nodes -> Nodes \cup {NoLeader}]
        /\ telling \in [Nodes -> SUBSET Nodes]
        /\ mining \in [Nodes -> Nat] /\ requested \in 0..Len(Requests)
    BY DEF Shape
  <2> QED BY <2>1, <2>2, <2>3, <2>4, <2>5 DEF TypeOK
<1> QED BY <1>1, BlockchainAlways, PTL

\* Whoever mines, in whatever order blocks come and whoever crashes, the chains
\* of the nodes and of their tables are linked, while blocks can be saved.
THEOREM ChainsAlwaysValid == Spec => []ChainsValid
<1>1. BlockchainInv => ChainsValid
  <2> SUFFICES ASSUME Shape, Tables, Stored, Never("save"), NEW n \in Nodes
               PROVE  IsValid(chain[n]) /\ IsValid(LoadBlocks(n))
    BY DEF BlockchainInv, ChainsValid
  <2>1. Blocks(rows[n]) /\ IsValid(rows[n]) /\ (n \in up => rows[n] = chain[n])
    BY DEF Tables, Stored
  <2>2. LoadBlocks(n) = rows[n]
    BY <2>1, LoadsRows
  <2>3. n \notin up => chain[n] = <<>>
    BY DEF Shape
  <2>4. IsValid(<<>>)
    BY DEF IsValid
  <2> QED BY <2>1, <2>2, <2>3, <2>4
<1> QED BY <1>1, BlockchainAlways, PTL

\* Without a restart, a command announced as accepted stays in the books of the
\* node that announced it, although a received block drops the pool.
THEOREM AcceptedAlwaysKept == Spec => []AcceptedKept
<1>1. BlockchainInv => AcceptedKept
  <2> SUFFICES ASSUME Shape, Tables, Kept, Never("restart"), NEW a \in answered, a.accepted, a.by \in up
               PROVE  HasTransaction(a.by, a.tx)
    BY DEF BlockchainInv, AcceptedKept
  <2>1. InBooks(a.by, a.tx) /\ a.tx \in Commands
    BY DEF Kept, Shape
  <2>2. Blocks(chain[a.by]) /\ pool[a.by] \in Seq(Tx)
    BY DEF Shape, Tables
  <2> QED BY <2>1, <2>2, InBooksIs
<1> QED BY <1>1, BlockchainAlways, PTL

\* Without a crash, of two nodes' chains one is a beginning of the other,
\* although two nodes may take themselves for the leader.
THEOREM ChainsAlwaysAgree == Spec => []ChainsAgree
<1>1. BlockchainInv => ChainsAgree
  <2> SUFFICES ASSUME Shape, Tables, Agreement, Never("crash"), NEW m \in up, NEW n \in up
               PROVE  IsPrefix(chain[m], chain[n]) \/ IsPrefix(chain[n], chain[m])
    BY DEF BlockchainInv, ChainsAgree
  <2>1. Within(chain[m], chain[n]) \/ Within(chain[n], chain[m])
    BY DEF Agreement
  <2>2. Blocks(chain[m]) /\ Blocks(chain[n])
    BY DEF Tables
  <2> QED BY <2>1, <2>2, WithinIsPrefix
<1> QED BY <1>1, BlockchainAlways, PTL

\* However often a command is delivered, whoever leads and whoever crashes, it
\* is in a node's books once at most: blocks can be saved, and either no
\* delivery is given out a second time, or no node comes back and none has two
\* consumers.
THEOREM AlwaysOnceInBooks == Spec => []OnceInBooks
<1>1. BlockchainInv => OnceInBooks
  <2> SUFFICES ASSUME Shape, Tables, Stored, Counted, Counting,
                      NEW n \in up, NEW tx \in Commands
               PROVE  Cardinality({i \in DOMAIN Transactions(n) : Transactions(n)[i] = tx}) <= 1
    BY DEF BlockchainInv, OnceInBooks, Once, Counting
  <2>1. n \in Nodes /\ Blocks(chain[n]) /\ pool[n] \in Seq(Tx)
    BY DEF Shape, Tables
  <2>2. OnceChain(chain[n]) /\ OncePool(pool[n])
        /\ \A x \in Commands : x \in Range(pool[n]) => ~InChain(chain[n], x)
    BY <2>1 DEF Counted, Counting, Stored
  <2>3. /\ Confirmed(chain[n]) \in Seq(Tx) /\ OncePool(Confirmed(chain[n]))
        /\ \A x \in Commands : x \in Range(Confirmed(chain[n])) => x \notin Range(pool[n])
    BY <2>1, <2>2, ConfirmedIs
  <2>4. OncePool(Confirmed(chain[n]) \o pool[n])
    BY <2>1, <2>2, <2>3, OnceConcat
  <2>5. OncePool(Transactions(n))
    BY <2>1, <2>4, TransactionsAre
  <2> QED BY <2>5, OnceIsOne
<1> QED BY <1>1, BlockchainAlways, PTL

\* Nobody spends what he does not have in any node's books, if what comes in by
\* the RPC that checks no balance only credits: without a restart, without two
\* consumers at one node, and while blocks can be saved.
THEOREM FundsAlwaysCovered == ASSUME LegacyCredits PROVE Spec => []FundsCovered
<1>1. BlockchainInv => FundsCovered
  BY DEF BlockchainInv, FundsCovered, Funds, GetBalance
<1> QED BY <1>1, BlockchainAlways, PTL
=============================================================================
