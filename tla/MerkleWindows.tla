---------------------------- MODULE MerkleWindows ----------------------------
(***************************************************************************)
(* The audit trail of the ledger: merkleLoop of cmd/ledger/main.go closes  *)
(* one period after the other with a Merkle root over the period's         *)
(* postings (pkg/ledger/merkle.go), while the consumer commits postings.   *)
(* A posting is dated when its transaction begins and seen when it         *)
(* commits; its id is taken from a sequence that is never set back. The    *)
(* statements of the loop may fail, with or without effect, and the ledger *)
(* may restart. Ledger and database read one clock.                        *)
(*                                                                         *)
(* The postings of one transaction are one posting here. The names of the  *)
(* specification have a prefix, as LedgerProofs extends this and Ledger.   *)
(* Operators named Wrong... are seeded faults, used only to test that the  *)
(* properties notice them.                                                 *)
(***************************************************************************)
EXTENDS Integers, FiniteSets, Sequences, Functions

CONSTANTS
  MaxClock,     \* bound: the clock
  MaxIds,       \* bound: postings, those rolled back included
  MaxFaults,    \* bound: saves that report an error, and restarts
  NoWindow,     \* the loop waits for its ticker
  NoTx          \* the consumer has no transaction open

ASSUME BoundsAssumption == MaxClock \in Nat /\ MaxIds \in Nat /\ MaxFaults \in Nat

VARIABLES
  clock,
  running,    \* the ledger runs
  last,       \* merkleLoop's last: where the next period begins
  ticked,     \* the time of the last tick the loop took
  window,     \* the period being closed: its bounds and the leaves that were read
  tx,         \* the consumer's transaction: the posting's id and date
  nextId,     \* the sequence of ledger.postings
  postings,   \* [id, created, late]; late: a read went past its date before it committed
  roots,      \* ledger.merkle_roots: [start, end, root], and the leaves, for the properties
  gaps,       \* periods that no run of the loop closed: [from, to]
  faults

merkleVars == <<clock, running, last, ticked, window, tx, nextId, postings, roots, gaps, faults>>

MerkleInit ==
  /\ clock = 0 /\ running = TRUE /\ last = 0 /\ ticked = 0
  /\ window = NoWindow /\ tx = NoTx /\ nextId = 1
  /\ postings = {} /\ roots = {} /\ gaps = {} /\ faults = 0

-----------------------------------------------------------------------------
(* ComputeMerkleRoot. SHA-256 tells all inputs apart: the hash of a leaf is *)
(* <<leaf>>, that of two hashes is the pair.                               *)

WrongLevel(h) ==
  IF Len(h) <= 1 THEN h
  ELSE [i \in 1..(Len(h) \div 2) |-> <<h[2 * i - 1], h[2 * i]>>]

\* The next level: neighbours combined, the last one with itself if it has none.
Level(h) ==
  IF Len(h) <= 1 THEN h
  ELSE [i \in 1..((Len(h) + 1) \div 2) |->
          <<h[2 * i - 1], IF 2 * i > Len(h) THEN h[2 * i - 1] ELSE h[2 * i]>>]

\* The levels over some leaves: one hash is left before there are as many levels.
Levels(leaves) ==
  LET level[n \in 0..Len(leaves)] ==
        IF n = 0 THEN [i \in DOMAIN leaves |-> <<leaves[i]>>] ELSE Level(level[n - 1])
  IN level

ComputeMerkleRoot(leaves) == IF leaves = <<>> THEN <<>> ELSE Levels(leaves)[Len(leaves)][1]

\* The leaves of some postings: in the order of their ids, which they contain.
Leaves(ps) ==
  LET ids == {p.id : p \in ps}
  IN CHOOSE s \in [1..Cardinality(ids) -> ids] :
       Range(s) = ids /\ \A i, j \in DOMAIN s : i < j => s[i] < s[j]

-----------------------------------------------------------------------------
(* The consumer. *)

\* A transaction begins and inserts its posting.
BeginPosting ==
  /\ running /\ tx = NoTx /\ nextId <= MaxIds
  /\ tx' = [id |-> nextId, created |-> clock]
  /\ nextId' = nextId + 1
  /\ UNCHANGED <<clock, running, last, ticked, window, postings, roots, gaps, faults>>

ReadTo == IF window = NoWindow THEN last ELSE window.end

CommitPosting ==
  /\ tx # NoTx
  /\ postings' = postings \cup {[id |-> tx.id, created |-> tx.created, late |-> tx.created < ReadTo]}
  /\ tx' = NoTx
  /\ UNCHANGED <<clock, running, last, ticked, window, nextId, roots, gaps, faults>>

\* A later statement fails, or the event was applied already.
RollbackPosting ==
  /\ tx # NoTx
  /\ tx' = NoTx
  /\ UNCHANGED <<clock, running, last, ticked, window, nextId, postings, roots, gaps, faults>>

(* The loop. *)

WrongPeriod(start, end) == {p \in postings : start <= p.created /\ p.created <= end}

Period(start, end) == {p \in postings : start <= p.created /\ p.created < end}

\* A tick, later than the one before, which may have waited in the ticker's
\* channel; and the SELECT.
Tick(now) ==
  /\ running /\ window = NoWindow
  /\ ticked < now /\ now <= clock
  /\ ticked' = now
  /\ window' = [start |-> last, end |-> now, leaves |-> Period(last, now)]
  /\ UNCHANGED <<clock, running, last, tx, nextId, postings, roots, gaps, faults>>

\* INSERT ... ON CONFLICT (period_start, period_end) DO NOTHING.
Saved ==
  IF \E r \in roots : r.start = window.start /\ r.end = window.end THEN roots
  ELSE roots \cup {[start |-> window.start, end |-> window.end, leaves |-> window.leaves,
                    root |-> ComputeMerkleRoot(Leaves(window.leaves))]}

SaveRoot ==
  /\ window # NoWindow
  /\ roots' = Saved
  /\ last' = window.end
  /\ window' = NoWindow
  /\ UNCHANGED <<clock, running, ticked, tx, nextId, postings, gaps, faults>>

WrongSaveFails(effective) ==
  /\ window # NoWindow /\ faults < MaxFaults
  /\ roots' = IF effective THEN Saved ELSE roots
  /\ last' = window.end
  /\ window' = NoWindow
  /\ faults' = faults + 1
  /\ UNCHANGED <<clock, running, ticked, tx, nextId, postings, gaps>>

\* The insertion reports an error, and may have taken place: the next period
\* begins where this one did.
SaveFails(effective) ==
  /\ window # NoWindow /\ faults < MaxFaults
  /\ roots' = IF effective THEN Saved ELSE roots
  /\ window' = NoWindow
  /\ faults' = faults + 1
  /\ UNCHANGED <<clock, running, last, ticked, tx, nextId, postings, gaps>>

\* The ledger stops, and its transaction is rolled back ...
Stop ==
  /\ running /\ faults < MaxFaults
  /\ running' = FALSE
  /\ window' = NoWindow /\ tx' = NoTx
  /\ faults' = faults + 1
  /\ UNCHANGED <<clock, last, ticked, nextId, postings, roots, gaps>>

\* ... and begins anew at the present.
Start ==
  /\ ~running
  /\ running' = TRUE
  /\ last' = clock /\ ticked' = clock
  /\ gaps' = gaps \cup {[from |-> last, to |-> clock]}
  /\ UNCHANGED <<clock, window, tx, nextId, postings, roots, faults>>

Advance ==
  /\ clock < MaxClock
  /\ clock' = clock + 1
  /\ UNCHANGED <<running, last, ticked, window, tx, nextId, postings, roots, gaps, faults>>

MerkleNext ==
  \/ BeginPosting \/ CommitPosting \/ RollbackPosting
  \/ \E now \in 1..MaxClock : Tick(now)
  \/ SaveRoot
  \/ \E effective \in BOOLEAN : SaveFails(effective)
  \/ Stop \/ Start \/ Advance

MerkleSpec == MerkleInit /\ [][MerkleNext]_merkleVars
-----------------------------------------------------------------------------
(* Properties. *)

InRoot(p) == \E r \in roots : p \in r.leaves

InGap(p) == \E g \in gaps : g.from <= p.created /\ p.created < g.to

\* No posting before the point the loop has reached is missing from the trail,
\* but one whose transaction was open when its period was read, and those of the
\* period that a restart cut short.
MissedOnlyIfLate ==
  \A p \in postings : p.created < last => InRoot(p) \/ p.late \/ InGap(p)

\* Two periods have a posting in common only if the first was saved although the
\* loop was told otherwise: they begin at the same time, and the later one has all
\* that the earlier one has.
CountedOnce ==
  \A r, s \in roots :
    r.leaves \cap s.leaves # {} /\ r.end < s.end => r.start = s.start /\ r.leaves \subseteq s.leaves

\* A root proves its postings: no other set of postings has it, although the last
\* hash of an odd level is combined with itself.
RootProvesLeaves ==
  \A r \in roots : \A ps \in SUBSET postings :
    ComputeMerkleRoot(Leaves(ps)) = r.root => ps = r.leaves

\* "The leaf does not include created_at ...: the root is reproducible by replay of
\* the event log, the other fields are deterministic given the sequence of events"
\* (merkle.go): what was committed is numbered as a replay numbers it.
LeavesReplayable == \A p \in postings : p.id <= Cardinality(postings)
=============================================================================
