---------------------------- MODULE JournalProofs ----------------------------
(***************************************************************************)
(* Proofs about Journal, for every set of commands, bound and snapshot     *)
(* interval, of a journal whose crashes lose whole lines and whose fsync   *)
(* does not fail: NoFaults. Without that assumption the theorems are false *)
(* (MCJournalTorn.cfg).                                                    *)
(***************************************************************************)
EXTENDS Journal, SequenceTheorems, TLAPS

NoFaults == CrashForms = {"line"} /\ SyncResults = {"ok"}

-----------------------------------------------------------------------------
(* The inductive invariant: the properties of Journal, and what connects   *)
(* the process with the disk.                                              *)

\* A sequence s of commands agrees with the history.
Agrees(s) ==
  /\ Len(s) <= Len(history)
  /\ \A i \in 1..Len(s) : s[i] = history[i]

\* No line was ever torn.
WholeLines == \A i \in DOMAIN wal : wal[i].form = "line"

\* Replay has brought the engine to the last command it has read.
ReplayInv ==
  pc = "replay" => /\ Agrees(engine)
                   /\ lastSeq = Len(engine)
                   /\ lastSeq = KnownUpTo(cursor - 1)

\* A running engine has executed the history, but for the command at hand; the
\* disk knows the history to its end.
RunningInv ==
  Running =>
    /\ Agrees(engine)
    /\ Len(confirmed) <= Len(engine)
    /\ lastSeq = Len(history)
    /\ KnownUpTo(Len(wal)) = Len(history)
    /\ pc = "synced" => synced = Len(wal)
    /\ pc = "renamed" => snap.seq = Len(history)

IInv ==
  /\ TypeOK
  /\ SequenceMatchesEngine
  /\ DiskIsHistory
  /\ ConfirmedIsDurable
  /\ Agrees(confirmed)
  /\ WholeLines
  /\ ReplayInv
  /\ RunningInv

-----------------------------------------------------------------------------
(* What the two operators that change the log do to it when no line is     *)
(* torn.                                                                   *)

\* A write appends its line.
LEMMA WriteAppends ==
  ASSUME WholeLines, TypeOK, NEW line
  PROVE  Written(line) = Append(wal, line)
<1>1. ~Unterminated
  <2> SUFFICES ASSUME wal # <<>>
               PROVE  wal[Len(wal)].form \notin {"torn", "bare"}
    BY DEF Unterminated
  <2>1. Len(wal) \in DOMAIN wal
    BY DEF TypeOK
  <2> QED
    BY <2>1 DEF WholeLines
<1> QED
  BY <1>1 DEF Written

\* A crash keeps whole lines, the synced ones among them.
LEMMA CrashKeepsPrefix ==
  ASSUME NoFaults, TypeOK, wal' \in Survivors
  PROVE  \E k \in synced..Len(wal) :
           /\ wal' = SubSeq(wal, 1, k)
           /\ wal' \in Seq(Line)
           /\ Len(wal') = k
           /\ \A i \in 1..k : wal'[i] = wal[i]
<1>2. PICK k \in synced..Len(wal) : wal' = SubSeq(wal, 1, k)
  BY DEF Survivors, NoFaults
<1>3. k \in Nat /\ k <= Len(wal)
  BY <1>2 DEF TypeOK
<1>4. \A i \in 1..k : wal[i] \in Line
  BY <1>3 DEF TypeOK
<1>5. /\ SubSeq(wal, 1, k) \in Seq(Line)
      /\ Len(SubSeq(wal, 1, k)) = k
      /\ \A i \in 1..k : SubSeq(wal, 1, k)[i] = wal[i]
  BY <1>3, <1>4, SubSeqProperties
<1> QED
  BY <1>2, <1>5

-----------------------------------------------------------------------------
(* Type correctness of each kind of step. *)

MemoryTypes ==
  /\ handle \in {"open", "failed", "closed"}
  /\ engine \in Seq(Commands)
  /\ lastSeq \in Nat
  /\ sinceSnapshot \in Nat
  /\ leaving \in BOOLEAN

LEMMA GoneTypes ==
  ASSUME Gone PROVE pc' = "down" /\ MemoryTypes'
<1>1. <<>> \in Seq(Commands)
  OBVIOUS
<1> QED
  BY <1>1 DEF Gone, MemoryTypes

LEMMA ReturnTypes ==
  ASSUME MemoryTypes, NEW h \in {"open", "failed", "closed"}, NEW n \in Nat,
         SnapshotReturns(h, n)
  PROVE  pc' \in {"down", "idle"} /\ MemoryTypes'
<1>1. CASE Gone
  BY <1>1, GoneTypes
<1>2. CASE /\ pc' = "idle" /\ handle' = h /\ sinceSnapshot' = n
           /\ engine' = engine /\ lastSeq' = lastSeq /\ leaving' = leaving
  BY <1>2 DEF MemoryTypes
<1> QED
  BY <1>1, <1>2 DEF SnapshotReturns

LEMMA TypeStep ==
  ASSUME NoFaults, IInv, [Next]_vars
  PROVE  TypeOK'
<1> USE DEF IInv, TypeOK, MemoryTypes
<1>1. CASE Open
  BY <1>1 DEF Open, disk
<1>2. CASE ReplayLine
  <2>1. wal[cursor] \in Line
    BY <1>2 DEF ReplayLine, MoreLines
  <2>2. engine' \in Seq(Commands) /\ lastSeq' \in Nat
    <3>1. CASE wal[cursor].seq <= lastSeq
      BY <1>2, <3>1 DEF ReplayLine
    <3>2. CASE ~(wal[cursor].seq <= lastSeq)
      <4>1. wal[cursor].cmd \in Commands /\ wal[cursor].seq \in Nat
        BY <2>1 DEF Line
      <4>2. engine' = Append(engine, wal[cursor].cmd) /\ lastSeq' = wal[cursor].seq
        BY <1>2, <3>2 DEF ReplayLine
      <4> QED
        BY <4>1, <4>2, AppendProperties
    <3> QED
      BY <3>1, <3>2
  <2> QED
    BY <1>2, <2>2 DEF ReplayLine, MoreLines, disk
<1>3. CASE ReplayEnd
  BY <1>3 DEF ReplayEnd, disk
<1>4. ASSUME NEW c \in Commands, Write(c) PROVE TypeOK'
  <2>1. wal' = Append(wal, [seq |-> lastSeq + 1, cmd |-> c, form |-> "line"])
    BY <1>4, WriteAppends DEF Write
  <2>2. [seq |-> lastSeq + 1, cmd |-> c, form |-> "line"] \in Line
    BY DEF Line
  <2>3. wal' \in Seq(Line) /\ Len(wal') = Len(wal) + 1
    BY <2>1, <2>2, AppendProperties
  <2>4. history' \in Seq(Commands)
    BY <1>4, AppendProperties DEF Write
  <2> QED
    BY <1>4, <2>3, <2>4 DEF Write
<1>5. CASE WriteFails
  BY <1>5 DEF WriteFails, disk, NoFaults
<1>6. CASE Sync
  <2>1. pc' = "synced" /\ synced' = Len(wal) /\ lastSeq' = lastSeq
    BY <1>6 DEF Sync, NoFaults
  <2>2. lastSeq = Len(engine) + 1 /\ lastSeq = Len(history)
    BY <1>6 DEF Sync, RunningInv, Running, SequenceMatchesEngine
  <2> QED
    BY <1>6, <2>1, <2>2 DEF Sync
<1>7. CASE Apply
  BY <1>7 DEF Apply, disk
<1>8. CASE Deactivate
  BY <1>8 DEF Deactivate, disk
<1>9. CASE RenameSnapshot
  BY <1>9 DEF RenameSnapshot
<1>10. CASE SnapshotFails
  <2>1. SnapshotReturns(handle, sinceSnapshot)
    BY <1>10 DEF SnapshotFails
  <2> QED
    BY <1>10, <2>1, ReturnTypes DEF SnapshotFails, disk
<1>11. CASE Truncate
  <2>1. SnapshotReturns("open", 0)
    BY <1>11 DEF Truncate
  <2>2. wal' = <<>> /\ synced' = 0 /\ <<>> \in Seq(Line) /\ Len(<<>>) = 0
    BY <1>11 DEF Truncate
  <2> QED
    BY <1>11, <2>1, <2>2, ReturnTypes DEF Truncate
<1>12. CASE TruncateFails
  <2>1. SnapshotReturns("closed", sinceSnapshot)
    BY <1>12 DEF TruncateFails
  <2>2. wal' \in Seq(Line) /\ synced' \in 0..Len(wal')
    <3>1. CASE wal' = wal /\ synced' = synced
      BY <3>1
    <3>2. CASE wal' = <<>> /\ synced' = 0
      <4>1. <<>> \in Seq(Line) /\ Len(<<>>) = 0
        OBVIOUS
      <4> QED
        BY <3>2, <4>1
    <3> QED
      BY <1>12, <3>1, <3>2 DEF TruncateFails
  <2> QED
    BY <1>12, <2>1, <2>2, ReturnTypes DEF TruncateFails
<1>13. CASE Crash
  <2>1. PICK k \in synced..Len(wal) : wal' \in Seq(Line) /\ Len(wal') = k
    BY <1>13, CrashKeepsPrefix DEF Crash
  <2>2. Gone
    BY <1>13 DEF Crash
  <2> QED
    BY <1>13, <2>1, <2>2, GoneTypes DEF Crash
<1>14. CASE UNCHANGED vars
  BY <1>14 DEF vars, disk
<1> QED
  BY <1>1, <1>2, <1>3, <1>4, <1>5, <1>6, <1>7, <1>8, <1>9, <1>10, <1>11, <1>12,
     <1>13, <1>14 DEF Next

-----------------------------------------------------------------------------
(* The disk in each kind of step.                                          *)

\* Reading further in the log never takes the reader back.
LEMMA KnownAscends ==
  ASSUME TypeOK, DiskIsHistory, NEW j \in 0..Len(wal), NEW k \in j..Len(wal)
  PROVE  /\ KnownUpTo(j) \in Nat /\ KnownUpTo(k) \in Nat
         /\ snap.seq <= KnownUpTo(j)
         /\ KnownUpTo(j) <= KnownUpTo(k)
         /\ KnownUpTo(k) <= Len(history)
<1>1. \A i \in 1..Len(wal) : wal[i].seq \in Nat /\ wal[i].seq <= Len(history)
  BY DEF TypeOK, DiskIsHistory, Line
<1>2. snap.seq \in Nat /\ snap.seq <= Len(history) /\ Len(history) \in Nat
  BY DEF TypeOK, DiskIsHistory
<1>3. Len(wal) \in Nat
  BY DEF TypeOK
<1>4. CASE j = k
  BY <1>1, <1>2, <1>3, <1>4 DEF KnownUpTo
<1>5. CASE j < k /\ j > 0
  <2>1. wal[j].seq < wal[k].seq
    BY <1>3, <1>5 DEF DiskIsHistory, TypeOK
  <2> QED
    BY <1>1, <1>2, <1>3, <1>5, <2>1 DEF KnownUpTo
<1>6. CASE j < k /\ j = 0
  BY <1>1, <1>2, <1>3, <1>6 DEF KnownUpTo
<1> QED
  BY <1>3, <1>4, <1>5, <1>6

DiskInv == DiskIsHistory /\ WholeLines /\ ConfirmedIsDurable /\ Agrees(confirmed)

LEMMA DiskFrame ==
  ASSUME DiskInv, UNCHANGED <<wal, snap, synced, history, confirmed>>
  PROVE  DiskInv' /\ \A k : KnownUpTo(k)' = KnownUpTo(k)
BY DEF DiskInv, DiskIsHistory, WholeLines, ConfirmedIsDurable, Agrees, KnownUpTo

\* At the end of replay the engine has every command the disk knows, and the
\* disk knows every confirmed one.
LEMMA ReplayEndDisk ==
  ASSUME IInv, ReplayEnd
  PROVE  /\ cursor - 1 = Len(wal)
         /\ Len(engine) = KnownUpTo(Len(wal))
         /\ DiskInv'
<1> USE DEF IInv
<1>1. /\ Len(wal) \in Nat /\ cursor \in 1..(Len(wal) + 1)
      /\ synced \in 0..Len(wal)
      /\ engine \in Seq(Commands) /\ confirmed \in Seq(Commands)
      /\ history \in Seq(Commands) /\ snap.state \in Seq(Commands) /\ snap.seq \in Nat
  BY DEF ReplayEnd, TypeOK
<1>2. cursor - 1 = Len(wal)
  <2> SUFFICES ASSUME cursor <= Len(wal) PROVE FALSE
    BY <1>1
  <2>1. wal[cursor].form = "line"
    BY <1>1 DEF WholeLines, TypeOK
  <2> QED
    BY <2>1 DEF ReplayEnd, MoreLines, Parses
<1>3. /\ Len(engine) = KnownUpTo(Len(wal))
      /\ \A i \in 1..Len(engine) : engine[i] = history[i]
  BY <1>2 DEF ReplayEnd, ReplayInv, Agrees
<1>4. history' = engine /\ wal' = wal /\ snap' = snap /\ synced' = synced
      /\ confirmed' = confirmed
  BY DEF ReplayEnd, disk
<1>5. \A i \in DOMAIN wal : wal[i].seq \in 1..Len(engine)
  <2> SUFFICES ASSUME NEW i \in DOMAIN wal PROVE wal[i].seq \in 1..Len(engine)
    OBVIOUS
  <2>1. i \in 1..Len(wal)
    BY <1>1 DEF TypeOK
  <2>2. KnownUpTo(i) <= KnownUpTo(Len(wal))
    BY <1>1, <2>1, KnownAscends
  <2>3. wal[i].seq \in Nat \ {0}
    BY <1>1 DEF DiskIsHistory
  <2>4. wal[i].seq <= KnownUpTo(i)
    BY <1>1, <2>1, <2>3 DEF KnownUpTo
  <2>5. KnownUpTo(i) \in Nat
    BY <1>1, <2>1, KnownAscends
  <2> QED
    BY <1>1, <1>3, <2>2, <2>3, <2>4, <2>5
<1>6. snap.seq <= Len(engine)
  BY <1>1, <1>3, KnownAscends
<1>7. Len(confirmed) <= Len(engine)
  <2>1. Len(confirmed) <= KnownUpTo(synced)
    BY DEF ConfirmedIsDurable
  <2>2. KnownUpTo(synced) \in Nat /\ KnownUpTo(synced) <= KnownUpTo(Len(wal))
    BY <1>1, KnownAscends
  <2> QED
    BY <1>1, <1>3, <2>1, <2>2
<1>8. DiskIsHistory'
  <2>1. /\ snap.seq = Len(snap.state)
        /\ \A i \in 1..snap.seq : snap.state[i] = history[i]
    BY DEF DiskIsHistory
  <2>2. \A i \in 1..snap.seq : snap.state[i] = engine[i]
    BY <1>1, <1>3, <1>6, <2>1
  <2>3. \A i \in DOMAIN wal : wal[i].cmd = engine[wal[i].seq]
    BY <1>3, <1>5 DEF DiskIsHistory
  <2> QED
    BY <1>4, <1>5, <1>6, <2>1, <2>2, <2>3 DEF DiskIsHistory, KnownUpTo
<1>9. Agrees(confirmed)'
  BY <1>1, <1>3, <1>4, <1>7 DEF Agrees
<1> QED
  BY <1>2, <1>3, <1>4, <1>8, <1>9 DEF DiskInv, WholeLines, ConfirmedIsDurable, KnownUpTo

\* The line a handler writes is the next one.
LEMMA WriteDisk ==
  ASSUME IInv, NEW c \in Commands, Write(c)
  PROVE  /\ Len(history') = lastSeq + 1
         /\ Agrees(engine)'
         /\ KnownUpTo(Len(wal))' = lastSeq + 1
         /\ DiskInv'
<1> USE DEF IInv
<1> DEFINE line == [seq |-> lastSeq + 1, cmd |-> c, form |-> "line"]
<1>1. /\ engine \in Seq(Commands) /\ history \in Seq(Commands) /\ confirmed \in Seq(Commands)
      /\ wal \in Seq(Line) /\ synced \in 0..Len(wal) /\ snap.seq \in Nat /\ Len(wal) \in Nat
      /\ snap.state \in Seq(Commands)
  BY DEF TypeOK
<1>2. /\ lastSeq = Len(engine) /\ lastSeq = Len(history) /\ KnownUpTo(Len(wal)) = lastSeq
      /\ \A i \in 1..lastSeq : engine[i] = history[i]
  BY DEF Write, Running, SequenceMatchesEngine, RunningInv, Agrees
<1>3. /\ history' = Append(engine, c) /\ snap' = snap /\ synced' = synced
      /\ confirmed' = confirmed /\ engine' = engine
  BY DEF Write
<1>4. /\ history' \in Seq(Commands) /\ Len(history') = lastSeq + 1
      /\ \A i \in 1..lastSeq : history'[i] = history[i]
      /\ \A i \in 1..lastSeq : history'[i] = engine[i]
      /\ history'[lastSeq + 1] = c
  <2>1. /\ Append(engine, c) \in Seq(Commands)
        /\ Len(Append(engine, c)) = Len(engine) + 1
        /\ \A i \in 1..Len(engine) : Append(engine, c)[i] = engine[i]
        /\ Append(engine, c)[Len(engine) + 1] = c
    BY <1>1, AppendProperties
  <2> QED
    BY <1>2, <1>3, <2>1
<1>5. line \in Line /\ line.seq = lastSeq + 1 /\ line.cmd = c /\ line.form = "line"
  BY <1>1, <1>2 DEF Line
<1>6. wal' = Append(wal, line)
  BY WriteAppends DEF Write
<1>7. /\ wal' \in Seq(Line) /\ Len(wal') = Len(wal) + 1
      /\ \A i \in 1..Len(wal) : wal'[i] = wal[i]
      /\ wal'[Len(wal) + 1] = line
  BY <1>1, <1>5, <1>6, AppendProperties
<1> HIDE DEF line
<1>8. \A i \in 0..Len(wal) : KnownUpTo(i)' = KnownUpTo(i)
  BY <1>1, <1>3, <1>7 DEF KnownUpTo
<1>9. \A i \in 1..Len(wal) : /\ wal[i].seq \in 1..lastSeq
                             /\ wal[i].cmd = history[wal[i].seq]
                             /\ wal[i].seq <= KnownUpTo(i - 1) + 1
                             /\ wal[i].form = "line"
  BY <1>1, <1>2 DEF DiskIsHistory, WholeLines
<1>10. snap.seq <= lastSeq
  BY <1>1, <1>2 DEF DiskIsHistory
<1>11. KnownUpTo(Len(wal))' = lastSeq + 1
  BY <1>1, <1>2, <1>3, <1>5, <1>7, <1>10 DEF KnownUpTo
<1>12. DiskIsHistory'
  <2>1. /\ snap.seq = Len(snap.state)
        /\ \A i \in 1..snap.seq : snap.state[i] = history'[i]
    BY <1>1, <1>2, <1>4, <1>10 DEF DiskIsHistory
  <2>2. ASSUME NEW i \in 1..(Len(wal) + 1)
        PROVE  /\ wal'[i].seq \in 1..(lastSeq + 1)
               /\ wal'[i].cmd = history'[wal'[i].seq]
               /\ wal'[i].seq <= KnownUpTo(i - 1)' + 1
    <3>1. CASE i \in 1..Len(wal)
      <4>1. wal'[i] = wal[i] /\ wal[i].seq \in 1..lastSeq /\ wal[i].cmd = history[wal[i].seq]
        BY <1>7, <1>9, <3>1
      <4>2. wal[i].seq <= KnownUpTo(i - 1) + 1 /\ KnownUpTo(i - 1)' = KnownUpTo(i - 1)
        BY <1>1, <1>8, <1>9, <3>1
      <4>3. history'[wal[i].seq] = history[wal[i].seq]
        BY <1>4, <4>1
      <4> QED
        BY <1>2, <4>1, <4>2, <4>3
    <3>2. CASE i = Len(wal) + 1
      <4>1. wal'[i] = line /\ KnownUpTo(i - 1)' = lastSeq
        <5>1. i - 1 \in 0..Len(wal) /\ i - 1 = Len(wal)
          BY <1>1, <3>2
        <5>2. KnownUpTo(i - 1)' = KnownUpTo(i - 1)
          BY <1>8, <5>1
        <5>3. KnownUpTo(i - 1) = lastSeq
          BY <1>2, <5>1
        <5> QED
          BY <1>7, <3>2, <5>2, <5>3
      <4> QED
        BY <1>1, <1>2, <1>4, <1>5, <4>1
    <3> QED
      BY <1>1, <2>2, <3>1, <3>2
  <2>3. ASSUME NEW i \in 1..(Len(wal) + 1), NEW j \in 1..(Len(wal) + 1), i < j
        PROVE  wal'[i].seq < wal'[j].seq
    <3>1. i \in 1..Len(wal) /\ wal'[i] = wal[i] /\ wal[i].seq \in 1..lastSeq
      BY <1>1, <1>7, <1>9, <2>3
    <3>2. CASE j \in 1..Len(wal)
      <4>1. wal'[j] = wal[j]
        BY <1>7, <3>2
      <4>2. i \in DOMAIN wal /\ j \in DOMAIN wal
        BY <1>1, <3>1, <3>2
      <4>3. wal[i].seq < wal[j].seq
        BY <2>3, <4>2 DEF DiskIsHistory
      <4> QED
        BY <3>1, <4>1, <4>3
    <3>3. CASE j = Len(wal) + 1
      BY <1>1, <1>2, <1>5, <1>7, <3>1, <3>3
    <3> QED
      BY <1>1, <2>3, <3>2, <3>3
  <2>4. DOMAIN wal' = 1..(Len(wal) + 1)
    BY <1>1, <1>7
  <2>5. /\ snap'.seq = Len(snap'.state) /\ snap'.seq <= Len(history')
        /\ \A i \in 1..snap'.seq : snap'.state[i] = history'[i]
    BY <1>1, <1>2, <1>3, <1>4, <1>10, <2>1
  <2>6. \A i \in DOMAIN wal' : /\ wal'[i].seq \in 1..Len(history')
                               /\ wal'[i].cmd = history'[wal'[i].seq]
                               /\ wal'[i].seq <= KnownUpTo(i - 1)' + 1
    BY <1>4, <2>2, <2>4
  <2>7. \A i, j \in DOMAIN wal' : i < j => wal'[i].seq < wal'[j].seq
    BY <2>3, <2>4
  <2> QED
    BY <2>5, <2>6, <2>7 DEF DiskIsHistory
<1>13. WholeLines'
  <2>1. DOMAIN wal' = 1..(Len(wal) + 1)
    BY <1>1, <1>7
  <2>2. ASSUME NEW i \in 1..(Len(wal) + 1) PROVE wal'[i].form = "line"
    <3>1. CASE i \in 1..Len(wal)
      BY <1>7, <1>9, <3>1
    <3>2. CASE i = Len(wal) + 1
      BY <1>5, <1>7, <3>2
    <3> QED
      BY <1>1, <3>1, <3>2
  <2> QED
    BY <2>1, <2>2 DEF WholeLines
<1>14. ConfirmedIsDurable'
  BY <1>1, <1>3, <1>8 DEF ConfirmedIsDurable
<1>15. Agrees(confirmed)' /\ Agrees(engine)'
  <2>1. Len(confirmed) <= lastSeq /\ \A i \in 1..Len(confirmed) : confirmed[i] = history[i]
    BY <1>2 DEF Agrees
  <2>2. Agrees(confirmed)'
    BY <1>1, <1>2, <1>3, <1>4, <2>1 DEF Agrees
  <2>3. Agrees(engine)'
    BY <1>1, <1>2, <1>3, <1>4 DEF Agrees
  <2> QED
    BY <2>2, <2>3
<1> QED
  BY <1>4, <1>11, <1>12, <1>13, <1>14, <1>15 DEF DiskInv

\* A crash loses nothing that fsync returned for.
LEMMA CrashDisk ==
  ASSUME NoFaults, IInv, Crash
  PROVE  DiskInv'
<1> USE DEF IInv
<1>1. PICK k \in synced..Len(wal) :
        /\ wal' \in Seq(Line) /\ Len(wal') = k
        /\ \A i \in 1..k : wal'[i] = wal[i]
  BY CrashKeepsPrefix DEF Crash
<1>2. synced \in 0..Len(wal) /\ Len(wal) \in Nat /\ k \in Nat /\ wal \in Seq(Line)
  BY <1>1 DEF TypeOK
<1>3. snap' = snap /\ synced' = synced /\ history' = history /\ confirmed' = confirmed
  BY DEF Crash
<1>4. \A i \in 0..k : KnownUpTo(i)' = KnownUpTo(i)
  BY <1>1, <1>2, <1>3 DEF KnownUpTo
<1>5. DOMAIN wal' = 1..k /\ DOMAIN wal = 1..Len(wal)
  BY <1>1, <1>2
<1>6. DiskIsHistory'
  <2>1. ASSUME NEW i \in 1..k
        PROVE  /\ wal'[i].seq \in 1..Len(history)
               /\ wal'[i].cmd = history[wal'[i].seq]
               /\ wal'[i].seq <= KnownUpTo(i - 1)' + 1
    <3>1. i \in DOMAIN wal /\ i - 1 \in 0..k
      BY <1>1, <1>2
    <3> QED
      BY <1>1, <1>4, <3>1 DEF DiskIsHistory
  <2>2. \A i, j \in 1..k : i < j => wal'[i].seq < wal'[j].seq
    BY <1>1, <1>2 DEF DiskIsHistory
  <2> QED
    BY <1>3, <1>5, <2>1, <2>2 DEF DiskIsHistory
<1>7. WholeLines'
  BY <1>1, <1>2, <1>5 DEF WholeLines
<1>8. ConfirmedIsDurable'
  BY <1>1, <1>2, <1>3, <1>4 DEF ConfirmedIsDurable
<1>9. Agrees(confirmed)'
  BY <1>3 DEF Agrees
<1> QED
  BY <1>6, <1>7, <1>8, <1>9 DEF DiskInv

\* Once the snapshot is renamed the log can go.
LEMMA TruncateDisk ==
  ASSUME IInv, pc = "renamed",
         wal' = <<>>, synced' = 0, UNCHANGED <<snap, history, confirmed>>
  PROVE  DiskInv' /\ KnownUpTo(Len(wal))' = Len(history)
<1> USE DEF IInv
<1>1. snap.seq = Len(history)
  BY DEF RunningInv, Running
<1>2. Len(wal') = 0 /\ DOMAIN wal' = {}
  OBVIOUS
<1>3. /\ KnownUpTo(Len(wal))' = snap.seq
      /\ KnownUpTo(synced)' = snap.seq
  BY <1>2 DEF KnownUpTo
<1>4. DiskIsHistory' /\ WholeLines'
  BY <1>2 DEF DiskIsHistory, WholeLines
<1>5. Len(confirmed) <= Len(history)
  BY DEF Agrees
<1>6. ConfirmedIsDurable'
  BY <1>1, <1>3, <1>5 DEF ConfirmedIsDurable
<1> QED
  BY <1>1, <1>3, <1>4, <1>6 DEF DiskInv, Agrees

\* A renamed snapshot covers the whole history.
LEMMA RenameDisk ==
  ASSUME IInv, RenameSnapshot
  PROVE  DiskInv' /\ KnownUpTo(Len(wal))' = Len(history)
<1> USE DEF IInv
<1>1. /\ snap' = [seq |-> lastSeq, state |-> engine] /\ wal' = wal /\ synced' = synced
      /\ history' = history /\ confirmed' = engine
  BY DEF RenameSnapshot
<1>2. /\ lastSeq = Len(engine) /\ lastSeq = Len(history) /\ Agrees(engine)
      /\ KnownUpTo(Len(wal)) = Len(history)
  BY DEF RenameSnapshot, Running, SequenceMatchesEngine, RunningInv
<1>3. /\ wal \in Seq(Line) /\ synced \in 0..Len(wal) /\ Len(history) \in Nat
      /\ Len(wal) \in Nat /\ snap.seq \in Nat
  BY DEF TypeOK
<1>4. \A i \in 1..Len(wal) : wal[i].seq \in 1..Len(history)
  BY <1>3 DEF DiskIsHistory
<1>5. snap.seq <= Len(history)
  BY DEF DiskIsHistory
<1>6. \A i \in 0..Len(wal) : KnownUpTo(i)' = Len(history)
  BY <1>1, <1>2, <1>3, <1>4 DEF KnownUpTo
<1>7. KnownUpTo(Len(wal))' = Len(history)
  BY <1>1, <1>2, <1>3, <1>4 DEF KnownUpTo
<1>8. ConfirmedIsDurable'
  BY <1>1, <1>2, <1>3, <1>4 DEF ConfirmedIsDurable, KnownUpTo
<1>9. DiskIsHistory'
  <2>1. /\ snap'.seq = Len(snap'.state) /\ snap'.seq <= Len(history)
        /\ \A i \in 1..snap'.seq : snap'.state[i] = history[i]
    BY <1>1, <1>2, <1>3 DEF Agrees
  <2>2. DOMAIN wal = 1..Len(wal)
    BY <1>3
  <2>3. ASSUME NEW i \in DOMAIN wal
        PROVE  wal[i].seq <= KnownUpTo(i - 1)' + 1
    BY <1>3, <1>4, <1>6, <2>2
  <2> QED
    BY <1>1, <2>1, <2>3 DEF DiskIsHistory
<1> QED
  BY <1>1, <1>2, <1>7, <1>8, <1>9 DEF DiskInv, WholeLines, Agrees

-----------------------------------------------------------------------------
(* The whole invariant in each kind of step.                               *)

ProcessInv == SequenceMatchesEngine /\ ReplayInv /\ RunningInv

LEMMA IInvSplit == IInv <=> TypeOK /\ DiskInv /\ ProcessInv
BY DEF IInv, DiskInv, ProcessInv

\* One more line has been replayed.
LEMMA ReplayLineInv ==
  ASSUME IInv, ReplayLine
  PROVE  ProcessInv'
<1> USE DEF IInv
<1>1. /\ cursor \in 1..Len(wal) /\ Len(wal) \in Nat /\ wal \in Seq(Line)
      /\ engine \in Seq(Commands) /\ history \in Seq(Commands)
      /\ lastSeq \in Nat /\ snap.seq \in Nat
  BY DEF ReplayLine, MoreLines, TypeOK
<1>2. /\ pc = "replay" /\ pc' = "replay" /\ cursor' = cursor + 1
      /\ wal' = wal /\ snap' = snap /\ history' = history
  BY DEF ReplayLine, disk
<1>3. /\ lastSeq = Len(engine) /\ lastSeq = KnownUpTo(cursor - 1)
      /\ lastSeq <= Len(history)
      /\ \A i \in 1..lastSeq : engine[i] = history[i]
  BY <1>2 DEF ReplayInv, Agrees
<1>4. /\ wal[cursor].seq \in 1..Len(history)
      /\ wal[cursor].cmd = history[wal[cursor].seq]
      /\ wal[cursor].seq <= lastSeq + 1
      /\ wal[cursor].cmd \in Commands
  BY <1>1, <1>3 DEF DiskIsHistory, Line
<1>5. snap.seq <= lastSeq /\ lastSeq <= KnownUpTo(cursor)
  BY <1>1, <1>3, KnownAscends
<1>6. KnownUpTo(cursor - 1)' = KnownUpTo(cursor)
  BY <1>1, <1>2 DEF KnownUpTo
<1>7. CASE wal[cursor].seq <= lastSeq
  <2>1. engine' = engine /\ lastSeq' = lastSeq
    BY <1>7 DEF ReplayLine
  <2>2. KnownUpTo(cursor) = lastSeq
    BY <1>1, <1>4, <1>5, <1>7 DEF KnownUpTo
  <2> QED
    BY <1>2, <1>3, <1>6, <2>1, <2>2
    DEF ProcessInv, SequenceMatchesEngine, ReplayInv, RunningInv, Running, Agrees
<1>8. CASE ~(wal[cursor].seq <= lastSeq)
  <2>1. engine' = Append(engine, wal[cursor].cmd) /\ lastSeq' = wal[cursor].seq
    BY <1>8 DEF ReplayLine
  <2>2. wal[cursor].seq = lastSeq + 1 /\ KnownUpTo(cursor) = lastSeq + 1
    BY <1>1, <1>4, <1>5, <1>8 DEF KnownUpTo
  <2>3. /\ Len(Append(engine, wal[cursor].cmd)) = Len(engine) + 1
        /\ \A i \in 1..Len(engine) : Append(engine, wal[cursor].cmd)[i] = engine[i]
        /\ Append(engine, wal[cursor].cmd)[Len(engine) + 1] = wal[cursor].cmd
    BY <1>1, <1>4, AppendProperties
  <2>4. Len(engine') = lastSeq + 1 /\ \A i \in 1..(lastSeq + 1) : engine'[i] = history[i]
    BY <1>1, <1>3, <1>4, <2>1, <2>2, <2>3
  <2>5. lastSeq + 1 <= Len(history)
    BY <1>1, <1>4, <2>2
  <2> QED
    BY <1>2, <1>6, <2>1, <2>2, <2>4, <2>5
    DEF ProcessInv, SequenceMatchesEngine, ReplayInv, RunningInv, Running, Agrees
<1> QED
  BY <1>7, <1>8

\* The command at hand is executed: the engine is at the end of the history.
LEMMA ApplyInv ==
  ASSUME IInv, Apply
  PROVE  DiskInv' /\ ProcessInv'
<1> USE DEF IInv
<1>1. /\ engine \in Seq(Commands) /\ history \in Seq(Commands) /\ history # <<>>
      /\ wal \in Seq(Line) /\ Len(history) \in Nat /\ Len(engine) \in Nat
  BY DEF TypeOK, Apply
<1>2. /\ lastSeq = Len(engine) + 1 /\ lastSeq = Len(history)
      /\ KnownUpTo(Len(wal)) = Len(history) /\ synced = Len(wal)
      /\ \A i \in 1..Len(engine) : engine[i] = history[i]
  BY DEF Apply, Running, SequenceMatchesEngine, RunningInv, Agrees
<1>3. /\ wal' = wal /\ snap' = snap /\ synced' = synced /\ history' = history
      /\ lastSeq' = lastSeq /\ pc' \in {"idle", "snapshot"}
      /\ engine' = Append(engine, history[Len(history)]) /\ confirmed' = engine'
  BY DEF Apply, disk
<1>4. /\ Len(engine') = Len(history)
      /\ \A i \in 1..Len(engine') : engine'[i] = history[i]
  <2>1. history[Len(history)] \in Commands
    BY <1>1
  <2>2. /\ Len(Append(engine, history[Len(history)])) = Len(engine) + 1
        /\ \A i \in 1..Len(engine) : Append(engine, history[Len(history)])[i] = engine[i]
        /\ Append(engine, history[Len(history)])[Len(engine) + 1] = history[Len(history)]
    BY <1>1, <2>1, AppendProperties
  <2> QED
    BY <1>1, <1>2, <1>3, <2>2
<1>5. Agrees(engine)' /\ Agrees(confirmed)'
  BY <1>1, <1>3, <1>4 DEF Agrees
<1>6. KnownUpTo(Len(wal))' = Len(history) /\ KnownUpTo(synced)' = Len(history)
  BY <1>2, <1>3 DEF KnownUpTo
<1>7. DiskIsHistory' /\ WholeLines' /\ ConfirmedIsDurable'
  <2>1. DiskIsHistory' /\ WholeLines'
    BY <1>3 DEF DiskIsHistory, WholeLines, KnownUpTo
  <2>2. ConfirmedIsDurable'
    BY <1>1, <1>3, <1>4, <1>6 DEF ConfirmedIsDurable
  <2> QED
    BY <2>1, <2>2
<1>8. ProcessInv'
  BY <1>1, <1>2, <1>3, <1>4, <1>5, <1>6
  DEF ProcessInv, SequenceMatchesEngine, ReplayInv, RunningInv, Running
<1> QED
  BY <1>5, <1>7, <1>8 DEF DiskInv

\* After a snapshot, complete or not, the engine is where it was or is gone.
LEMMA ReturnInv ==
  ASSUME IInv, pc \in {"snapshot", "renamed"}, NEW h, NEW n, SnapshotReturns(h, n),
         UNCHANGED <<history, confirmed>>, KnownUpTo(Len(wal))' = Len(history)
  PROVE  ProcessInv'
<1> USE DEF IInv
<1>1. CASE Gone
  BY <1>1 DEF Gone, ProcessInv, SequenceMatchesEngine, ReplayInv, RunningInv, Running
<1>2. CASE pc' = "idle" /\ engine' = engine /\ lastSeq' = lastSeq
  <2>1. /\ lastSeq = Len(engine) /\ lastSeq = Len(history) /\ Agrees(engine)
        /\ Len(confirmed) <= Len(engine)
    BY DEF Running, SequenceMatchesEngine, RunningInv
  <2> QED
    BY <1>2, <2>1
    DEF ProcessInv, SequenceMatchesEngine, ReplayInv, RunningInv, Running, Agrees
<1> QED
  BY <1>1, <1>2 DEF SnapshotReturns

LEMMA InitInv == Init => IInv
<1> SUFFICES ASSUME Init PROVE IInv
  OBVIOUS
<1>1. <<>> \in Seq(Line) /\ <<>> \in Seq(Commands) /\ Len(<<>>) = 0
  OBVIOUS
<1>2. TypeOK
  <2>1. snap \in [seq : Nat, state : Seq(Commands)]
    BY <1>1 DEF Init
  <2>2. /\ wal \in Seq(Line) /\ synced \in 0..Len(wal)
        /\ engine \in Seq(Commands) /\ history \in Seq(Commands)
        /\ confirmed \in Seq(Commands)
    BY <1>1 DEF Init
  <2> QED
    <3>1. /\ pc = "down" /\ handle = "closed" /\ lastSeq = 0 /\ cursor = 1
          /\ sinceSnapshot = 0 /\ leaving \in BOOLEAN
      BY DEF Init
    <3> QED
      BY <2>1, <2>2, <3>1 DEF TypeOK
<1>3. DiskInv
  BY <1>1 DEF Init, DiskInv, DiskIsHistory, WholeLines, ConfirmedIsDurable, Agrees, KnownUpTo
<1>4. ProcessInv
  BY DEF Init, ProcessInv, SequenceMatchesEngine, ReplayInv, RunningInv, Running
<1> QED
  BY <1>2, <1>3, <1>4, IInvSplit

LEMMA NextInv == ASSUME NoFaults, IInv, [Next]_vars PROVE IInv'
<1>1. TypeOK'
  BY TypeStep
<1> USE DEF IInv
<1>2. DiskInv
  BY DEF DiskInv
<1> SUFFICES DiskInv' /\ ProcessInv'
  BY <1>1 DEF DiskInv, ProcessInv
<1>3. CASE Open
  <2>1. UNCHANGED <<wal, snap, synced, history, confirmed>> /\ cursor' = 1
        /\ pc' = "replay" /\ engine' = snap.state /\ lastSeq' = snap.seq
    BY <1>3 DEF Open, disk, TypeOK
  <2>2. DiskInv' /\ KnownUpTo(0)' = snap.seq
    BY <1>2, <2>1, DiskFrame DEF KnownUpTo
  <2>3. Agrees(engine)' /\ lastSeq' = Len(engine')
    BY <2>1 DEF DiskIsHistory, Agrees
  <2>4. ReplayInv'
    BY <2>1, <2>2, <2>3 DEF ReplayInv
  <2> QED
    BY <2>1, <2>2, <2>4 DEF ProcessInv, SequenceMatchesEngine, RunningInv, Running
<1>4. CASE ReplayLine
  <2>1. UNCHANGED <<wal, snap, synced, history, confirmed>>
    BY <1>4 DEF ReplayLine, disk
  <2> QED
    BY <1>2, <1>4, <2>1, DiskFrame, ReplayLineInv
<1>5. CASE ReplayEnd
  <2>1. cursor - 1 = Len(wal) /\ Len(engine) = KnownUpTo(Len(wal)) /\ DiskInv'
    BY <1>5, ReplayEndDisk
  <2>2. /\ pc = "replay" /\ pc' = "idle" /\ history' = engine /\ engine' = engine
        /\ lastSeq' = lastSeq /\ wal' = wal /\ snap' = snap
    BY <1>5 DEF ReplayEnd, disk
  <2>3. lastSeq = Len(engine)
    BY <2>2 DEF ReplayInv
  <2>4. KnownUpTo(Len(wal))' = Len(engine)
    BY <2>1, <2>2 DEF KnownUpTo
  <2>5. Agrees(engine)'
    BY <2>2 DEF Agrees, TypeOK
  <2>6. Len(confirmed') <= Len(engine')
    BY <2>1, <2>2 DEF DiskInv, Agrees
  <2> QED
    BY <2>1, <2>2, <2>3, <2>4, <2>5, <2>6
    DEF ProcessInv, SequenceMatchesEngine, ReplayInv, RunningInv, Running
<1>6. ASSUME NEW c \in Commands, Write(c) PROVE DiskInv' /\ ProcessInv'
  <2>1. /\ Len(history') = lastSeq + 1 /\ Agrees(engine)'
        /\ KnownUpTo(Len(wal))' = lastSeq + 1 /\ DiskInv'
    BY <1>6, WriteDisk
  <2>2. /\ pc = "idle" /\ pc' = "written" /\ lastSeq' = lastSeq + 1 /\ engine' = engine
        /\ confirmed' = confirmed
    BY <1>6 DEF Write
  <2>3. lastSeq = Len(engine) /\ Len(confirmed) <= Len(engine)
    BY <2>2 DEF SequenceMatchesEngine, RunningInv, Running, TypeOK
  <2> QED
    BY <2>1, <2>2, <2>3
    DEF ProcessInv, SequenceMatchesEngine, ReplayInv, RunningInv, Running
<1>7. CASE WriteFails
  <2>1. UNCHANGED <<wal, snap, synced, history, confirmed, pc, engine, lastSeq, cursor>>
    BY <1>7 DEF WriteFails, disk, NoFaults
  <2> QED
    BY <1>2, <2>1, DiskFrame
    DEF ProcessInv, SequenceMatchesEngine, ReplayInv, RunningInv, Running, Agrees
<1>8. CASE Sync
  <2>1. /\ pc = "written" /\ pc' = "synced" /\ synced' = Len(wal) /\ lastSeq' = lastSeq
        /\ wal' = wal /\ snap' = snap /\ engine' = engine /\ history' = history
        /\ confirmed' = confirmed
    BY <1>8 DEF Sync, NoFaults
  <2>2. /\ lastSeq = Len(engine) + 1 /\ Agrees(engine) /\ lastSeq = Len(history)
        /\ KnownUpTo(Len(wal)) = Len(history)
    BY <2>1 DEF SequenceMatchesEngine, RunningInv, Running
  <2>3. KnownUpTo(Len(wal))' = Len(history) /\ KnownUpTo(synced)' = Len(history)
    BY <2>1, <2>2 DEF KnownUpTo
  <2>4. ConfirmedIsDurable'
    BY <2>1, <2>3 DEF ConfirmedIsDurable, Agrees
  <2>5. DiskIsHistory' /\ WholeLines' /\ Agrees(confirmed)'
    BY <2>1 DEF DiskIsHistory, WholeLines, Agrees, KnownUpTo
  <2>6. ProcessInv'
    BY <2>1, <2>2, <2>3
    DEF ProcessInv, SequenceMatchesEngine, ReplayInv, RunningInv, Running, Agrees
  <2> QED
    BY <2>4, <2>5, <2>6 DEF DiskInv
<1>9. CASE Apply
  BY <1>9, ApplyInv
<1>10. CASE Deactivate
  <2>1. /\ UNCHANGED <<wal, snap, synced, history, confirmed, engine, lastSeq, cursor>>
        /\ pc = "idle" /\ pc' = "snapshot"
    BY <1>10 DEF Deactivate, disk
  <2> QED
    BY <1>2, <2>1, DiskFrame
    DEF ProcessInv, SequenceMatchesEngine, ReplayInv, RunningInv, Running, Agrees
<1>11. CASE RenameSnapshot
  <2>1. DiskInv' /\ KnownUpTo(Len(wal))' = Len(history)
    BY <1>11, RenameDisk
  <2>2. /\ pc = "snapshot" /\ pc' = "renamed" /\ snap'.seq = lastSeq
        /\ history' = history /\ engine' = engine /\ lastSeq' = lastSeq
        /\ confirmed' = engine /\ Len(engine) <= Len(engine)
    BY <1>11 DEF RenameSnapshot, TypeOK
  <2>3. lastSeq = Len(engine) /\ lastSeq = Len(history) /\ Agrees(engine)
    BY <2>2 DEF SequenceMatchesEngine, RunningInv, Running
  <2> QED
    BY <2>1, <2>2, <2>3
    DEF ProcessInv, SequenceMatchesEngine, ReplayInv, RunningInv, Running, Agrees
<1>12. CASE SnapshotFails
  <2>1. /\ UNCHANGED <<wal, snap, synced, history, confirmed>> /\ pc = "snapshot"
        /\ SnapshotReturns(handle, sinceSnapshot)
    BY <1>12 DEF SnapshotFails, disk
  <2>2. KnownUpTo(Len(wal)) = Len(history)
    BY <2>1 DEF RunningInv, Running
  <2>3. KnownUpTo(Len(wal))' = Len(history)
    BY <2>1, <2>2 DEF KnownUpTo
  <2> QED
    BY <1>2, <2>1, <2>3, DiskFrame, ReturnInv
<1>13. CASE Truncate
  <2>1. /\ pc = "renamed" /\ wal' = <<>> /\ synced' = 0 /\ UNCHANGED <<snap, history, confirmed>>
        /\ SnapshotReturns("open", 0)
    BY <1>13 DEF Truncate
  <2> QED
    BY <2>1, TruncateDisk, ReturnInv
<1>14. CASE TruncateFails
  <2>1. /\ pc = "renamed" /\ UNCHANGED <<snap, history, confirmed>>
        /\ SnapshotReturns("closed", sinceSnapshot)
    BY <1>14 DEF TruncateFails
  <2>2. CASE UNCHANGED <<wal, synced>>
    <3>1. KnownUpTo(Len(wal)) = Len(history)
      BY <2>1 DEF RunningInv, Running
    <3>2. KnownUpTo(Len(wal))' = Len(history)
      BY <2>1, <2>2, <3>1 DEF KnownUpTo
    <3>3. DiskInv'
      BY <1>2, <2>1, <2>2, DiskFrame
    <3> QED
      BY <2>1, <3>2, <3>3, ReturnInv
  <2>3. CASE wal' = <<>> /\ synced' = 0
    BY <2>1, <2>3, TruncateDisk, ReturnInv
  <2> QED
    BY <1>14, <2>2, <2>3 DEF TruncateFails
<1>15. CASE Crash
  <2>1. Gone
    BY <1>15 DEF Crash
  <2> QED
    BY <1>15, <2>1, CrashDisk
    DEF Gone, ProcessInv, SequenceMatchesEngine, ReplayInv, RunningInv, Running
<1>16. CASE UNCHANGED vars
  <2>1. UNCHANGED <<wal, snap, synced, history, confirmed, pc, engine, lastSeq, cursor>>
    BY <1>16 DEF vars, disk
  <2> QED
    BY <1>2, <2>1, DiskFrame
    DEF ProcessInv, SequenceMatchesEngine, ReplayInv, RunningInv, Running, Agrees
<1> QED
  BY <1>3, <1>4, <1>5, <1>6, <1>7, <1>8, <1>9, <1>10, <1>11, <1>12, <1>13, <1>14,
     <1>15, <1>16 DEF Next

\* The invariant holds of every reachable state.
LEMMA Invariance == ASSUME NoFaults PROVE Spec => []IInv
<1>1. Init => IInv
  BY InitInv
<1>2. IInv /\ [Next]_vars => IInv'
  BY NextInv
<1> QED
  BY <1>1, <1>2, PTL DEF Spec

-----------------------------------------------------------------------------
(* The theorems.                                                           *)

\* The shape of the state (TypeOK), of a journal whose lines are never torn.
THEOREM TypeCorrect == ASSUME NoFaults PROVE Spec => []TypeOK
<1>1. IInv => TypeOK
  BY DEF IInv
<1> QED
  BY <1>1, Invariance, PTL

\* Snapshot and log fit together at every instant: a crash between any two of
\* the steps of Snapshot or Append leaves files that OpenJournal can put
\* together.
THEOREM DiskCorrect == ASSUME NoFaults PROVE Spec => [](DiskIsHistory /\ ConfirmedIsDurable)
<1>1. IInv => DiskIsHistory /\ ConfirmedIsDurable
  BY DEF IInv
<1> QED
  BY <1>1, Invariance, PTL

\* Sequence numbers are neither skipped nor given twice across failures and
\* restarts.
THEOREM SequenceCorrect == ASSUME NoFaults PROVE Spec => []SequenceMatchesEngine
<1>1. IInv => SequenceMatchesEngine
  BY DEF IInv
<1> QED
  BY <1>1, Invariance, PTL

\* Recovery without loss of confirmed trades (wal.go:3-6): a running engine has
\* executed every confirmed command, in order, however many crashes and
\* restarts came before.
THEOREM RecoveryKeepsConfirmed == ASSUME NoFaults PROVE Spec => []ConfirmedSurvive
<1>1. IInv => ConfirmedSurvive
  <2> SUFFICES ASSUME IInv, Running PROVE /\ Len(confirmed) <= Len(engine)
                                          /\ \A i \in 1..Len(confirmed) : confirmed[i] = engine[i]
    BY DEF ConfirmedSurvive
  <2>1. Agrees(confirmed) /\ Agrees(engine) /\ Len(confirmed) <= Len(engine)
    BY DEF IInv, RunningInv
  <2>2. Len(confirmed) \in Nat /\ Len(engine) \in Nat
    BY DEF IInv, TypeOK
  <2> QED
    BY <2>1, <2>2 DEF Agrees
<1> QED
  BY <1>1, Invariance, PTL

-----------------------------------------------------------------------------
(* The journal implements DurableLog.                                      *)

\* When a command is not at hand the engine is the history itself.
LEMMA EngineIsHistory ==
  ASSUME IInv, Running, pc \notin {"written", "synced"}
  PROVE  engine = history
<1>1. /\ engine \in Seq(Commands) /\ history \in Seq(Commands)
      /\ Len(engine) = Len(history)
      /\ \A i \in 1..Len(engine) : engine[i] = history[i]
  BY DEF IInv, TypeOK, SequenceMatchesEngine, RunningInv, Agrees
<1> QED
  BY <1>1, SeqEqual

\* Apply completes the history.
LEMMA ApplyCompletes ==
  ASSUME IInv, Apply
  PROVE  engine' = history
<1>1. /\ engine \in Seq(Commands) /\ history \in Seq(Commands) /\ history # <<>>
      /\ Len(history) = Len(engine) + 1 /\ Len(engine) \in Nat
      /\ \A i \in 1..Len(engine) : engine[i] = history[i]
  BY DEF Apply, IInv, TypeOK, Running, SequenceMatchesEngine, RunningInv, Agrees
<1>2. history[Len(history)] \in Commands
  BY <1>1
<1> DEFINE next == Append(engine, history[Len(history)])
<1>3. /\ next \in Seq(Commands) /\ Len(next) = Len(engine) + 1
      /\ \A i \in 1..Len(engine) : next[i] = engine[i]
      /\ next[Len(engine) + 1] = history[Len(history)]
  BY <1>1, <1>2, AppendProperties
<1> HIDE DEF next
<1>4. \A i \in 1..Len(next) : next[i] = history[i]
  BY <1>1, <1>3
<1>5. next = history
  BY <1>1, <1>3, <1>4, SeqEqual
<1> QED
  BY <1>5 DEF Apply, next

\* The end of replay finds a history between the confirmed one and the accepted
\* one.
LEMMA ReplayEndRecovers ==
  ASSUME IInv, ReplayEnd
  PROVE  \E k \in Len(confirmed)..Len(history) : engine = SubSeq(history, 1, k)
<1>1. /\ engine \in Seq(Commands) /\ history \in Seq(Commands) /\ confirmed \in Seq(Commands)
      /\ Len(engine) \in Nat /\ Len(history) \in Nat /\ Len(confirmed) \in Nat
      /\ Len(engine) <= Len(history)
      /\ \A i \in 1..Len(engine) : engine[i] = history[i]
  BY DEF ReplayEnd, IInv, TypeOK, ReplayInv, Agrees
<1>2. Agrees(confirmed)' /\ history' = engine /\ confirmed' = confirmed
  BY ReplayEndDisk DEF DiskInv, ReplayEnd
<1>3. Len(confirmed) <= Len(engine)
  BY <1>2 DEF Agrees
<1>4. \A i \in 1..Len(engine) : history[i] \in Commands
  BY <1>1
<1>5. /\ SubSeq(history, 1, Len(engine)) \in Seq(Commands)
      /\ Len(SubSeq(history, 1, Len(engine))) = Len(engine)
      /\ \A i \in 1..Len(engine) : SubSeq(history, 1, Len(engine))[i] = history[i]
  BY <1>1, <1>4, SubSeqProperties
<1>6. \A i \in 1..Len(engine) : engine[i] = SubSeq(history, 1, Len(engine))[i]
  BY <1>1, <1>5
<1>7. engine = SubSeq(history, 1, Len(engine))
  BY <1>1, <1>5, <1>6, SeqEqual
<1>8. Len(engine) \in Len(confirmed)..Len(history)
  BY <1>1, <1>3
<1> QED
  BY <1>7, <1>8

\* A snapshot that returns either leaves the log's view alone or stops it.
LEMMA ReturnImplements ==
  ASSUME Running, NEW h, NEW n, SnapshotReturns(h, n), UNCHANGED <<history, confirmed>>
  PROVE  Log!Stop \/ UNCHANGED Log!vars
<1>1. CASE Gone
  BY <1>1 DEF Gone, Log!Stop, Running
<1>2. CASE pc' = "idle" /\ engine' = engine
  BY <1>2 DEF Log!vars, Running
<1> QED
  BY <1>1, <1>2 DEF SnapshotReturns

LEMMA StepImplements ==
  ASSUME NoFaults, IInv, [Next]_vars
  PROVE  Log!Next \/ UNCHANGED Log!vars
<1>1. CASE Open
  BY <1>1 DEF Open, disk, Log!vars, Running
<1>2. CASE ReplayLine
  BY <1>2 DEF ReplayLine, disk, Log!vars, Running
<1>3. CASE ReplayEnd
  <2>1. PICK k \in Len(confirmed)..Len(history) : engine = SubSeq(history, 1, k)
    BY <1>3, ReplayEndRecovers
  <2>2. Log!Recover
    BY <1>3, <2>1 DEF ReplayEnd, Log!Recover, Running
  <2> QED
    BY <2>2 DEF Log!Next
<1>4. ASSUME NEW c \in Commands, Write(c) PROVE Log!Next
  <2>1. engine = history
    BY <1>4, EngineIsHistory DEF Write, Running
  <2>2. Log!Accept(c)
    BY <1>4, <2>1 DEF Write, Log!Accept, Running
  <2> QED
    BY <2>2 DEF Log!Next
<1>5. CASE WriteFails
  BY <1>5 DEF WriteFails, disk, NoFaults, Log!vars, Running
<1>6. CASE Sync
  BY <1>6 DEF Sync, NoFaults, Log!vars, Running
<1>7. CASE Apply
  <2>1. engine' = history
    BY <1>7, ApplyCompletes
  <2>2. Log!Confirm
    BY <1>7, <2>1 DEF Apply, disk, Log!Confirm, Running
  <2> QED
    BY <2>2 DEF Log!Next
<1>8. CASE Deactivate
  BY <1>8 DEF Deactivate, disk, Log!vars, Running
<1>9. CASE RenameSnapshot
  <2>1. engine = history
    BY <1>9, EngineIsHistory DEF RenameSnapshot, Running
  <2>2. Log!Confirm
    BY <1>9, <2>1 DEF RenameSnapshot, Log!Confirm, Running
  <2> QED
    BY <2>2 DEF Log!Next
<1>10. CASE SnapshotFails
  BY <1>10, ReturnImplements DEF SnapshotFails, Running, Log!Next
<1>11. CASE Truncate
  BY <1>11, ReturnImplements DEF Truncate, Running, Log!Next
<1>12. CASE TruncateFails
  BY <1>12, ReturnImplements DEF TruncateFails, Running, Log!Next
<1>13. CASE Crash
  <2>1. CASE Running
    BY <1>13, <2>1 DEF Crash, Gone, Log!Stop, Log!Next, Running
  <2>2. CASE ~Running
    BY <1>13, <2>2 DEF Crash, Gone, Log!vars, Running
  <2> QED
    BY <2>1, <2>2
<1>14. CASE UNCHANGED vars
  BY <1>14 DEF vars, disk, Log!vars, Running
<1> QED
  BY <1>1, <1>2, <1>3, <1>4, <1>5, <1>6, <1>7, <1>8, <1>9, <1>10, <1>11, <1>12,
     <1>13, <1>14 DEF Next

\* The journal of wal.go, as the service uses it, implements DurableLog: every
\* step of the files and the process is a step of the abstract log or none.
THEOREM JournalImplementsDurableLog == ASSUME NoFaults PROVE Spec => ImplementsDurableLog
<1>1. Init => Log!Init
  BY DEF Init, Log!Init, Running
<1>2. IInv /\ [Next]_vars => [Log!Next]_Log!vars
  BY StepImplements
<1> QED
  BY <1>1, <1>2, Invariance, PTL DEF Spec, ImplementsDurableLog, Log!Spec
=============================================================================
