--------------------------- MODULE OrderEventsProofs ---------------------------
(***************************************************************************)
(* Theorems about OrderEvents, for any number of processes, commits and    *)
(* edits.                                                                  *)
(***************************************************************************)
EXTENDS OrderEvents, SequenceTheorems, FiniteSetTheorems, TLAPS

(* A non-empty set of naturals has a least element, and Min returns it: the *)
(* intervals 1..n for its elements n are ordered by strict inclusion.       *)
LEMMA MinIsLeast ==
    ASSUME NEW T, T \subseteq Nat, T # {}
    PROVE  Min(T) \in T /\ \A n \in T : Min(T) <= n
<1> DEFINE Upto == {1..n : n \in T}
<1>1. Upto \subseteq FiniteSubsetsOf(Nat) /\ Upto # {}
  <2>1. ASSUME NEW n \in T
        PROVE  1..n \in FiniteSubsetsOf(Nat)
    <3>1. n \in Int /\ 1..n \subseteq Nat
      OBVIOUS
    <3> QED
      BY <3>1, FS_Interval DEF FiniteSubsetsOf
  <2> QED
    BY <2>1
<1>2. PICK u \in Upto : \A v \in Upto : <<v, u>> \notin StrictSubsetOrdering(Nat)
  BY <1>1, FS_StrictSubsetOrderingWellFounded, WFMin
<1>3. PICK m \in T : u = 1..m
  OBVIOUS
<1>4. ASSUME NEW n \in T, n < m
      PROVE  FALSE
  <2>1. m \in Nat /\ n \in Nat
    OBVIOUS
  <2>2. 1..n \subseteq 1..m /\ m \in 1..m /\ m \notin 1..n
    BY <1>4, <2>1
  <2>3. 1..n \in Upto /\ 1..n \in SUBSET Nat /\ 1..m \in SUBSET Nat
    BY <2>1
  <2> QED
    BY <1>2, <1>3, <2>2, <2>3 DEF StrictSubsetOrdering
<1>5. \A n \in T : m <= n
  BY <1>4
<1> QED
  BY <1>5 DEF Min

-----------------------------------------------------------------------------
(* What an append reads from the table. *)
LEMMA LastRowType ==
    ASSUME TypeOK
    PROVE  LastSeq + 1 \in Nat /\ LastHash \in Seq(Nat \X Bodies)
<1>1. CASE rows = <<>>
  BY <1>1 DEF LastSeq, LastHash, NoHash
<1>2. CASE rows # <<>>
  <2>1. Len(rows) \in 1..Len(rows) /\ rows \in Seq(Rows)
    BY <1>2, EmptySeq DEF TypeOK
  <2>2. rows[Len(rows)] \in Rows
    BY <2>1, ElementOfSeq
  <2> QED
    BY <1>2, <2>2 DEF LastSeq, LastHash, Rows
<1> QED
  BY <1>1, <1>2

(* A snapshot turns into a row. *)
LEMMA NewRowType ==
    ASSUME NEW t \in Snapshots
    PROVE  NewRow(t) \in Rows
<1>1. <<t.seq, t.body>> \in Nat \X Bodies /\ t.prev_hash \in Seq(Nat \X Bodies)
  BY DEF Snapshots
<1>2. Append(t.prev_hash, <<t.seq, t.body>>) \in Seq(Nat \X Bodies)
  BY <1>1, AppendProperties
<1> QED
  BY <1>2 DEF NewRow, Rows, Snapshots, Hash

(* Every step keeps the types. *)
LEMMA TypeStep ==
    ASSUME TypeOK, Next
    PROVE  TypeOK'
<1> USE DEF TypeOK
<1>1. ASSUME NEW p \in Procs, NEW b \in Bodies, BeginAppend(p, b)
      PROVE  TypeOK'
  <2>1. [body |-> b, seq |-> LastSeq + 1, prev_hash |-> LastHash, at |-> commits] \in Snapshots
    BY LastRowType DEF Snapshots
  <2> QED
    BY <1>1, <2>1 DEF BeginAppend
<1>2. ASSUME NEW p \in Procs, InsertRow(p)
      PROVE  TypeOK'
  <2>1. PICK t \in tx[p] : /\ rows' = Append(rows, NewRow(t))
                          /\ written' = Append(written, t.body)
                          /\ commits' = commits + 1
                          /\ tx' = [tx EXCEPT ![p] = {}]
                          /\ UNCHANGED edits
    BY <1>2 DEF InsertRow
  <2>2. t \in Snapshots
    OBVIOUS
  <2>3. NewRow(t) \in Rows /\ t.body \in Bodies
    BY <2>2, NewRowType DEF Snapshots
  <2>4. rows' \in Seq(Rows) /\ written' \in Seq(Bodies)
    BY <2>1, <2>3, AppendProperties
  <2> QED
    BY <2>1, <2>4
<1>3. ASSUME NEW p \in Procs, AppendFails(p)
      PROVE  TypeOK'
  BY <1>3 DEF AppendFails, Snapshots
<1>4. ASSUME NEW p \in Procs, Crash(p)
      PROVE  TypeOK'
  BY <1>4 DEF Crash
<1>5. CASE OtherCommit
  BY <1>5 DEF OtherCommit
<1>6. ASSUME NEW i \in DOMAIN rows, NEW b \in Bodies, EditByHand(i, b)
      PROVE  TypeOK'
  <2>1. i \in 1..Len(rows) /\ rows[i] \in Rows
    BY LenProperties, ElementOfSeq
  <2>2. [rows[i] EXCEPT !.body = b] \in Rows
    BY <2>1 DEF Rows
  <2>3. rows' = [rows EXCEPT ![i] = [rows[i] EXCEPT !.body = b]]
    BY <1>6 DEF EditByHand
  <2>4. rows' \in Seq(Rows)
    BY <2>1, <2>2, <2>3, ExceptSeq
  <2> QED
    BY <1>6, <2>4 DEF EditByHand
<1> QED
  BY <1>1, <1>2, <1>3, <1>4, <1>5, <1>6 DEF Next

(* The table, the transactions and the counters are always well typed. *)
THEOREM TypeCorrect == Spec => []TypeOK
<1>1. Init => TypeOK
  <2>1. ASSUME NEW S
        PROVE  <<>> \in Seq(S)
    BY EmptySeq
  <2> QED
    BY <2>1 DEF Init, TypeOK
<1>2. TypeOK /\ UNCHANGED vars => TypeOK'
  BY DEF vars, TypeOK
<1> QED
  BY <1>1, <1>2, TypeStep, PTL DEF Spec

-----------------------------------------------------------------------------
(* A row appended from a newest snapshot extends the chain. *)
LEMMA AppendKeepsRows ==
    ASSUME TypeOK, RowsAsWritten, NewestContinues, NEW p \in Procs, InsertRow(p)
    PROVE  RowsAsWritten'
<1>1. PICK t \in tx[p] : /\ Newest(t)
                        /\ rows' = Append(rows, NewRow(t))
                        /\ written' = Append(written, t.body)
  BY DEF InsertRow
<1>2. t \in Snapshots /\ t.seq = LastSeq + 1 /\ t.prev_hash = LastHash
  BY <1>1 DEF NewestContinues, TypeOK
<1> DEFINE n == Len(rows)
<1>3. /\ NewRow(t) \in Rows /\ t.body \in Bodies
      /\ rows \in Seq(Rows) /\ written \in Seq(Bodies) /\ n \in Nat
  BY <1>2, NewRowType DEF Snapshots, TypeOK
<1>4. /\ rows' \in Seq(Rows) /\ Len(rows') = n + 1 /\ rows'[n + 1] = NewRow(t)
      /\ \A i \in 1..n : rows'[i] = rows[i]
  BY <1>1, <1>3, AppendProperties
<1>5. /\ Len(written') = Len(written) + 1 /\ written'[Len(written) + 1] = t.body
      /\ \A i \in 1..Len(written) : written'[i] = written[i]
  BY <1>1, <1>3, AppendProperties
<1>6. Len(written) = n
  BY DEF RowsAsWritten
<1>7. t.seq = n /\ t.prev_hash = IF n + 1 = 1 THEN NoHash ELSE rows'[n].hash
  <2>1. CASE rows = <<>>
    BY <1>2, <2>1 DEF LastSeq, LastHash
  <2>2. CASE rows # <<>>
    <3>1. n \in 1..n /\ n # 0 /\ n \in DOMAIN rows
      BY <1>3, <2>2, EmptySeq, LenProperties
    <3>2. rows[n].seq = n - 1
      BY <3>1 DEF RowsAsWritten
    <3> QED
      BY <1>2, <1>3, <1>4, <2>2, <3>1, <3>2 DEF LastSeq, LastHash
  <2> QED
    BY <2>1, <2>2
<1>8. ASSUME NEW i \in 1..n + 1
      PROVE  /\ rows'[i].seq = i - 1
             /\ rows'[i].prev_hash = IF i = 1 THEN NoHash ELSE rows'[i - 1].hash
             /\ rows'[i].hash = Hash(i - 1, written'[i], rows'[i].prev_hash)
  <2>1. CASE i = n + 1
    BY <1>3, <1>4, <1>5, <1>6, <1>7, <2>1 DEF NewRow
  <2>2. CASE i \in 1..n
    <3>1. i \in DOMAIN rows /\ rows'[i] = rows[i] /\ written'[i] = written[i]
      BY <1>3, <1>4, <1>5, <1>6, <2>2
    <3>2. i # 1 => rows'[i - 1] = rows[i - 1]
      BY <1>3, <1>4, <2>2
    <3> QED
      BY <3>1, <3>2 DEF RowsAsWritten
  <2> QED
    BY <1>3, <2>1, <2>2
<1>9. DOMAIN rows' = 1..n + 1
  BY <1>4, LenProperties
<1> QED
  BY <1>4, <1>5, <1>6, <1>8, <1>9 DEF RowsAsWritten

(* An edit changes the body of a row, which no link of the chain refers to. *)
LEMMA EditKeepsRows ==
    ASSUME TypeOK, RowsAsWritten, NEW i \in DOMAIN rows, NEW b \in Bodies, EditByHand(i, b)
    PROVE  RowsAsWritten'
<1>1. rows \in Seq(Rows) /\ i \in 1..Len(rows) /\ rows[i] \in Rows
  BY LenProperties, ElementOfSeq DEF TypeOK
<1>2. [rows[i] EXCEPT !.body = b] \in Rows
  BY <1>1 DEF Rows
<1>3. rows' = [rows EXCEPT ![i] = [rows[i] EXCEPT !.body = b]] /\ written' = written
  BY DEF EditByHand
<1>4. /\ Len(rows') = Len(rows) /\ DOMAIN rows' = DOMAIN rows /\ DOMAIN rows = 1..Len(rows)
      /\ \A j \in DOMAIN rows :
            rows'[j] = IF j = i THEN [rows[i] EXCEPT !.body = b] ELSE rows[j]
  BY <1>1, <1>2, <1>3, ExceptSeq, LenProperties
<1>5. \A j \in DOMAIN rows : /\ rows'[j].seq = rows[j].seq
                            /\ rows'[j].prev_hash = rows[j].prev_hash
                            /\ rows'[j].hash = rows[j].hash
  BY <1>1, <1>4 DEF Rows
<1>6. \A j \in DOMAIN rows : j # 1 => j - 1 \in DOMAIN rows
  BY <1>1, <1>4
<1> QED
  BY <1>3, <1>4, <1>5, <1>6 DEF RowsAsWritten

(* A commit outdates every open snapshot, and a snapshot that another        *)
(* transaction leaves alone stays what it was.                               *)
LEMMA NewestStep ==
    ASSUME TypeOK, NewestContinues, Next
    PROVE  NewestContinues'
<1> DEFINE Fewer == \A q \in Procs : tx'[q] \subseteq tx[q]
<1>1. ASSUME NEW p \in Procs, NEW b \in Bodies, BeginAppend(p, b)
      PROVE  NewestContinues'
  <2>1. rows' = rows /\ commits' = commits /\ commits \in Nat
    BY <1>1 DEF BeginAppend, TypeOK
  <2>2. LastSeq' = LastSeq /\ LastHash' = LastHash
    BY <2>1 DEF LastSeq, LastHash
  <2>3. ASSUME NEW q \in Procs, NEW t \in tx'[q]
        PROVE  /\ t.at <= commits
               /\ t.at = commits => t.seq = LastSeq + 1 /\ t.prev_hash = LastHash
    <3>1. CASE q = p
      <4>1. t = [body |-> b, seq |-> LastSeq + 1, prev_hash |-> LastHash, at |-> commits]
        BY <1>1, <2>3, <3>1 DEF BeginAppend, TypeOK
      <4> QED
        BY <2>1, <4>1
    <3>2. CASE q # p
      <4>1. t \in tx[q]
        BY <1>1, <2>3, <3>2 DEF BeginAppend, TypeOK
      <4> QED
        BY <4>1 DEF NewestContinues, Newest
    <3> QED
      BY <3>1, <3>2
  <2> QED
    BY <2>1, <2>2, <2>3 DEF NewestContinues, Newest
<1>2. ASSUME Fewer, commits' = commits + 1
      PROVE  NewestContinues'
  <2>1. ASSUME NEW q \in Procs, NEW t \in tx'[q]
        PROVE  t.at <= commits' /\ t.at # commits'
    <3>1. t.at <= commits /\ t.at \in Nat /\ commits \in Nat
      BY <1>2 DEF NewestContinues, TypeOK, Snapshots
    <3> QED
      BY <1>2, <3>1
  <2> QED
    BY <2>1 DEF NewestContinues, Newest
<1>3. ASSUME Fewer, rows' = rows, commits' = commits
      PROVE  NewestContinues'
  <2>1. LastSeq' = LastSeq /\ LastHash' = LastHash
    BY <1>3 DEF LastSeq, LastHash
  <2> QED
    BY <1>3, <2>1 DEF NewestContinues, Newest
<1>4. ASSUME NEW p \in Procs, InsertRow(p)
      PROVE  NewestContinues'
  BY <1>2, <1>4 DEF InsertRow, TypeOK
<1>5. ASSUME NEW p \in Procs, AppendFails(p) \/ Crash(p)
      PROVE  NewestContinues'
  BY <1>3, <1>5 DEF AppendFails, Crash, TypeOK
<1>6. CASE OtherCommit
  BY <1>2, <1>6 DEF OtherCommit
<1>7. ASSUME NEW i \in DOMAIN rows, NEW b \in Bodies, EditByHand(i, b)
      PROVE  NewestContinues'
  BY <1>2, <1>7 DEF EditByHand
<1> QED
  BY <1>1, <1>4, <1>5, <1>6, <1>7 DEF Next

(* A step that leaves the table alone keeps its rows. *)
LEMMA SameRows ==
    ASSUME RowsAsWritten, rows' = rows, written' = written
    PROVE  RowsAsWritten'
BY DEF RowsAsWritten

(* However many processes append at once, fail or die, the log is the one the *)
(* program wrote: every row extends its predecessor's hash by its number and  *)
(* its body as written, and only a snapshot of the last row can commit.       *)
THEOREM Chained == Spec => []ChainedAsWritten
<1>1. Init => ChainedAsWritten
  BY EmptySeq, LenProperties DEF Init, ChainedAsWritten, RowsAsWritten, NewestContinues
<1>2. ASSUME TypeOK, ChainedAsWritten, Next
      PROVE  ChainedAsWritten'
  <2> USE <1>2 DEF ChainedAsWritten
  <2>1. ASSUME NEW p \in Procs, NEW b \in Bodies, BeginAppend(p, b)
        PROVE  RowsAsWritten'
    BY <2>1, SameRows DEF BeginAppend
  <2>2. ASSUME NEW p \in Procs, InsertRow(p)
        PROVE  RowsAsWritten'
    BY <2>2, AppendKeepsRows
  <2>3. ASSUME NEW p \in Procs, AppendFails(p) \/ Crash(p)
        PROVE  RowsAsWritten'
    BY <2>3, SameRows DEF AppendFails, Crash
  <2>4. ASSUME OtherCommit
        PROVE  RowsAsWritten'
    BY <2>4, SameRows DEF OtherCommit
  <2>5. ASSUME NEW i \in DOMAIN rows, NEW b \in Bodies, EditByHand(i, b)
        PROVE  RowsAsWritten'
    BY <2>5, EditKeepsRows
  <2>6. RowsAsWritten'
    BY <2>1, <2>2, <2>3, <2>4, <2>5 DEF Next
  <2> QED
    BY <2>6, NewestStep
<1>3. ChainedAsWritten /\ UNCHANGED vars => ChainedAsWritten'
  BY DEF vars, ChainedAsWritten, RowsAsWritten, NewestContinues, Newest, LastSeq, LastHash
<1> QED
  BY <1>1, <1>2, <1>3, TypeCorrect, PTL DEF Spec

(* Row i carries number i - 1: no number is used twice, none is skipped. *)
THEOREM Gapless == Spec => []SeqGapless
<1>1. ChainedAsWritten => SeqGapless
  BY DEF ChainedAsWritten, RowsAsWritten, SeqGapless
<1> QED
  BY <1>1, Chained, PTL

-----------------------------------------------------------------------------
(* Appending is injective: the ideal digest gives its preimage away. *)
LEMMA HashInjective ==
    ASSUME NEW s \in Nat, NEW b \in Bodies, NEW c \in Bodies, NEW h \in Seq(Nat \X Bodies),
           Hash(s, b, h) = Hash(s, c, h)
    PROVE  b = c
<1>1. <<s, b>> \in Nat \X Bodies /\ <<s, c>> \in Nat \X Bodies
  OBVIOUS
<1>2. /\ Append(h, <<s, b>>)[Len(h) + 1] = <<s, b>>
      /\ Append(h, <<s, c>>)[Len(h) + 1] = <<s, c>>
  BY <1>1, AppendProperties
<1>3. <<s, b>> = <<s, c>>
  BY <1>2 DEF Hash
<1> QED
  BY <1>3

(* A row passes verifyChain exactly if its body is the one that was written. *)
LEMMA SoundIffWritten ==
    ASSUME TypeOK, RowsAsWritten, NEW i \in DOMAIN rows
    PROVE  SoundRow(i) <=> rows[i].body = written[i]
<1>1. /\ i \in 1..Len(rows) /\ rows[i] \in Rows /\ Len(rows) = Len(written)
      /\ rows \in Seq(Rows) /\ written \in Seq(Bodies)
  BY LenProperties, ElementOfSeq DEF TypeOK, RowsAsWritten
<1>2. written[i] \in Bodies
  BY <1>1, ElementOfSeq
<1>3. /\ rows[i].seq \in Nat /\ rows[i].body \in Bodies
      /\ rows[i].prev_hash \in Seq(Nat \X Bodies)
  BY <1>1 DEF Rows
<1>4. /\ rows[i].seq = i - 1
      /\ rows[i].prev_hash = IF i = 1 THEN NoHash ELSE rows[i - 1].hash
      /\ rows[i].hash = Hash(i - 1, written[i], rows[i].prev_hash)
  BY DEF RowsAsWritten
<1>5. i > 1 => rows[i].prev_hash = rows[i - 1].hash
  BY <1>4
<1> QED
  BY <1>2, <1>3, <1>4, <1>5, HashInjective DEF SoundRow

(* verifyChain accepts the log exactly if no row differs from what the program *)
(* wrote, and otherwise names the number of the first row that does.           *)
THEOREM Exact == Spec => []VerdictIsExact
<1>1. ASSUME TypeOK, ChainedAsWritten
      PROVE  VerdictIsExact
  <2>1. RowsAsWritten
    BY <1>1 DEF ChainedAsWritten
  <2>2. BrokenRows = Tampered
    BY <1>1, <2>1, SoundIffWritten DEF BrokenRows, Tampered
  <2>3. CASE Tampered = {}
    BY <2>2, <2>3 DEF VerdictIsExact, VerifyChain
  <2>4. CASE Tampered # {}
    <3>1. Tampered \subseteq DOMAIN rows /\ DOMAIN rows \subseteq Nat
      BY <1>1, LenProperties DEF Tampered, TypeOK
    <3>2. Min(Tampered) \in DOMAIN rows
      BY <2>4, <3>1, MinIsLeast
    <3>3. rows[Min(Tampered)].seq = Min(Tampered) - 1
      BY <2>1, <3>2 DEF RowsAsWritten
    <3>4. VerifyChain.ok = FALSE /\ VerifyChain.brokenAtSeq = Min(Tampered) - 1
      BY <2>2, <2>4, <3>3 DEF VerifyChain
    <3> QED
      BY <2>4, <3>4 DEF VerdictIsExact
  <2> QED
    BY <2>3, <2>4
<1> QED
  BY <1>1, TypeCorrect, Chained, PTL
=============================================================================
