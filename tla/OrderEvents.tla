------------------------------ MODULE OrderEvents ------------------------------
(***************************************************************************)
(* The audit log packages/core/src/venue/order-events.ts: rows chained by  *)
(* hashes in one SQLite table that every process of the program (the web   *)
(* server, the arena worker, the scheduled scripts) appends to.            *)
(*                                                                         *)
(* appendOrderEvent is a deferred transaction on a WAL database: its       *)
(* SELECT takes a snapshot, its INSERT fails when another connection has   *)
(* committed anything since (a wait for the write lock that times out is   *)
(* the same failure, the other's commit still to come).  logEvent in       *)
(* router.ts swallows it.                                                  *)
(*                                                                         *)
(* SHA-256 is ideal here: the digest of a row is its whole preimage.       *)
(***************************************************************************)
EXTENDS Integers, Sequences, FiniteSetsExt

CONSTANTS
    Procs,      \* processes that own a router
    Bodies,     \* contents of an event, the hashed columns but seq and prev_hash
    MaxCommits, \* bound: commits of a behaviour, to this table or another
    MaxEdits    \* bound: rows changed by hand

ASSUME BoundsAssumption == MaxCommits \in Nat /\ MaxEdits \in Nat

NoHash == <<>>
Hash(seq, body, prev) == Append(prev, <<seq, body>>)

VARIABLES
    rows,     \* the table, by seq
    commits,  \* the database's version: how many transactions have committed
    tx,       \* [process -> its open append: {} or {snapshot}]
    written,  \* history: the bodies as the program wrote them
    edits     \* history: how many edits by hand

vars == <<rows, commits, tx, written, edits>>

Init ==
    /\ rows = <<>> /\ written = <<>>
    /\ commits = 0 /\ edits = 0
    /\ tx = [p \in Procs |-> {}]

\* Mutated form of LastSeq.
LastSeqOfEmptyIsZero == IF rows = <<>> THEN 0 ELSE rows[Len(rows)].seq

LastSeq == IF rows = <<>> THEN -1 ELSE rows[Len(rows)].seq
LastHash == IF rows = <<>> THEN NoHash ELSE rows[Len(rows)].hash

\* Mutated form of BeginAppend.
BeginAppendSameSeq(p, body) ==
    /\ tx[p] = {}
    /\ tx' = [tx EXCEPT ![p] = {[body |-> body, seq |-> LastSeq,
                                 prev_hash |-> LastHash, at |-> commits]}]
    /\ UNCHANGED <<rows, commits, written, edits>>

\* BEGIN and SELECT seq, hash ... ORDER BY seq DESC LIMIT 1.
BeginAppend(p, body) ==
    /\ tx[p] = {}
    /\ tx' = [tx EXCEPT ![p] = {[body |-> body, seq |-> LastSeq + 1,
                                 prev_hash |-> LastHash, at |-> commits]}]
    /\ UNCHANGED <<rows, commits, written, edits>>

\* SQLite grants the write lock to a snapshot that is still the newest.
Newest(t) == t.at = commits

\* seq is UNIQUE in schema.sql.
SeqFree(t) == \A i \in DOMAIN rows : rows[i].seq # t.seq

NewRow(t) ==
    [seq |-> t.seq, body |-> t.body, prev_hash |-> t.prev_hash,
     hash |-> Hash(t.seq, t.body, t.prev_hash)]

\* INSERT and COMMIT.
InsertRow(p) ==
    \E t \in tx[p] :
        /\ Newest(t) /\ SeqFree(t)
        /\ commits < MaxCommits
        /\ rows' = Append(rows, NewRow(t))
        /\ written' = Append(written, t.body)
        /\ commits' = commits + 1
        /\ tx' = [tx EXCEPT ![p] = {}]
        /\ UNCHANGED edits

\* SQLITE_BUSY, or the UNIQUE constraint.
AppendFails(p) ==
    \E t \in tx[p] :
        /\ ~(Newest(t) /\ SeqFree(t))
        /\ tx' = [tx EXCEPT ![p] = {}]
        /\ UNCHANGED <<rows, commits, written, edits>>

\* The process dies in its transaction, which rolls back.
Crash(p) ==
    /\ tx[p] # {}
    /\ tx' = [tx EXCEPT ![p] = {}]
    /\ UNCHANGED <<rows, commits, written, edits>>

\* Another table is written: quotes, capsules, evolution_log.
OtherCommit ==
    /\ commits < MaxCommits
    /\ commits' = commits + 1
    /\ UNCHANGED <<rows, tx, written, edits>>

\* The body of a row is changed outside the program; its seq and its hashes stay.
EditByHand(i, body) ==
    /\ edits < MaxEdits /\ commits < MaxCommits
    /\ rows' = [rows EXCEPT ![i].body = body]
    /\ edits' = edits + 1
    /\ commits' = commits + 1
    /\ UNCHANGED <<tx, written>>

Next ==
    \/ \E p \in Procs :
          \/ \E b \in Bodies : BeginAppend(p, b)
          \/ InsertRow(p)
          \/ AppendFails(p)
          \/ Crash(p)
    \/ OtherCommit
    \/ \E i \in DOMAIN rows, b \in Bodies : EditByHand(i, b)

Spec == Init /\ [][Next]_vars

-----------------------------------------------------------------------------
(* verifyChain: the first row that breaks the chain, if there is one. *)

\* Mutated form of SoundRow.
LinkedRow(i) == i > 1 => rows[i].prev_hash = rows[i - 1].hash

SoundRow(i) ==
    /\ rows[i].hash = Hash(rows[i].seq, rows[i].body, rows[i].prev_hash)
    /\ i > 1 => rows[i].prev_hash = rows[i - 1].hash

BrokenRows == {i \in DOMAIN rows : ~SoundRow(i)}

VerifyChain ==
    IF BrokenRows = {}
    THEN [ok |-> TRUE,  nChecked |-> Len(rows), brokenAtSeq |-> -1]
    ELSE [ok |-> FALSE, nChecked |-> Min(BrokenRows) - 1,
          brokenAtSeq |-> rows[Min(BrokenRows)].seq]

-----------------------------------------------------------------------------
Rows == [seq : Nat, body : Bodies, prev_hash : Seq(Nat \X Bodies), hash : Seq(Nat \X Bodies)]
Snapshots == [body : Bodies, seq : Nat, prev_hash : Seq(Nat \X Bodies), at : Nat]

(* Types. *)
TypeOK ==
    /\ rows \in Seq(Rows)
    /\ written \in Seq(Bodies)
    /\ commits \in Nat /\ edits \in Nat
    /\ tx \in [Procs -> SUBSET Snapshots]

Tampered == {i \in DOMAIN rows : rows[i].body # written[i]}

\* However many processes append at once, and whichever of them fail or die,
\* row i carries seq i - 1: no number is used twice or skipped.
SeqGapless == \A i \in DOMAIN rows : rows[i].seq = i - 1

\* verifyChain accepts the log the program wrote, whatever the interleaving, and
\* after edits of bodies it stops at the first row whose body is not the one written.
VerdictIsExact ==
    /\ VerifyChain.ok = (Tampered = {})
    /\ ~VerifyChain.ok => VerifyChain.brokenAtSeq = Min(Tampered) - 1

\* Why both hold: every row extends the hash of the row before it by what the
\* program wrote, whatever was edited since; and a snapshot that may still commit
\* continues the last row.
RowsAsWritten ==
    /\ Len(written) = Len(rows)
    /\ \A i \in DOMAIN rows :
          /\ rows[i].seq = i - 1
          /\ rows[i].prev_hash = IF i = 1 THEN NoHash ELSE rows[i - 1].hash
          /\ rows[i].hash = Hash(i - 1, written[i], rows[i].prev_hash)

NewestContinues ==
    \A p \in Procs : \A t \in tx[p] :
        /\ t.at <= commits
        /\ Newest(t) => t.seq = LastSeq + 1 /\ t.prev_hash = LastHash

ChainedAsWritten == RowsAsWritten /\ NewestContinues
=============================================================================
