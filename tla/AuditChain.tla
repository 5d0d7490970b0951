----------------------------- MODULE AuditChain -----------------------------
(***************************************************************************)
(* The hash chain of a tenant's audit log.  The interceptor writes a row   *)
(* after each response, in three statements and no transaction, and does   *)
(* not make the response wait for it.  Nobody tampers with rows here.      *)
(*                                                                         *)
(* SHA-256 is taken to be injective: the hash of a row is known by the     *)
(* write that made the row, and the hash chained to by the row it is of.   *)
(***************************************************************************)
EXTENDS Integers, FiniteSets

CONSTANTS
    Writes,    \* calls of AuditChainService.write
    Genesis,   \* hash_prev of a chain's first row
    MaxNow     \* bound on the clock

ASSUME WritesAssumption == IsFiniteSet(Writes) /\ Genesis \notin Writes
ASSUME ClockAssumption == MaxNow \in Nat

VARIABLES
    now,        \* the database's clock, in milliseconds
    pc,         \* where each write is
    previous,   \* the hash it read, which goes into hash_prev
    rows,       \* rows inserted
    createdAt,  \* created_at of each
    hashed,     \* rows that have their hash_self
    overlapped  \* history: whether two writes were ever under way at once

vars == <<now, pc, previous, rows, createdAt, hashed, overlapped>>

Under == {w \in Writes : pc[w] \in {"insert", "hash"}}

TypeOK ==
    /\ now \in Nat
    /\ pc \in [Writes -> {"idle", "insert", "hash", "done", "failed"}]
    /\ previous \in [Writes -> Writes \cup {Genesis}]
    /\ rows \subseteq Writes
    /\ createdAt \in [Writes -> Nat]
    /\ hashed \subseteq rows
    /\ overlapped \in BOOLEAN

Init ==
    /\ now = 1
    /\ pc = [w \in Writes |-> "idle"]
    /\ previous = [w \in Writes |-> Genesis]
    /\ rows = {}
    /\ createdAt = [w \in Writes |-> 0]
    /\ hashed = {}
    /\ overlapped = FALSE

-----------------------------------------------------------------------------
(* Mutant of Latest: rows that have no hash yet are not passed over.       *)
Latest_unfiltered ==
    IF rows = {} THEN {Genesis}
    ELSE {IF v \in hashed THEN v ELSE Genesis :
            v \in {u \in rows : \A w \in rows : createdAt[w] <= createdAt[u]}}

(* Mutant of Latest: a row is chained to that has no hash yet.            *)
Latest_anyRow ==
    IF rows = {} THEN {Genesis}
    ELSE {v \in rows : \A w \in rows : createdAt[w] <= createdAt[v]}

(* What the latest chained row may be: rows of one millisecond are returned *)
(* in any order.                                                            *)
Latest ==
    IF hashed = {} THEN {Genesis}
    ELSE {v \in hashed : \A w \in hashed : createdAt[w] <= createdAt[v]}

ReadPrevious(w) ==
    /\ pc[w] = "idle"
    /\ \E v \in Latest : previous' = [previous EXCEPT ![w] = v]
    /\ pc' = [pc EXCEPT ![w] = "insert"]
    /\ overlapped' = (overlapped \/ Under # {})
    /\ UNCHANGED <<now, rows, createdAt, hashed>>

InsertRow(w) ==
    /\ pc[w] = "insert"
    /\ rows' = rows \cup {w}
    /\ createdAt' = [createdAt EXCEPT ![w] = now]
    /\ pc' = [pc EXCEPT ![w] = "hash"]
    /\ UNCHANGED <<now, previous, hashed, overlapped>>

WriteHash(w) ==
    /\ pc[w] = "hash"
    /\ hashed' = hashed \cup {w}
    /\ pc' = [pc EXCEPT ![w] = "done"]
    /\ UNCHANGED <<now, previous, rows, createdAt, overlapped>>

(* A statement fails, or the process dies; the error is swallowed. *)
Fail(w) ==
    /\ pc[w] \in {"insert", "hash"}
    /\ pc' = [pc EXCEPT ![w] = "failed"]
    /\ UNCHANGED <<now, previous, rows, createdAt, hashed, overlapped>>

Tick ==
    /\ now < MaxNow
    /\ now' = now + 1
    /\ UNCHANGED <<pc, previous, rows, createdAt, hashed, overlapped>>

Next ==
    \/ \E w \in Writes : ReadPrevious(w) \/ InsertRow(w) \/ WriteHash(w) \/ Fail(w)
    \/ Tick

Spec == Init /\ [][Next]_vars

-----------------------------------------------------------------------------
(* verify: the chained rows in the order of created_at, each with the hash *)
(* of the one before.                                                      *)
Before(w) == {v \in hashed : createdAt[v] < createdAt[w]}

LinkHolds(w) ==
    IF Before(w) = {} THEN previous[w] = Genesis
    ELSE /\ previous[w] \in Before(w)
         /\ \A v \in Before(w) : createdAt[v] <= createdAt[previous[w]]

VerifyOk == \A w \in hashed : LinkHolds(w)

(* Rows of different milliseconds, so that their order is known. *)
Distinct == \A v, w \in rows : createdAt[v] = createdAt[w] => v = w

-----------------------------------------------------------------------------
(* Properties *)

(* verify finds a chain intact that nobody has touched as long as no two   *)
(* writes overlap, although any of them may fail between its statements    *)
(* and leave a row without a hash, or none.                                *)
IntactUnlessOverlap == Distinct /\ ~overlapped => VerifyOk

(* Every chained row, whatever writes overlap, links to an earlier chained *)
(* row or begins a chain: links have no cycle and none is dangling.        *)
LinksPointBack ==
    \A w \in hashed : previous[w] # Genesis =>
        previous[w] \in hashed /\ createdAt[previous[w]] <= createdAt[w]

(* Why: the inductive strengthening.  A row is hashed only after it has    *)
(* been inserted, and no row is dated ahead of the clock.                  *)
RowsInOrder ==
    /\ \A w \in Writes :
          /\ pc[w] \in {"idle", "insert"} => w \notin rows
          /\ pc[w] = "hash" => w \in rows \ hashed
    /\ \A w \in rows : createdAt[w] <= now

(* What a write has read is the hash of a row dated before its own. *)
ReadsPointBack ==
    \A w \in Under \cup hashed : previous[w] # Genesis =>
        /\ previous[w] \in hashed
        /\ w \in rows => createdAt[previous[w]] <= createdAt[w]

(* As long as no two writes overlap the one under way still has the latest *)
(* chained row, and its own will be the latest.                            *)
AloneIsLast ==
    ~overlapped =>
        /\ \A v, w \in Under : v = w
        /\ \A w \in Under :
              /\ previous[w] \in Latest
              /\ pc[w] = "hash" => \A v \in hashed : createdAt[v] <= createdAt[w]

ChainInv == TypeOK /\ RowsInOrder /\ ReadsPointBack /\ AloneIsLast /\ IntactUnlessOverlap

(* audit-chain.service.ts 15, "mismatch = tampering": an untouched chain   *)
(* passes verification.                                                    *)
MismatchMeansTampering == Distinct => VerifyOk
=============================================================================
