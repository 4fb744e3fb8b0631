--------------------------- MODULE WorkspaceLease ---------------------------
(***************************************************************************)
(* Exclusive writer leases on one Workspace: the current row in PostgreSQL *)
(* and the copies its successive holders work from.                        *)
(*                                                                         *)
(* Every call is one short transaction.  The caller reads its clock first, *)
(* and the statement may run long after: "at" is any instant up to now.    *)
(* The reply may be lost after the commit (the repository then reports     *)
(* that coordination is unavailable): an acquirer gets no copy, and a      *)
(* holder keeps the copy it had.                                           *)
(***************************************************************************)
EXTENDS LeaseRows

CONSTANTS
  Holders,     \* worker attempts that may ask for the Workspace
  Durations,   \* lengths for which a lease is taken or extended
  NoLease,     \* a holder without a copy
  MaxTime,     \* bound: the clock stops here
  MaxToken     \* bound: acquisitions of the Workspace

ASSUME DurationsAssumption == Durations \subseteq Nat \ {0}
ASSUME NoLeaseAssumption == NoLease \notin LeaseRow

VARIABLES
  now,   \* the wall clock
  row,   \* the committed row
  copy   \* copy[h]: the row as holder h last saw it

vars == <<now, row, copy>>

TypeOK ==
  /\ now \in Nat
  /\ row \in LeaseRow
  /\ copy \in [Holders -> LeaseRow \cup {NoLease}]

Init ==
  /\ now = 0
  /\ row = NoRow
  /\ copy = [h \in Holders |-> NoLease]

Holds(h) == copy[h] # NoLease

(* A holder asks anew only when it has no lease in hand.                   *)
Acquire(h, at, length) ==
  /\ ~Holds(h)
  /\ row.token < MaxToken
  /\ MayAcquire(row, at)
  /\ row' = Acquired(row, at, at + length)
  /\ \/ copy' = [copy EXCEPT ![h] = row']
     \/ UNCHANGED copy
  /\ UNCHANGED now

Heartbeat(h, at, length) ==
  /\ Holds(h)
  /\ MayHeartbeat(row, copy[h], at, at + length)
  /\ row' = Heartbeaten(row, at, at + length)
  /\ \/ copy' = [copy EXCEPT ![h] = row']
     \/ UNCHANGED copy
  /\ UNCHANGED now

(* A deliberate fault (as in LeaseRows): a holder that is not told of its  *)
(* release goes on with its copy.                                          *)
ReleaseUnheard(h, at) ==
  /\ Holds(h)
  /\ MayRelease(row, copy[h], at)
  /\ row' = Released(row)
  /\ UNCHANGED <<now, copy>>

(* Whatever the reply, the holder does not use the lease after releasing.  *)
Release(h, at) ==
  /\ Holds(h)
  /\ MayRelease(row, copy[h], at)
  /\ row' = Released(row)
  /\ copy' = [copy EXCEPT ![h] = NoLease]
  /\ UNCHANGED now

(* A refused call raises StaleLeaseError, and a worker may die: either way *)
(* the copy is gone and the row stays as it is until it expires.           *)
Abandon(h) ==
  /\ Holds(h)
  /\ copy' = [copy EXCEPT ![h] = NoLease]
  /\ UNCHANGED <<now, row>>

Tick ==
  /\ now < MaxTime
  /\ now' = now + 1
  /\ UNCHANGED <<row, copy>>

Next ==
  \/ \E h \in Holders, at \in 0..now :
       \/ \E length \in Durations : Acquire(h, at, length) \/ Heartbeat(h, at, length)
       \/ Release(h, at)
  \/ \E h \in Holders : Abandon(h)
  \/ Tick

Spec == Init /\ [][Next]_vars

(* At no instant do two holders both have a copy that tells them they may  *)
(* write: what lets a holder check only its own copy (is_active_at) before *)
(* it commits to another store.                                            *)
Believes(h) == Holds(h) /\ ActiveAt(copy[h], now)

MutualExclusion == \A g, h \in Holders : Believes(g) /\ Believes(h) => g = h

(* A holder that believes so is right about the committed row: it is the   *)
(* row's owner, and the row protects it at this instant.  Nobody tells a   *)
(* holder whose reply was lost, or whose row was taken over, that its copy *)
(* is old; what the row says must make the copy run out by itself.         *)
BeliefIsBacked ==
  \A h \in Holders : Believes(h) => copy[h].token = row.token /\ ActiveAt(row, now)

(* A revision number names one content of the row: a copy with the row's   *)
(* token and version is the row, and no copy is ahead of it.  The          *)
(* conditional UPDATEs of heartbeat and release rely on it, since they     *)
(* extend what the copy says without reading the row first.                *)
CopiesArePast ==
  \A h \in Holders : Holds(h) =>
    /\ copy[h].token <= row.token
    /\ copy[h].version <= row.version
    /\ SameRevision(row, copy[h]) => copy[h] = row

(* Ownership changes hands only forward, one token at a time, and only     *)
(* once the last owner's time is over on the wall clock or it has released.*)
HandOver ==
  [][row'.token # row.token =>
       /\ row'.token = row.token + 1
       /\ ~ActiveAt(row, now)]_vars
=============================================================================
