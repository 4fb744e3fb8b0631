----------------------------- MODULE LeaseRows -----------------------------
(***************************************************************************)
(* The current lease row of one Workspace (impodo_control.workspace_lease) *)
(* and the statements that change it.  A row is also what a holder keeps:  *)
(* every statement returns the row it wrote and the holder works from that *)
(* copy until its next call.                                               *)
(*                                                                         *)
(* lease_id and holder_attempt_id are fresh for every acquisition, and the *)
(* fencing token is too: the token stands for all three.  A Workspace that *)
(* was never leased has no row; NoRow stands for that, and is written so   *)
(* that inserting the first row and taking over a later one read alike.    *)
(***************************************************************************)
EXTENDS Naturals

LeaseRow == [token : Nat, version : Nat, acquired : Nat, heartbeat : Nat,
             expires : Nat, released : BOOLEAN]

NoRow == [token |-> 0, version |-> 0, acquired |-> 0, heartbeat |-> 0,
          expires |-> 0, released |-> TRUE]

(* Definitions named for what they get wrong are deliberate faults: each   *)
(* stands for a plausible slip in the definition after it and shows that   *)
(* the properties would notice it.  No specification uses them.            *)

ActiveForever(lease, at) == ~lease.released

(* The lease still protects writes at the time "at".                       *)
ActiveAt(lease, at) == ~lease.released /\ at < lease.expires

MayAcquireAfterHeartbeat(row, at) == row.released \/ row.heartbeat <= at

(* The WHERE clause of the acquiring upsert.                               *)
MayAcquire(row, at) == row.released \/ row.expires <= at

AcquiredBackwards(row, at, expires) ==
  [token |-> row.token - 1, version |-> row.version + 1, acquired |-> at,
   heartbeat |-> at, expires |-> expires, released |-> FALSE]

Acquired(row, at, expires) ==
  [token |-> row.token + 1, version |-> row.version + 1, acquired |-> at,
   heartbeat |-> at, expires |-> expires, released |-> FALSE]

(* The statement finds the row the holder last saw.                        *)
SameRevision(row, copy) == row.token = copy.token /\ row.version = copy.version

MayHeartbeatToEarlier(row, copy, at, expires) ==
  /\ ActiveAt(copy, at) /\ copy.heartbeat <= at /\ at < expires
  /\ SameRevision(row, copy)
  /\ ActiveAt(row, at) /\ row.heartbeat <= at

(* Heartbeat: what the holder checks on its own copy, then the WHERE clause.*)
MayHeartbeat(row, copy, at, expires) ==
  /\ ActiveAt(copy, at) /\ copy.heartbeat <= at
  /\ copy.expires < expires /\ at < expires
  /\ SameRevision(row, copy)
  /\ ActiveAt(row, at) /\ row.heartbeat <= at /\ row.expires < expires

HeartbeatenSameVersion(row, at, expires) ==
  [row EXCEPT !.heartbeat = at, !.expires = expires]

Heartbeaten(row, at, expires) ==
  [row EXCEPT !.heartbeat = at, !.expires = expires, !.version = @ + 1]

(* Release: again the copy first, then the row.                            *)
MayRelease(row, copy, at) ==
  /\ ActiveAt(copy, at) /\ copy.heartbeat <= at
  /\ SameRevision(row, copy)
  /\ ActiveAt(row, at) /\ row.heartbeat <= at

Released(row) == [row EXCEPT !.released = TRUE, !.version = @ + 1]
============================================================================
