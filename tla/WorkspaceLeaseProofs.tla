------------------------ MODULE WorkspaceLeaseProofs ------------------------
(***************************************************************************)
(* Mutual exclusion of Workspace lease holders, for any set of holders and *)
(* any durations.                                                          *)
(***************************************************************************)
EXTENDS WorkspaceLease, TLAPS

(* What the row remembers of the copies: no two holders have a copy with   *)
(* the same token; a superseded copy has run out on the wall clock; the    *)
(* copy of the current token promises no more than the row; and nobody     *)
(* holds a copy of a released row.                                         *)
OneCopyPerToken ==
  \A g, h \in Holders :
    Holds(g) /\ Holds(h) /\ copy[g].token = copy[h].token => g = h

SupersededHasExpired ==
  \A h \in Holders :
    Holds(h) /\ copy[h].token < row.token => copy[h].expires <= now

CurrentPromise ==
  \A h \in Holders :
    Holds(h) /\ copy[h].token = row.token =>
      /\ copy[h].expires <= row.expires
      /\ ~row.released

IInv ==
  /\ TypeOK
  /\ CopiesArePast
  /\ OneCopyPerToken
  /\ SupersededHasExpired
  /\ CurrentPromise

USE DurationsAssumption, NoLeaseAssumption

(* What each statement writes.                                             *)
LEMMA HeartbeatenRow ==
  ASSUME NEW r \in LeaseRow, NEW at \in Nat, NEW expires \in Nat
  PROVE  /\ Heartbeaten(r, at, expires) \in LeaseRow
         /\ Heartbeaten(r, at, expires).token = r.token
         /\ Heartbeaten(r, at, expires).version = r.version + 1
         /\ Heartbeaten(r, at, expires).released = r.released
         /\ Heartbeaten(r, at, expires).expires = expires
<1>1. r.version + 1 \in Nat
  BY DEF LeaseRow
<1>2. Heartbeaten(r, at, expires) \in LeaseRow
  BY <1>1 DEF Heartbeaten, LeaseRow
<1> QED
  BY <1>2 DEF Heartbeaten, LeaseRow

LEMMA ReleasedRow ==
  ASSUME NEW r \in LeaseRow
  PROVE  /\ Released(r) \in LeaseRow
         /\ Released(r).token = r.token
         /\ Released(r).version = r.version + 1
<1>1. r.version + 1 \in Nat
  BY DEF LeaseRow
<1>2. Released(r) \in LeaseRow
  BY <1>1 DEF Released, LeaseRow
<1> QED
  BY <1>2 DEF Released, LeaseRow

LEMMA InitIInv == Init => IInv
BY DEF Init, IInv, TypeOK, CopiesArePast, OneCopyPerToken, SupersededHasExpired,
       CurrentPromise, Holds, NoRow, LeaseRow

LEMMA AcquireIInv ==
  ASSUME IInv, NEW h \in Holders, NEW at \in 0..now, NEW length \in Durations,
         Acquire(h, at, length)
  PROVE  IInv'
<1> USE DEF IInv, TypeOK, Holds
<1>1. row' \in LeaseRow /\ row'.token = row.token + 1 /\ row'.version = row.version + 1
      /\ ~row'.released
  BY DEF Acquire, Acquired, LeaseRow
<1>2. now' = now /\ (row.released \/ row.expires <= now)
  BY DEF Acquire, MayAcquire, LeaseRow
<1>3. copy' \in [Holders -> LeaseRow \cup {NoLease}]
  BY <1>1 DEF Acquire
<1>4. \A g \in Holders : copy'[g] = copy[g] \/ (g = h /\ copy'[g] = row')
  BY DEF Acquire
<1>5. \A g \in Holders : copy'[g] # NoLease => copy'[g] \in LeaseRow
  BY <1>3
<1>6. CopiesArePast'
  BY <1>1, <1>4, <1>5 DEF CopiesArePast, SameRevision, LeaseRow
<1>7. OneCopyPerToken'
  BY <1>1, <1>4, <1>5 DEF OneCopyPerToken, CopiesArePast, LeaseRow
<1>8. SupersededHasExpired'
  BY <1>1, <1>2, <1>4, <1>5
     DEF SupersededHasExpired, CurrentPromise, CopiesArePast, LeaseRow
<1>9. CurrentPromise'
  BY <1>1, <1>4, <1>5 DEF CurrentPromise, CopiesArePast, LeaseRow
<1> QED
  BY <1>1, <1>2, <1>3, <1>6, <1>7, <1>8, <1>9

LEMMA HeartbeatIInv ==
  ASSUME IInv, NEW h \in Holders, NEW at \in 0..now, NEW length \in Durations,
         Heartbeat(h, at, length)
  PROVE  IInv'
<1> USE DEF IInv, TypeOK, Holds
<1>1. row' \in LeaseRow /\ row'.token = row.token /\ row'.version = row.version + 1
      /\ row'.released = row.released /\ row.expires <= row'.expires
  <2>1. row \in LeaseRow /\ row.expires \in Nat /\ at \in Nat /\ at + length \in Nat
    BY DEF LeaseRow
  <2>2. row' = Heartbeaten(row, at, at + length) /\ row.expires < at + length
    BY DEF Heartbeat, MayHeartbeat
  <2>3. /\ Heartbeaten(row, at, at + length) \in LeaseRow
        /\ Heartbeaten(row, at, at + length).token = row.token
        /\ Heartbeaten(row, at, at + length).version = row.version + 1
        /\ Heartbeaten(row, at, at + length).released = row.released
        /\ Heartbeaten(row, at, at + length).expires = at + length
    BY <2>1, HeartbeatenRow
  <2>4. row'.expires = at + length
    BY <2>2, <2>3
  <2>5. row.expires <= row'.expires
    BY <2>1, <2>2, <2>4
  <2> QED
    BY <2>2, <2>3, <2>5
<1>2. now' = now /\ copy[h] # NoLease /\ copy[h].token = row.token
  BY DEF Heartbeat, MayHeartbeat, SameRevision
<1>3. copy' \in [Holders -> LeaseRow \cup {NoLease}]
  BY <1>1 DEF Heartbeat
<1>4. \A g \in Holders : copy'[g] = copy[g] \/ (g = h /\ copy'[g] = row')
  BY DEF Heartbeat
<1>5. \A g \in Holders : copy[g] # NoLease => copy[g] \in LeaseRow
  OBVIOUS
<1>6. CopiesArePast'
  BY <1>1, <1>4, <1>5 DEF CopiesArePast, SameRevision, LeaseRow
<1>7. OneCopyPerToken'
  BY <1>1, <1>2, <1>4 DEF OneCopyPerToken
<1>8. SupersededHasExpired'
  BY <1>1, <1>2, <1>4, <1>5 DEF SupersededHasExpired, LeaseRow
<1>9. CurrentPromise'
  BY <1>1, <1>2, <1>4, <1>5 DEF CurrentPromise, LeaseRow
<1> QED
  BY <1>1, <1>2, <1>3, <1>6, <1>7, <1>8, <1>9

LEMMA ReleaseIInv ==
  ASSUME IInv, NEW h \in Holders, NEW at \in 0..now, Release(h, at)
  PROVE  IInv'
<1> USE DEF IInv, TypeOK, Holds
<1>1. row' \in LeaseRow /\ row'.token = row.token /\ row'.version = row.version + 1
  BY ReleasedRow DEF Release
<1>2. now' = now /\ copy[h] # NoLease /\ copy[h].token = row.token
  BY DEF Release, MayRelease, SameRevision
<1>3. copy' \in [Holders -> LeaseRow \cup {NoLease}]
  BY DEF Release
<1>4. \A g \in Holders : copy'[g] # NoLease => copy'[g] = copy[g] /\ g # h
  BY DEF Release
<1>5. \A g \in Holders : copy[g] # NoLease => copy[g] \in LeaseRow
  OBVIOUS
<1>6. CopiesArePast'
  BY <1>1, <1>4, <1>5 DEF CopiesArePast, SameRevision, LeaseRow
<1>7. OneCopyPerToken'
  BY <1>4 DEF OneCopyPerToken
<1>8. SupersededHasExpired'
  BY <1>1, <1>2, <1>4 DEF SupersededHasExpired
<1>9. CurrentPromise'
  \* The only copy with the row's token was the releasing holder's.
  BY <1>1, <1>2, <1>4 DEF CurrentPromise, OneCopyPerToken
<1> QED
  BY <1>1, <1>2, <1>3, <1>6, <1>7, <1>8, <1>9

LEMMA NextIInv == IInv /\ [Next]_vars => IInv'
<1> SUFFICES ASSUME IInv, [Next]_vars PROVE IInv'
  OBVIOUS
<1>1. CASE UNCHANGED vars
  BY <1>1 DEF vars, IInv, TypeOK, CopiesArePast, OneCopyPerToken,
              SupersededHasExpired, CurrentPromise, Holds
<1>2. ASSUME NEW h \in Holders, Abandon(h) PROVE IInv'
  BY <1>2 DEF Abandon, IInv, TypeOK, CopiesArePast, OneCopyPerToken,
              SupersededHasExpired, CurrentPromise, Holds
<1>3. CASE Tick
  <2>1. \A h \in Holders : copy[h] # NoLease => copy[h] \in LeaseRow
    BY DEF IInv, TypeOK
  <2>2. SupersededHasExpired'
    BY <1>3, <2>1 DEF Tick, IInv, TypeOK, SupersededHasExpired, Holds, LeaseRow
  <2> QED
    BY <1>3, <2>2 DEF Tick, IInv, TypeOK, CopiesArePast, OneCopyPerToken,
                      CurrentPromise, Holds
<1> QED
  BY <1>1, <1>2, <1>3, AcquireIInv, HeartbeatIInv, ReleaseIInv DEF Next

LEMMA InvariantIInv == Spec => []IInv
BY InitIInv, NextIInv, PTL DEF Spec

(* The variables keep their types whatever the holders do.                 *)
THEOREM TypeCorrect == Spec => []TypeOK
<1>1. IInv => TypeOK
  BY DEF IInv
<1> QED
  BY <1>1, InvariantIInv, PTL

(* A lease holder that only looks at its own copy and the clock is never   *)
(* wrong about being alone, although heartbeats may be lost and successors *)
(* may already have taken the row over.                                    *)
THEOREM HoldersExclude == Spec => []MutualExclusion
<1>1. IInv => MutualExclusion
  <2> SUFFICES ASSUME IInv, NEW g \in Holders, NEW h \in Holders,
                      Believes(g), Believes(h)
               PROVE  g = h
    BY DEF MutualExclusion
  <2>1. copy[g] \in LeaseRow /\ copy[h] \in LeaseRow /\ row \in LeaseRow /\ now \in Nat
    BY DEF IInv, TypeOK, Believes, Holds
  <2>2. ~(copy[g].token < row.token) /\ ~(copy[h].token < row.token)
    BY <2>1 DEF IInv, SupersededHasExpired, Believes, ActiveAt, LeaseRow
  <2>3. copy[g].token = row.token /\ copy[h].token = row.token
    BY <2>1, <2>2 DEF IInv, CopiesArePast, Believes, LeaseRow
  <2> QED
    BY <2>3 DEF IInv, OneCopyPerToken, Believes
<1> QED
  BY <1>1, InvariantIInv, PTL

(* A holder that believes it may write is the committed row's owner and is *)
(* protected by it: a superseded copy has run out, and the current one     *)
(* promises no more than the row (is_active_at, on the holder's own copy). *)
THEOREM BeliefsAreBacked == Spec => []BeliefIsBacked
<1>1. IInv => BeliefIsBacked
  <2> SUFFICES ASSUME IInv, NEW h \in Holders, Believes(h)
               PROVE  copy[h].token = row.token /\ ActiveAt(row, now)
    BY DEF BeliefIsBacked
  <2>1. copy[h] \in LeaseRow /\ row \in LeaseRow /\ now \in Nat /\ now < copy[h].expires
    BY DEF IInv, TypeOK, Believes, Holds, ActiveAt
  <2>2. ~(copy[h].token < row.token)
    BY <2>1 DEF IInv, SupersededHasExpired, Believes, LeaseRow
  <2>3. copy[h].token = row.token
    BY <2>1, <2>2 DEF IInv, CopiesArePast, Believes, LeaseRow
  <2>4. copy[h].expires <= row.expires /\ ~row.released
    BY <2>3 DEF IInv, CurrentPromise, Believes
  <2> QED
    BY <2>1, <2>3, <2>4 DEF ActiveAt, LeaseRow
<1> QED
  BY <1>1, InvariantIInv, PTL

(* A revision number names one content of the row.                         *)
THEOREM RevisionsNameRows == Spec => []CopiesArePast
<1>1. IInv => CopiesArePast
  BY DEF IInv
<1> QED
  BY <1>1, InvariantIInv, PTL

(* The next owner starts only after the last one has released or run out.  *)
THEOREM OwnersHandOver == Spec => HandOver
<1>1. IInv /\ [Next]_vars =>
        [row'.token # row.token => row'.token = row.token + 1 /\ ~ActiveAt(row, now)]_vars
  <2> SUFFICES ASSUME IInv, Next, row'.token # row.token
               PROVE  row'.token = row.token + 1 /\ ~ActiveAt(row, now)
    BY DEF vars
  <2>1. ASSUME NEW h \in Holders, NEW at \in 0..now, NEW length \in Durations,
               Acquire(h, at, length)
        PROVE  row'.token = row.token + 1 /\ ~ActiveAt(row, now)
    BY <2>1 DEF Acquire, Acquired, MayAcquire, ActiveAt, IInv, TypeOK, LeaseRow
  <2>2. ASSUME NEW h \in Holders, NEW at \in 0..now, NEW length \in Durations,
               Heartbeat(h, at, length)
        PROVE  FALSE
    BY <2>2 DEF Heartbeat, Heartbeaten, IInv, TypeOK, LeaseRow
  <2>3. ASSUME NEW h \in Holders, NEW at \in 0..now, Release(h, at) PROVE FALSE
    BY <2>3 DEF Release, Released, IInv, TypeOK, LeaseRow
  <2> QED
    BY <2>1, <2>2, <2>3 DEF Next, Abandon, Tick
<1> QED
  BY <1>1, InvariantIInv, PTL DEF Spec, HandOver
=============================================================================
