-------------------------- MODULE DarkPoolTheorems --------------------------
(***************************************************************************)
(* Proofs about DarkPool, for any servers, signers, authorizations and     *)
(* settings that satisfy its assumptions.                                  *)
(***************************************************************************)
EXTENDS DarkPoolProps, BasicLemmas

LEMMA AuthFacts ==
  ASSUME NEW a \in Auths
  PROVE  a.signer \in Signers /\ a.validBefore \in Int
  BY PoolNames DEF PoolNames

LEMMA BoundFacts ==
  /\ MaxTime \in Nat /\ Capacity \in Nat /\ Capacity >= 1
  /\ Refill \in Nat /\ Refill >= 1 /\ None \notin Auths
  BY PoolBounds, PoolNames DEF PoolBounds, PoolNames

LEMMA RequestFacts ==
  ASSUME NEW r \in Requests
  PROVE  r.auth \in Auths /\ r.trace \in Traces \cup {None}
  BY DEF Requests

-----------------------------------------------------------------------------
(***************************************************************************)
(* Helpers: the two statements that change the table, and the limiter.     *)
(***************************************************************************)
LEMMA AddedRows ==
  ASSUME NEW a \in Auths, nonces \subseteq Rows
  PROVE  Added(Key(a), a.validBefore) \subseteq Rows
  BY DEF Added, Rows

LEMMA PurgedRows == Purged \subseteq nonces
  BY DEF Purged

\* A bucket that was refilled in the past stays within its capacity.
LEMMA NewBucket ==
  ASSUME now \in Times, NEW b \in Buckets, b.last <= now
  PROVE  Consumed(b) \in Buckets /\ Consumed(b).last = now
  <1>1. b.tokens \in 0 .. Capacity /\ b.last \in Times
    BY DEF Buckets
  <1>2. now \in Int /\ b.last \in Int /\ b.tokens \in Int /\ b.tokens >= 0
    BY <1>1, BoundFacts DEF Times
  <1>3. (now - b.last) * Refill \in Nat
    <2>1. now - b.last \in Nat
      BY <1>2
    <2>2. \A m, n \in Nat : m * n \in Nat
      OBVIOUS
    <2> QED BY <2>1, <2>2, BoundFacts
  <1>4. Tokens(b) \in 0 .. Capacity
    <2> DEFINE gain == (now - b.last) * Refill
    <2>1. gain \in Nat
      BY <1>3
    <2>2. Tokens(b) = IF b.tokens + gain < Capacity THEN b.tokens + gain ELSE Capacity
      BY DEF Tokens
    <2> HIDE DEF gain
    <2> QED BY <1>2, <2>1, <2>2, BoundFacts
  <1>5. (IF Enough(b) THEN Tokens(b) - 1 ELSE Tokens(b)) \in 0 .. Capacity
    BY <1>4, BoundFacts DEF Enough
  <1> QED BY <1>5 DEF Consumed, Buckets

\* Replacing one entry of a two-level table.
LEMMA NestedUpdate ==
  ASSUME NEW A, NEW B, NEW C, NEW f \in [A -> [B -> C]], NEW x \in A, NEW y \in B,
         NEW v \in C
  PROVE  [f EXCEPT ![x][y] = v] \in [A -> [B -> C]]
  OBVIOUS

-----------------------------------------------------------------------------
(***************************************************************************)
(* The types.  A busy server has a request, and no bucket was refilled in  *)
(* the future: without these two the types are not inductive.              *)
(***************************************************************************)
BusyServersHaveRequests ==
  \A s \in Servers : stage[s] # "idle" => request[s] \in Requests

BucketsAreDue ==
  \A s \in Servers, p \in Signers : buckets[s][p].last <= now

TypeInv == PoolTypeOK /\ BusyServersHaveRequests /\ BucketsAreDue

LEMMA TypeInit == Init => TypeInv
  <1> SUFFICES ASSUME Init PROVE TypeInv
    OBVIOUS
  <1>1. now \in Times /\ 0 \in Int
    BY BoundFacts DEF Init, Times
  <1>2. FullBuckets \in [Signers -> Buckets]
    BY <1>1, BoundFacts DEF FullBuckets, Buckets
  <1>3. NoGrants \in [Signers -> [Times -> Nat]]
    BY DEF NoGrants
  <1>4. BucketsAreDue
    BY <1>1 DEF Init, FullBuckets, BucketsAreDue
  <1>5. BusyServersHaveRequests
    BY DEF Init, BusyServersHaveRequests
  <1>6. PoolTypeOK
    BY <1>1, <1>2, <1>3 DEF Init, PoolTypeOK, Stages
  <1> QED BY <1>4, <1>5, <1>6 DEF TypeInv

LEMMA FinishKeepsTypes ==
  ASSUME TypeInv, NEW s \in Servers, Finish(s)
  PROVE  /\ stage' \in [Servers -> Stages]
         /\ request' \in [Servers -> Requests \cup {None}]
         /\ BusyServersHaveRequests'
  BY DEF Finish, TypeInv, PoolTypeOK, BusyServersHaveRequests, Stages

\* The limiter's step, and what a refill makes of a bucket.
LEMMA ConsumeKeepsTypes ==
  ASSUME TypeInv, NEW s \in Servers, stage[s] # "idle", Consume(s), now' = now
  PROVE  /\ buckets' \in [Servers -> [Signers -> Buckets]] /\ BucketsAreDue'
         /\ grants' \in [Servers -> [Signers -> [Times -> Nat]]]
  <1> DEFINE p == request[s].auth.signer
             b == buckets[s][p]
  <1>1. p \in Signers /\ now \in Times
    BY AuthFacts, RequestFacts DEF TypeInv, PoolTypeOK, BusyServersHaveRequests
  <1>2. b \in Buckets /\ b.last <= now
    BY <1>1 DEF TypeInv, PoolTypeOK, BucketsAreDue
  <1>3. buckets' = [buckets EXCEPT ![s][p] = Consumed(b)] /\ now' = now
    BY DEF Consume
  <1>4. buckets' \in [Servers -> [Signers -> Buckets]] /\ BucketsAreDue'
    <2>1. Consumed(b) \in Buckets /\ Consumed(b).last = now
      BY <1>1, <1>2, NewBucket
    <2> HIDE DEF b, p
    <2>2. now <= now
      BY <1>1, BoundFacts DEF Times
    <2> QED BY <1>1, <1>3, <2>1, <2>2 DEF TypeInv, PoolTypeOK, BucketsAreDue
  <1>5. grants' \in [Servers -> [Signers -> [Times -> Nat]]]
    <2>1. grants \in [Servers -> [Signers -> [Times -> Nat]]]
      BY DEF TypeInv, PoolTypeOK
    <2>2. grants' = grants \/ grants' = [grants EXCEPT ![s][p][now] = @ + 1]
      BY DEF Consume
    <2>3. grants[s][p] \in [Times -> Nat] /\ grants[s][p][now] + 1 \in Nat
      BY <1>1, <2>1
    <2>4. [grants[s][p] EXCEPT ![now] = grants[s][p][now] + 1] \in [Times -> Nat]
      BY <2>3
    <2>5. [grants EXCEPT ![s][p] = [grants[s][p] EXCEPT ![now] = grants[s][p][now] + 1]]
            \in [Servers -> [Signers -> [Times -> Nat]]]
      BY <1>1, <2>1, <2>4, NestedUpdate
    <2>6. [grants EXCEPT ![s][p][now] = @ + 1]
            = [grants EXCEPT ![s][p] =
                 [grants[s][p] EXCEPT ![now] = grants[s][p][now] + 1]]
      BY <1>1, <2>1
    <2> QED BY <2>1, <2>2, <2>5, <2>6
  <1> QED BY <1>4, <1>5

LEMMA AdmitKeepsTypes ==
  ASSUME TypeInv, NEW s \in Servers, Admit(s)
  PROVE  TypeInv'
  <1>1. stage[s] = "timely" /\ UNCHANGED <<now, nonces, entries, served, lost>>
    BY DEF Admit
  <1>2. /\ stage' \in [Servers -> Stages]
        /\ request' \in [Servers -> Requests \cup {None}]
        /\ BusyServersHaveRequests'
    <2>1. CASE Finish(s)
      BY <2>1, FinishKeepsTypes
    <2>2. CASE stage' = [stage EXCEPT ![s] = "admitted"] /\ UNCHANGED request
      BY <1>1, <2>2 DEF TypeInv, PoolTypeOK, BusyServersHaveRequests, Stages
    <2> QED BY <2>1, <2>2 DEF Admit
  <1>3. /\ buckets' \in [Servers -> [Signers -> Buckets]] /\ BucketsAreDue'
        /\ grants' \in [Servers -> [Signers -> [Times -> Nat]]]
    <2>1. CASE Consume(s)
      BY <1>1, <2>1, ConsumeKeepsTypes
    <2>2. CASE UNCHANGED <<buckets, grants>>
      BY <1>1, <2>2 DEF TypeInv, PoolTypeOK, BucketsAreDue
    <2> QED BY <2>1, <2>2 DEF Admit
  <1> QED BY <1>1, <1>2, <1>3 DEF TypeInv, PoolTypeOK

LEMMA TypeStep == TypeInv /\ [Next]_vars => TypeInv'
  <1> SUFFICES ASSUME TypeInv, [Next]_vars PROVE TypeInv'
    OBVIOUS
  <1> USE DEF TypeInv
  <1>0. ASSUME NEW s \in Servers, NEW r \in Requests, TakeUp(s, r)
        PROVE  TypeInv'
    BY <1>0 DEF TakeUp, PoolTypeOK, BusyServersHaveRequests, BucketsAreDue, Stages
  <1>1. ASSUME NEW s \in Servers, Admit(s)
        PROVE  TypeInv'
    BY <1>1, AdmitKeepsTypes
  <1>2. ASSUME NEW s \in Servers, Check(s)
        PROVE  TypeInv'
    <2>1. CASE Finish(s)
      BY <1>2, <2>1, FinishKeepsTypes DEF Check, PoolTypeOK, BucketsAreDue
    <2>2. CASE stage' = [stage EXCEPT ![s] = "fresh"] /\ UNCHANGED request
      BY <1>2, <2>2 DEF Check, PoolTypeOK, BusyServersHaveRequests, BucketsAreDue,
                        Stages
    <2> QED BY <1>2, <2>1, <2>2 DEF Check
  <1>3. ASSUME NEW s \in Servers, Insert(s)
        PROVE  TypeInv'
    <2>1. request[s].auth \in Auths
      BY <1>3, RequestFacts DEF Insert, BusyServersHaveRequests
    <2>2. nonces' \subseteq Rows
      BY <1>3, <2>1, AddedRows DEF Insert, PoolTypeOK
    <2> QED BY <1>3, <2>2 DEF Insert, PoolTypeOK, BusyServersHaveRequests,
                              BucketsAreDue, Stages
  <1>4. ASSUME NEW s \in Servers, Respond(s)
        PROVE  TypeInv'
    <2>1. request[s].auth \in Auths /\ request[s].trace \in Traces \cup {None}
      BY <1>4, RequestFacts DEF Respond, BusyServersHaveRequests
    <2>2. entries' \in [Servers -> [Traces -> Auths \cup {None}]]
      BY <1>4, <2>1 DEF Respond, PoolTypeOK
    <2>3. served' \subseteq Auths
      BY <1>4, <2>1 DEF Respond, PoolTypeOK
    <2>4. Finish(s) /\ UNCHANGED <<now, nonces, buckets, lost, grants>>
      BY <1>4 DEF Respond
    <2> QED BY <2>2, <2>3, <2>4, FinishKeepsTypes DEF PoolTypeOK, BucketsAreDue
  <1>5. ASSUME NEW s \in Servers, Purge(s)
        PROVE  TypeInv'
    BY <1>5, PurgedRows DEF Purge, PoolTypeOK, BusyServersHaveRequests, BucketsAreDue
  <1>6. ASSUME NEW s \in Servers, Restart(s)
        PROVE  TypeInv'
    <2>1. Finish(s) /\ UNCHANGED <<now, served>> /\ nonces' = Purged
      BY <1>6 DEF Restart
    <2>2. lost' \subseteq Auths
      <3>1. CASE stage[s] = "committed"
        BY <1>6, <3>1, RequestFacts DEF Restart, PoolTypeOK, BusyServersHaveRequests
      <3>2. CASE stage[s] # "committed"
        BY <1>6, <3>2 DEF Restart, PoolTypeOK
      <3> QED BY <3>1, <3>2
    <2>3. FullBuckets \in [Signers -> Buckets]
      BY BoundFacts DEF FullBuckets, Buckets, PoolTypeOK
    <2>4. buckets' \in [Servers -> [Signers -> Buckets]]
      BY <1>6, <2>3 DEF Restart, PoolTypeOK
    <2>5. BucketsAreDue'
      <3>1. now \in Int
        BY BoundFacts DEF PoolTypeOK, Times
      <3>2. \A p \in Signers : FullBuckets[p].last <= now
        BY <3>1 DEF FullBuckets
      <3>3. buckets' = [buckets EXCEPT ![s] = FullBuckets] /\ now' = now
        BY <1>6 DEF Restart
      <3> QED BY <3>2, <3>3 DEF BucketsAreDue, PoolTypeOK
    <2>6. grants' \in [Servers -> [Signers -> [Times -> Nat]]]
      BY <1>6 DEF Restart, NoGrants, PoolTypeOK
    <2>7. entries' \in [Servers -> [Traces -> Auths \cup {None}]]
      BY <1>6 DEF Restart, PoolTypeOK
    <2> QED BY <2>1, <2>2, <2>4, <2>5, <2>6, <2>7, FinishKeepsTypes, PurgedRows
            DEF PoolTypeOK
  <1>7. CASE Tick
    <2>1. now \in Int /\ now >= 0 /\ now' = now + 1 /\ now' \in Times
      BY <1>7, BoundFacts DEF Tick, PoolTypeOK, Times
    <2>2. BucketsAreDue'
      <3>1. UNCHANGED buckets
        BY <1>7 DEF Tick
      <3>2. ASSUME NEW s \in Servers, NEW p \in Signers
            PROVE  buckets'[s][p].last <= now'
        <4>1. buckets[s][p].last \in Int /\ buckets[s][p].last <= now
          BY BoundFacts DEF PoolTypeOK, BucketsAreDue, Buckets, Times
        <4> QED BY <2>1, <3>1, <4>1
      <3> QED BY <3>2 DEF BucketsAreDue
    <2> QED BY <1>7, <2>1, <2>2 DEF Tick, PoolTypeOK, BusyServersHaveRequests
  <1>8. CASE UNCHANGED vars
    BY <1>8 DEF vars, PoolTypeOK, BusyServersHaveRequests, BucketsAreDue
  <1> QED BY <1>0, <1>1, <1>2, <1>3, <1>4, <1>5, <1>6, <1>7, <1>8 DEF Next, Handle

\* The types hold in every reachable state: no bucket is ever overdrawn, and
\* the table holds only rows that came from an authorization.
THEOREM PoolTypeCorrect == Spec => []PoolTypeOK
  <1>1. TypeInv => PoolTypeOK
    BY DEF TypeInv
  <1> QED BY <1>1, TypeInit, TypeStep, PTL DEF Spec

-----------------------------------------------------------------------------
(***************************************************************************)
(* An answered authorization stays spent.  While nothing under its nonce   *)
(* has expired, the table has a row for what has been answered and for     *)
(* what is about to be; clients may sign several authorizations under one  *)
(* nonce, and the row keeps the expiry of the first that is committed.     *)
(***************************************************************************)
Remembered(a) == ~SomeExpired(Key(a)) => Has(Key(a))

RowsAreReal ==
  \A row \in nonces : \E a \in Auths :
    row.key = Key(a) /\ row.expires_at = a.validBefore

AnsweredAreRemembered == \A a \in served : Remembered(a)

CommittedAreRemembered ==
  \A s \in Servers : stage[s] = "committed" => Remembered(request[s].auth)

SpentInv ==
  TypeInv /\ RowsAreReal /\ AnsweredAreRemembered /\ CommittedAreRemembered

LEMMA PurgeRemembers ==
  ASSUME TypeInv, RowsAreReal, nonces' = Purged, now' = now,
         NEW a, Remembered(a)
  PROVE  Remembered(a)'
  <1> SUFFICES ASSUME ~SomeExpired(Key(a))' PROVE Has(Key(a))'
    BY DEF Remembered
  <1>1. ~SomeExpired(Key(a))
    BY DEF SomeExpired, Key
  <1>2. PICK row \in nonces : row.key = Key(a)
    BY <1>1 DEF Remembered, Has
  <1>3. PICK c \in Auths : row.key = Key(c) /\ row.expires_at = c.validBefore
    BY DEF RowsAreReal
  <1>4. now \in Int /\ c.validBefore \in Int
    BY AuthFacts, BoundFacts DEF TypeInv, PoolTypeOK, Times
  <1>5. ~(c.validBefore <= now)
    BY <1>1, <1>2, <1>3 DEF SomeExpired
  <1>6. row \in nonces'
    BY <1>3, <1>4, <1>5 DEF Purged
  <1> QED BY <1>2, <1>6 DEF Has, Key

LEMMA InsertRemembers ==
  ASSUME RowsAreReal, NEW a \in Auths, now' = now,
         nonces' = Added(Key(a), a.validBefore)
  PROVE  /\ RowsAreReal' /\ Remembered(a)'
         /\ \A b : Remembered(b) => Remembered(b)'
  <1> DEFINE new == [key |-> Key(a), expires_at |-> a.validBefore]
  <1>1. \/ Has(Key(a)) /\ nonces' = nonces
        \/ nonces' = nonces \cup {new}
    BY DEF Added
  <1>2. new.key = Key(a) /\ new.expires_at = a.validBefore
    OBVIOUS
  <1> HIDE DEF new
  <1>3. RowsAreReal'
    BY <1>1, <1>2 DEF RowsAreReal, Key
  <1>4. Has(Key(a))'
    BY <1>1, <1>2 DEF Has, Key
  <1>5. \A b : Has(Key(b)) => Has(Key(b))'
    BY <1>1 DEF Has, Key
  <1>6. \A b : SomeExpired(Key(b)) => SomeExpired(Key(b))'
    BY DEF SomeExpired, Key
  <1> QED BY <1>3, <1>4, <1>5, <1>6 DEF Remembered

LEMMA SpentInit == Init => SpentInv
  BY TypeInit DEF Init, SpentInv, RowsAreReal, AnsweredAreRemembered,
                  CommittedAreRemembered

LEMMA SpentStep == SpentInv /\ [Next]_vars => SpentInv'
  <1> SUFFICES ASSUME SpentInv, [Next]_vars PROVE SpentInv'
    OBVIOUS
  <1>0. TypeInv /\ TypeInv' /\ RowsAreReal /\ served \subseteq Auths
    BY TypeStep DEF SpentInv, TypeInv, PoolTypeOK
  <1>busy. \A s \in Servers : stage[s] # "idle" => request[s].auth \in Auths
    BY <1>0, RequestFacts DEF TypeInv, BusyServersHaveRequests
  <1>quiet. ASSUME UNCHANGED <<now, nonces, served>>,
                   \A u \in Servers : stage'[u] = "committed" =>
                     stage[u] = "committed" /\ request'[u] = request[u]
            PROVE  SpentInv'
    BY <1>0, <1>quiet DEF SpentInv, RowsAreReal, AnsweredAreRemembered,
               CommittedAreRemembered, Remembered, SomeExpired, Has, Key
  <1>take. ASSUME NEW s \in Servers, NEW r \in Requests, TakeUp(s, r)
           PROVE  SpentInv'
    BY <1>0, <1>take, <1>quiet DEF TakeUp, TypeInv, PoolTypeOK
  <1>1. ASSUME NEW s \in Servers, Admit(s)
        PROVE  SpentInv'
    <2>1. CASE Finish(s)
      BY <1>0, <1>1, <2>1, <1>quiet DEF Admit, Finish, TypeInv, PoolTypeOK
    <2>2. CASE stage' = [stage EXCEPT ![s] = "admitted"] /\ UNCHANGED request
      BY <1>0, <1>1, <2>2, <1>quiet DEF Admit, TypeInv, PoolTypeOK
    <2> QED BY <1>1, <2>1, <2>2 DEF Admit
  <1>2. ASSUME NEW s \in Servers, Check(s)
        PROVE  SpentInv'
    <2>1. CASE Finish(s)
      BY <1>0, <1>2, <2>1, <1>quiet DEF Check, Finish, TypeInv, PoolTypeOK
    <2>2. CASE stage' = [stage EXCEPT ![s] = "fresh"] /\ UNCHANGED request
      BY <1>0, <1>2, <2>2, <1>quiet DEF Check, TypeInv, PoolTypeOK
    <2> QED BY <1>2, <2>1, <2>2 DEF Check
  <1>3. ASSUME NEW s \in Servers, Insert(s)
        PROVE  SpentInv'
    <2> DEFINE a == request[s].auth
    <2>1. /\ a \in Auths /\ nonces' = Added(Key(a), a.validBefore)
          /\ stage' = [stage EXCEPT ![s] = "committed"]
          /\ UNCHANGED <<now, request, served>>
      BY <1>3, <1>busy DEF Insert
    <2>2. RowsAreReal' /\ Remembered(a)' /\ \A b : Remembered(b) => Remembered(b)'
      BY <1>0, <2>1, InsertRemembers
    <2>3. \A u \in Servers : stage'[u] = "committed" => stage[u] = "committed" \/ u = s
      BY <1>0, <2>1 DEF TypeInv, PoolTypeOK
    <2>4. CommittedAreRemembered'
      <3> SUFFICES ASSUME NEW u \in Servers, stage'[u] = "committed"
                   PROVE  Remembered(request[u].auth)'
        BY DEF CommittedAreRemembered
      <3>1. CASE u = s
        BY <2>1, <2>2, <3>1 DEF Remembered, SomeExpired, Has, Key
      <3>2. CASE stage[u] = "committed"
        <4>1. Remembered(request[u].auth)
          BY <3>2 DEF SpentInv, CommittedAreRemembered
        <4>2. request'[u] = request[u]
          BY <2>1
        <4> QED BY <2>1, <2>2, <4>1, <4>2 DEF Remembered, SomeExpired, Has, Key
      <3> QED BY <2>3, <3>1, <3>2
    <2>5. AnsweredAreRemembered'
      BY <2>1, <2>2 DEF SpentInv, AnsweredAreRemembered
    <2> QED BY <1>0, <2>2, <2>4, <2>5 DEF SpentInv
  <1>4. ASSUME NEW s \in Servers, Respond(s)
        PROVE  SpentInv'
    <2>1. /\ stage[s] = "committed" /\ served' = served \cup {request[s].auth}
          /\ Finish(s) /\ UNCHANGED <<now, nonces>>
      BY <1>4 DEF Respond
    <2>2. Remembered(request[s].auth)
      BY <2>1 DEF SpentInv, CommittedAreRemembered
    <2>3. \A u \in Servers : stage'[u] = "committed" =>
            stage[u] = "committed" /\ request'[u] = request[u]
      BY <1>0, <2>1 DEF TypeInv, PoolTypeOK, Finish
    <2> QED BY <1>0, <2>1, <2>2, <2>3 DEF SpentInv, RowsAreReal, AnsweredAreRemembered,
               CommittedAreRemembered, Remembered, SomeExpired, Has, Key
  <1>5. ASSUME NEW s \in Servers, nonces' = Purged,
               UNCHANGED <<now, served>>,
               UNCHANGED <<stage, request>> \/ Finish(s)
        PROVE  SpentInv'
    <2>1. \A a \in Auths : Remembered(a) => Remembered(a)'
      BY <1>0, <1>5, PurgeRemembers
    <2>2. \A u \in Servers : stage'[u] = "committed" =>
            stage[u] = "committed" /\ request'[u] = request[u]
      BY <1>0, <1>5 DEF TypeInv, PoolTypeOK, Finish
    <2>3. RowsAreReal'
      BY <1>0, <1>5, PurgedRows DEF RowsAreReal, Key
    <2>4. CommittedAreRemembered'
      <3> SUFFICES ASSUME NEW u \in Servers, stage'[u] = "committed"
                   PROVE  Remembered(request[u].auth)'
        BY DEF CommittedAreRemembered
      <3>1. stage[u] = "committed" /\ request'[u] = request[u]
        BY <2>2
      <3>2. Remembered(request[u].auth) /\ request[u].auth \in Auths
        BY <1>busy, <3>1 DEF SpentInv, CommittedAreRemembered
      <3> QED BY <2>1, <3>1, <3>2 DEF Remembered, SomeExpired, Has, Key
    <2>5. AnsweredAreRemembered'
      BY <1>0, <1>5, <2>1 DEF SpentInv, AnsweredAreRemembered
    <2> QED BY <1>0, <2>3, <2>4, <2>5 DEF SpentInv, Remembered, SomeExpired, Has, Key
  <1>6. ASSUME NEW s \in Servers, Purge(s)
        PROVE  SpentInv'
    BY <1>5, <1>6 DEF Purge
  <1>7. ASSUME NEW s \in Servers, Restart(s)
        PROVE  SpentInv'
    BY <1>5, <1>7 DEF Restart
  <1>8. CASE Tick
    <2>1. now \in Int /\ now' = now + 1 /\ UNCHANGED <<nonces, stage, request, served>>
      BY <1>0, <1>8, BoundFacts DEF Tick, TypeInv, PoolTypeOK, Times
    <2>2. \A a \in Auths : Remembered(a) => Remembered(a)'
      <3> TAKE a \in Auths
      <3>1. \A c \in Auths : c.validBefore \in Int
        BY AuthFacts
      <3>2. \A c \in Auths : c.validBefore <= now => c.validBefore <= now'
        BY <2>1, <3>1
      <3> QED BY <2>1, <3>2 DEF Remembered, SomeExpired, Has, Key
    <2>3. CommittedAreRemembered'
      <3> SUFFICES ASSUME NEW u \in Servers, stage'[u] = "committed"
                   PROVE  Remembered(request[u].auth)'
        BY DEF CommittedAreRemembered
      <3>1. Remembered(request[u].auth) /\ request[u].auth \in Auths
        BY <1>busy, <2>1 DEF SpentInv, CommittedAreRemembered
      <3> QED BY <2>1, <2>2, <3>1 DEF Remembered, SomeExpired, Has, Key
    <2> QED BY <1>0, <2>1, <2>2, <2>3 DEF SpentInv, RowsAreReal, AnsweredAreRemembered,
               CommittedAreRemembered, Remembered, SomeExpired, Has, Key
  <1>9. CASE UNCHANGED vars
    BY <1>0, <1>9 DEF vars, SpentInv, AnsweredAreRemembered, CommittedAreRemembered,
                        RowsAreReal, Remembered, SomeExpired, Has, Key
  <1> QED BY <1>take, <1>1, <1>2, <1>3, <1>4, <1>6, <1>7, <1>8, <1>9 DEF Next, Handle

\* Only Admit admits a request, and it refuses one whose row is in the table.
LEMMA AdmissionIsFresh ==
  ASSUME SpentInv, [Next]_vars
  PROVE  \A s \in Servers : Admits(s) /\ request'[s].auth \in served =>
           SomeExpired(Key(request'[s].auth))
  <1> SUFFICES ASSUME NEW s \in Servers, Admits(s), request'[s].auth \in served
               PROVE  SomeExpired(Key(request'[s].auth))
    OBVIOUS
  <1>0. /\ stage \in [Servers -> Stages]
        /\ request \in [Servers -> Requests \cup {None}]
    BY DEF SpentInv, TypeInv, PoolTypeOK
  <1>1. stage[s] = "timely" /\ stage'[s] = "admitted"
    BY DEF Admits
  <1>2. Admit(s)
    <2>1. ASSUME NEW u \in Servers, Admit(u)
          PROVE  u = s
      BY <1>0, <1>1, <2>1 DEF Admit, Finish
    <2>2. ASSUME NEW u \in Servers,
                 \/ \E r \in Requests : TakeUp(u, r)
                 \/ Check(u) \/ Insert(u) \/ Respond(u) \/ Purge(u) \/ Restart(u)
          PROVE  FALSE
      BY <1>0, <1>1, <2>2 DEF TakeUp, Check, Insert, Respond, Purge, Restart, Finish
    <2>3. ~Tick /\ vars' # vars
      BY <1>1 DEF Tick, vars
    <2> QED BY <2>1, <2>2, <2>3 DEF Next, Handle
  <1>3. ~Has(Key(request[s].auth)) /\ request' = request
    BY <1>0, <1>1, <1>2 DEF Admit, Finish
  <1>4. Remembered(request[s].auth)
    BY <1>3 DEF SpentInv, AnsweredAreRemembered
  <1> QED BY <1>3, <1>4 DEF Remembered

\* An answered authorization is never admitted again, by any server, through
\* any crash and any purge, before something under its nonce has expired.
THEOREM AnsweredStaysSpent == Spec => AnsweredIsSpent
  <1>1. SpentInv /\ [Next]_vars =>
          [\A s \in Servers : Admits(s) /\ request'[s].auth \in served =>
             SomeExpired(Key(request'[s].auth))]_vars
    BY AdmissionIsFresh
  <1> QED BY SpentInit, SpentStep, <1>1, PTL DEF Spec, AnsweredIsSpent

-----------------------------------------------------------------------------
(***************************************************************************)
(* A nonce is burnt only for an answer.                                    *)
(***************************************************************************)
LEMMA BurntInit == Init => NoncesBurnOnlyForService
  BY DEF Init, NoncesBurnOnlyForService

LEMMA BurntStep ==
  TypeInv /\ NoncesBurnOnlyForService /\ [Next]_vars => NoncesBurnOnlyForService'
  <1> SUFFICES ASSUME TypeInv, NoncesBurnOnlyForService, [Next]_vars
               PROVE  NoncesBurnOnlyForService'
    OBVIOUS
  <1>0. /\ stage \in [Servers -> Stages]
        /\ request \in [Servers -> Requests \cup {None}]
        /\ \A s \in Servers : stage[s] # "idle" => request[s].auth \in Auths
    BY RequestFacts DEF TypeInv, PoolTypeOK, BusyServersHaveRequests
  <1>keep. ASSUME \A row \in nonces' : row \in nonces,
                  \A a \in Auths : Burnt(a) => Burnt(a)'
           PROVE  NoncesBurnOnlyForService'
    BY <1>keep DEF NoncesBurnOnlyForService, Key, Burnt
  <1>take. ASSUME NEW s \in Servers, NEW r \in Requests, TakeUp(s, r)
           PROVE  NoncesBurnOnlyForService'
    BY <1>0, <1>take, <1>keep DEF TakeUp, Burnt
  <1>1. ASSUME NEW s \in Servers, Admit(s)
        PROVE  NoncesBurnOnlyForService'
    BY <1>0, <1>1, <1>keep DEF Admit, Finish, Burnt
  <1>2. ASSUME NEW s \in Servers, Check(s)
        PROVE  NoncesBurnOnlyForService'
    BY <1>0, <1>2, <1>keep DEF Check, Finish, Burnt
  <1>3. ASSUME NEW s \in Servers, Insert(s)
        PROVE  NoncesBurnOnlyForService'
    <2> DEFINE a == request[s].auth
    <2>1. /\ a \in Auths /\ nonces' = Added(Key(a), a.validBefore)
          /\ stage' = [stage EXCEPT ![s] = "committed"]
          /\ UNCHANGED <<request, served, lost>>
      BY <1>0, <1>3 DEF Insert
    <2>2. Burnt(a)' /\ \A b \in Auths : Burnt(b) => Burnt(b)'
      BY <1>0, <2>1 DEF Burnt
    <2>3. \A row \in nonces' : row \in nonces \/ row.key = Key(a)
      BY <2>1 DEF Added
    <2> QED BY <2>1, <2>2, <2>3 DEF NoncesBurnOnlyForService, Burnt, Key
  <1>4. ASSUME NEW s \in Servers, Respond(s)
        PROVE  NoncesBurnOnlyForService'
    BY <1>0, <1>4, <1>keep DEF Respond, Finish, Burnt
  <1>5. ASSUME NEW s \in Servers, Purge(s)
        PROVE  NoncesBurnOnlyForService'
    BY <1>0, <1>5, <1>keep, PurgedRows DEF Purge, Burnt
  <1>6. ASSUME NEW s \in Servers, Restart(s)
        PROVE  NoncesBurnOnlyForService'
    BY <1>0, <1>6, <1>keep, PurgedRows DEF Restart, Finish, Burnt
  <1>7. CASE Tick
    BY <1>7, <1>keep DEF Tick, Burnt
  <1>8. CASE UNCHANGED vars
    BY <1>8, <1>keep DEF vars, Burnt
  <1> QED BY <1>take, <1>1, <1>2, <1>3, <1>4, <1>5, <1>6, <1>7, <1>8 DEF Next, Handle

\* In every reachable state a row of the table stands for an authorization
\* that was answered, is about to be, or whose server died in between.
THEOREM NoncesAreBurntForService == Spec => []NoncesBurnOnlyForService
  BY TypeInit, TypeStep, BurntInit, BurntStep, PTL DEF Spec

-----------------------------------------------------------------------------
(***************************************************************************)
(* A paid write is not overwritten: between the check of its trace and its *)
(* write no other request of the same server gets in.                      *)
(***************************************************************************)
TracesAreFree ==
  \A s \in Servers : stage[s] \notin {"idle", "timely"} /\ request[s].trace # None =>
    entries[s][request[s].trace] = None

LEMMA FreeInit == Init => TracesAreFree
  BY DEF Init, TracesAreFree

LEMMA FreeStep == TypeInv /\ TracesAreFree /\ [Next]_vars => TracesAreFree'
  <1> SUFFICES ASSUME TypeInv, TracesAreFree, [Next]_vars PROVE TracesAreFree'
    OBVIOUS
  <1>0. /\ stage \in [Servers -> Stages]
        /\ request \in [Servers -> Requests \cup {None}]
        /\ entries \in [Servers -> [Traces -> Auths \cup {None}]]
        /\ \A s \in Servers :
             stage[s] # "idle" => request[s].trace \in Traces \cup {None}
    BY RequestFacts DEF TypeInv, PoolTypeOK, BusyServersHaveRequests
  <1>take. ASSUME NEW s \in Servers, NEW r \in Requests, TakeUp(s, r)
           PROVE  TracesAreFree'
    BY <1>0, <1>take DEF TakeUp, TracesAreFree
  <1>1. ASSUME NEW s \in Servers, Admit(s)
        PROVE  TracesAreFree'
    <2>1. UNCHANGED entries
      BY <1>1 DEF Admit
    <2>2. CASE Finish(s)
      BY <1>0, <2>1, <2>2 DEF Finish, TracesAreFree
    <2>3. CASE Cleared(s) /\ stage' = [stage EXCEPT ![s] = "admitted"] /\ UNCHANGED request
      BY <1>0, <2>1, <2>3 DEF TracesAreFree, Cleared, Taken
    <2> QED BY <1>1, <2>2, <2>3 DEF Admit
  <1>2. ASSUME NEW s \in Servers, Check(s)
        PROVE  TracesAreFree'
    BY <1>0, <1>2 DEF Check, Finish, TracesAreFree
  <1>3. ASSUME NEW s \in Servers, Insert(s)
        PROVE  TracesAreFree'
    BY <1>0, <1>3 DEF Insert, TracesAreFree
  <1>4. ASSUME NEW s \in Servers, Finish(s),
               \A u \in Servers : u # s => entries'[u] = entries[u]
        PROVE  TracesAreFree'
    BY <1>0, <1>4 DEF Finish, TracesAreFree
  <1>5. ASSUME NEW s \in Servers, Respond(s)
        PROVE  TracesAreFree'
    BY <1>0, <1>4, <1>5 DEF Respond
  <1>6. ASSUME NEW s \in Servers, Restart(s)
        PROVE  TracesAreFree'
    BY <1>0, <1>4, <1>6 DEF Restart
  <1>7. CASE UNCHANGED <<stage, request, entries>>
    BY <1>7 DEF TracesAreFree
  <1> QED BY <1>take, <1>1, <1>2, <1>3, <1>5, <1>6, <1>7 DEF Next, Handle, Purge, Tick, vars

LEMMA WritesAreNew ==
  ASSUME TypeInv, TracesAreFree, [Next]_vars
  PROVE  \A s \in Servers, t \in Traces :
           entries[s][t] # None => entries'[s][t] \in {entries[s][t], None}
  <1>0. /\ entries \in [Servers -> [Traces -> Auths \cup {None}]]
        /\ \A s \in Servers :
             stage[s] # "idle" => request[s].trace \in Traces \cup {None}
    BY RequestFacts DEF TypeInv, PoolTypeOK, BusyServersHaveRequests
  <1> SUFFICES ASSUME NEW s \in Servers, NEW t \in Traces, entries[s][t] # None
               PROVE  entries'[s][t] \in {entries[s][t], None}
    OBVIOUS
  <1>1. ASSUME NEW u \in Servers, Respond(u)
        PROVE  entries'[s][t] = entries[s][t]
    <2> DEFINE w == request[u].trace
    <2>1. /\ w \in Traces \cup {None} /\ (w # None => entries[u][w] = None)
          /\ entries' = IF w = None THEN entries
                        ELSE [entries EXCEPT ![u][w] = request[u].auth]
      BY <1>0, <1>1 DEF Respond, TracesAreFree
    <2> HIDE DEF w
    <2> QED BY <1>0, <2>1
  <1>2. ASSUME NEW u \in Servers, Restart(u)
        PROVE  entries'[s][t] \in {entries[s][t], None}
    BY <1>0, <1>2 DEF Restart
  <1>3. CASE UNCHANGED entries
    BY <1>3
  <1> QED BY <1>1, <1>2, <1>3
      DEF Next, Handle, TakeUp, Admit, Check, Insert, Purge, Tick, vars

\* No paid write ever replaces another one.
THEOREM PaidTracesAreKept == Spec => PaidTracesStay
  <1>1. TypeInv /\ TracesAreFree /\ [Next]_vars =>
          [\A s \in Servers, t \in Traces :
             entries[s][t] # None => entries'[s][t] \in {entries[s][t], None}]_vars
    BY WritesAreNew
  <1> QED BY TypeInit, TypeStep, FreeInit, FreeStep, <1>1, PTL DEF Spec, PaidTracesStay

-----------------------------------------------------------------------------
(***************************************************************************)
(* The rate limit.  What a limiter granted since t1 and what it could      *)
(* grant now come out of what it held and refilled since t1, for each t1:  *)
(* the bound on the grants alone is not inductive, because a bucket may be *)
(* full when the window begins.                                            *)
(***************************************************************************)
Grants == [Times -> Nat]

\* How g, what a limiter granted by second n, and k, what it could grant then,
\* are bounded.
GrantsAreBounded(g, k, n) ==
  /\ \A t \in Times : t > n => g[t] = 0
  /\ \A t1 \in Times : t1 <= n => Total(g, t1 .. n) + k <= Capacity + Refill * (n - t1)
  /\ \A t1, t2 \in Times :
       t1 <= t2 => Total(g, t1 .. t2) <= Capacity + Refill * (t2 - t1)

BurstInv ==
  \A s \in Servers, p \in Signers :
    GrantsAreBounded(grants[s][p], Tokens(buckets[s][p]), now)

LEMMA Refills ==
  ASSUME NEW m \in Nat, NEW n \in Nat, m <= n
  PROVE  /\ Refill * m \in Nat /\ m * Refill \in Nat /\ Refill * m <= Refill * n
         /\ Refill * 0 = 0 /\ 0 * Refill = 0
         /\ Refill * (m + 1) = Refill * m + Refill
         /\ (m + 1) * Refill = m * Refill + Refill
  BY BoundFacts, SMT

LEMMA SecondRefills ==
  ASSUME NEW tokens \in Nat, tokens <= Capacity, NEW m \in Nat, NEW k, NEW l,
         k = (IF tokens + m * Refill < Capacity THEN tokens + m * Refill ELSE Capacity),
         l = (IF tokens + (m + 1) * Refill < Capacity
              THEN tokens + (m + 1) * Refill ELSE Capacity)
  PROVE  k \in Nat /\ l \in Nat /\ l <= k + Refill /\ l <= Capacity
<1> DEFINE gain == m * Refill
           more == (m + 1) * Refill
<1>1. gain \in Nat /\ more = gain + Refill
  BY Refills
<1> HIDE DEF gain, more
<1>2. k = (IF tokens + gain < Capacity THEN tokens + gain ELSE Capacity)
      /\ l = (IF tokens + more < Capacity THEN tokens + more ELSE Capacity)
  BY DEF gain, more
<1> QED BY <1>1, <1>2, BoundFacts

LEMMA TimeFacts == Times \subseteq Nat /\ \A t \in Times : t <= MaxTime
  BY BoundFacts DEF Times

\* What a limiter could grant.
LEMMA TokensIs ==
  ASSUME now \in Times, NEW b \in Buckets, b.last <= now
  PROVE  /\ now - b.last \in Nat
         /\ b.tokens \in Nat /\ b.tokens <= Capacity
         /\ Tokens(b) \in Nat /\ Tokens(b) <= Capacity
         /\ Tokens(b) <= b.tokens + (now - b.last) * Refill
         /\ b.tokens + (now - b.last) * Refill <= Capacity
              => Tokens(b) = b.tokens + (now - b.last) * Refill
         /\ b.tokens + (now - b.last) * Refill > Capacity => Tokens(b) = Capacity
<1> DEFINE gain == (now - b.last) * Refill
<1>1. b.tokens \in 0 .. Capacity /\ b.last \in Nat /\ now \in Nat
  BY BoundFacts DEF Buckets, Times
<1>2. now - b.last \in Nat
  BY <1>1
<1>3. gain \in Nat
  BY <1>2, Refills
<1>4. Tokens(b) = IF b.tokens + gain < Capacity THEN b.tokens + gain ELSE Capacity
  BY DEF Tokens
<1> HIDE DEF gain
<1>5. /\ Tokens(b) \in Nat /\ Tokens(b) <= Capacity /\ Tokens(b) <= b.tokens + gain
      /\ b.tokens + gain <= Capacity => Tokens(b) = b.tokens + gain
      /\ b.tokens + gain > Capacity => Tokens(b) = Capacity
  BY <1>1, <1>3, <1>4, BoundFacts
<1> QED BY <1>1, <1>2, <1>5, BoundFacts DEF gain

\* A bucket that has just been used, and one that was full.
LEMMA TokensNow ==
  ASSUME now \in Times, NEW b \in Buckets, b.last = now
  PROVE  Tokens(b) = b.tokens
<1>1. b.last \in Nat /\ b.tokens \in Nat /\ b.tokens <= Capacity
  BY BoundFacts DEF Buckets, Times
<1>2. (now - b.last) * Refill = 0
  BY <1>1, Refills
<1> QED BY <1>1, <1>2, BoundFacts DEF Tokens

LEMMA WindowIsNat ==
  ASSUME NEW g \in Grants, NEW t1 \in Times, NEW t2 \in Times
  PROVE  /\ Total(g, t1 .. t2) \in Nat /\ IsFiniteSet(t1 .. t2)
         /\ \A x \in t1 .. t2 : x \in Times /\ g[x] \in Nat
         /\ t1 > t2 => Total(g, t1 .. t2) = 0
<1>1. t1 \in Int /\ t2 \in Int
  BY TimeFacts
<1>2. \A x \in t1 .. t2 : x \in Times
  BY BoundFacts DEF Times
<1>3. \A x \in t1 .. t2 : g[x] \in Nat
  BY <1>2 DEF Grants
<1>4. IsFiniteSet(t1 .. t2)
  BY <1>1, FS_Interval
<1>5. t1 > t2 => t1 .. t2 = {}
  BY <1>1
<1> QED BY <1>2, <1>3, <1>4, <1>5, PurseFinite, TotalEmpty

\* The grants of a window that ends later are those up to now.
LEMMA WindowUpToNow ==
  ASSUME NEW g \in Grants, NEW n \in Times, \A t \in Times : t > n => g[t] = 0,
         NEW t1 \in Times, NEW t2 \in Times, n <= t2
  PROVE  Total(g, t1 .. t2) = Total(g, t1 .. n)
<1> DEFINE S == t1 .. t2
           T == t1 .. n
<1>1. T \in SUBSET S
  BY TimeFacts
<1>2. \A x \in S \ T : x \in Times /\ x > n
  BY TimeFacts, BoundFacts DEF Times
<1>3. \A x \in S \ T : g[x] = 0
  BY <1>2
<1> HIDE DEF S, T
<1>4. Total(g, S) = Total(g, T)
  BY <1>1, <1>3, TotalSupport
<1> QED BY <1>4 DEF S, T

\* The windows that end now or later follow from what is granted since.
LEMMA LateWindows ==
  ASSUME NEW g \in Grants, NEW n \in Times, NEW k \in Nat,
         \A t \in Times : t > n => g[t] = 0,
         \A t1 \in Times : t1 <= n => Total(g, t1 .. n) + k <= Capacity + Refill * (n - t1),
         NEW t1 \in Times, NEW t2 \in Times, t1 <= t2, n <= t2
  PROVE  Total(g, t1 .. t2) <= Capacity + Refill * (t2 - t1)
<1>1. n \in Nat /\ t1 \in Nat /\ t2 \in Nat
  BY TimeFacts
<1>2. Total(g, t1 .. t2) = Total(g, t1 .. n) /\ Total(g, t1 .. n) \in Nat
  <2>1. Total(g, t1 .. n) \in Nat
    BY WindowIsNat
  <2>2. Total(g, t1 .. t2) = Total(g, t1 .. n)
    BY WindowUpToNow
  <2> QED BY <2>1, <2>2
<1>3. t2 - t1 \in Nat /\ Refill * (t2 - t1) \in Nat
  <2>1. t2 - t1 \in Nat
    BY <1>1
  <2> QED BY <2>1, Refills
<1>4. CASE t1 <= n
  <2>1. n - t1 \in Nat /\ n - t1 <= t2 - t1
    BY <1>1, <1>4
  <2>2. Refill * (n - t1) \in Nat /\ Refill * (n - t1) <= Refill * (t2 - t1)
    BY <1>3, <2>1, Refills
  <2>3. Total(g, t1 .. n) + k <= Capacity + Refill * (n - t1)
    BY <1>4
  <2> QED BY <1>2, <1>3, <2>2, <2>3, BoundFacts
<1>5. CASE t1 > n
  <2>1. Total(g, t1 .. n) = 0
    BY <1>5, WindowIsNat
  <2> QED BY <1>2, <1>3, <2>1, BoundFacts
<1> QED BY <1>1, <1>4, <1>5

\* A token that is granted is taken from the bucket.
LEMMA GrantIsBounded ==
  ASSUME NEW g \in Grants, NEW n \in Times, NEW k \in Nat, k >= 1, GrantsAreBounded(g, k, n)
  PROVE  GrantsAreBounded([g EXCEPT ![n] = @ + 1], k - 1, n)
<1> DEFINE h == [g EXCEPT ![n] = @ + 1]
<1>1. h \in Grants /\ h[n] = g[n] + 1 /\ g[n] \in Nat /\ \A t \in Times : t # n => h[t] = g[t]
  BY DEF Grants
<1>2. \A t \in Times : t > n => h[t] = 0
  <2>1. \A t \in Times : t > n => t # n
    BY TimeFacts
  <2> QED BY <1>1, <2>1 DEF GrantsAreBounded
<1> HIDE DEF h
<1>3. ASSUME NEW t1 \in Times, t1 <= n
      PROVE  Total(h, t1 .. n) + (k - 1) <= Capacity + Refill * (n - t1)
  <2>1. n \in t1 .. n
    BY <1>3, TimeFacts
  <2> DEFINE S == t1 .. n
  <2>2. IsFiniteSet(S) /\ n \in S /\ \A x \in S : x \in Times /\ g[x] \in Nat /\ h[x] \in Nat
    BY <1>1, <2>1, WindowIsNat
  <2>3. Total(g, S) \in Nat /\ Total(g, S) + k <= Capacity + Refill * (n - t1)
    BY <1>3, WindowIsNat DEF GrantsAreBounded
  <2> HIDE DEF S
  <2>4. \A x \in S \ {n} : g[x] = h[x]
    BY <1>1, <2>2
  <2>5. Total(h, S) = Total(g, S) + h[n] - g[n]
    BY <2>2, <2>4, TotalChange
  <2>6. Total(h, S) = Total(g, S) + 1
    BY <1>1, <2>3, <2>5
  <2>7. Total(h, S) + (k - 1) = Total(g, S) + k
    BY <2>3, <2>6
  <2> QED BY <2>3, <2>7 DEF S
<1>4. ASSUME NEW t1 \in Times, NEW t2 \in Times, t1 <= t2
      PROVE  Total(h, t1 .. t2) <= Capacity + Refill * (t2 - t1)
  <2>1. CASE n <= t2
    <3>1. k - 1 \in Nat
      OBVIOUS
    <3> QED BY <1>1, <1>2, <1>3, <1>4, <2>1, <3>1, LateWindows
  <2>2. CASE t2 < n
    <3>1. \A x \in t1 .. t2 : x \in Times /\ x # n
      BY <2>2, TimeFacts, WindowIsNat
    <3>2. \A x \in t1 .. t2 : h[x] = g[x]
      BY <1>1, <3>1
    <3>3. Total(h, t1 .. t2) = Total(g, t1 .. t2)
      BY <3>2, TotalEq
    <3> QED BY <1>4, <3>3 DEF GrantsAreBounded
  <2> QED BY <2>1, <2>2, TimeFacts
<1> QED BY <1>2, <1>3, <1>4 DEF GrantsAreBounded, h

\* What a second refills is what the window grows by.
LEMMA SecondIsBounded ==
  ASSUME NEW g \in Grants, NEW n \in Times, n + 1 \in Times, NEW k \in Nat, NEW l \in Nat,
         l <= k + Refill, l <= Capacity, GrantsAreBounded(g, k, n)
  PROVE  GrantsAreBounded(g, l, n + 1)
<1>1. n \in Nat /\ n + 1 \in Times
  BY TimeFacts
<1>2. ASSUME NEW t1 \in Times, t1 <= n + 1
      PROVE  Total(g, t1 .. (n + 1)) + l <= Capacity + Refill * ((n + 1) - t1)
  <2>1. Total(g, t1 .. (n + 1)) = Total(g, t1 .. n) /\ Total(g, t1 .. n) \in Nat
    <3>1. Total(g, t1 .. n) \in Nat
      BY WindowIsNat
    <3>2. \A t \in Times : t > n => g[t] = 0
      BY DEF GrantsAreBounded
    <3>3. n <= n + 1
      BY <1>1
    <3>4. Total(g, t1 .. (n + 1)) = Total(g, t1 .. n)
      BY <1>1, <3>2, <3>3, WindowUpToNow
    <3> QED BY <3>1, <3>4
  <2>2. CASE t1 <= n
    <3>1. n - t1 \in Nat /\ (n + 1) - t1 = (n - t1) + 1
      BY <1>1, <2>2, TimeFacts
    <3>2. Refill * (n - t1) \in Nat /\ Refill * ((n + 1) - t1) = Refill * (n - t1) + Refill
      BY <3>1, Refills
    <3>3. Total(g, t1 .. n) + k <= Capacity + Refill * (n - t1)
      BY <2>2 DEF GrantsAreBounded
    <3> QED BY <2>1, <3>2, <3>3, BoundFacts
  <2>3. CASE t1 = n + 1
    <3>1. Total(g, t1 .. n) = 0
      BY <1>1, <2>3, WindowIsNat
    <3>2. Refill * ((n + 1) - t1) = 0
      BY <1>1, <2>3, Refills
    <3> QED BY <2>1, <3>1, <3>2, BoundFacts
  <2> QED BY <1>1, <1>2, <2>2, <2>3, TimeFacts
<1>3. \A t \in Times : t > n + 1 => g[t] = 0
  BY <1>1, TimeFacts DEF GrantsAreBounded
<1> QED BY <1>2, <1>3 DEF GrantsAreBounded

LEMMA NoGrantIsBounded ==
  ASSUME NEW n \in Times
  PROVE  GrantsAreBounded([t \in Times |-> 0], Capacity, n)
<1> DEFINE g == [t \in Times |-> 0]
<1>1. \A t1, t2 \in Times : Total(g, t1 .. t2) = 0
  <2> SUFFICES ASSUME NEW t1 \in Times, NEW t2 \in Times PROVE Total(g, t1 .. t2) = 0
    OBVIOUS
  <2>1. g \in Grants
    BY DEF Grants
  <2> HIDE DEF g
  <2>2. IsFiniteSet(t1 .. t2) /\ \A x \in t1 .. t2 : x \in Times /\ g[x] \in Nat
    BY <2>1, WindowIsNat
  <2>3. \A x \in t1 .. t2 : g[x] = 0
    BY <2>2 DEF g
  <2> QED BY <2>2, <2>3, TotalZero
<1>2. ASSUME NEW t1 \in Times, NEW t2 \in Times, t1 <= t2
      PROVE  Refill * (t2 - t1) \in Nat
  <2>1. t2 - t1 \in Nat
    BY <1>2, TimeFacts
  <2> QED BY <2>1, Refills
<1>3. \A t \in Times : g[t] = 0
  OBVIOUS
<1> HIDE DEF g
<1>4. \A t1, t2 \in Times : t1 <= t2 =>
        /\ Total(g, t1 .. t2) + Capacity <= Capacity + Refill * (t2 - t1)
        /\ Total(g, t1 .. t2) <= Capacity + Refill * (t2 - t1)
  BY <1>1, <1>2, BoundFacts
<1> QED BY <1>3, <1>4 DEF GrantsAreBounded, g

LEMMA BurstInit == Init => BurstInv
<1> SUFFICES ASSUME Init, NEW s \in Servers, NEW p \in Signers
             PROVE  GrantsAreBounded(grants[s][p], Tokens(buckets[s][p]), now)
  BY DEF BurstInv
<1>1. now = 0 /\ now \in Times
  BY BoundFacts DEF Init, Times
<1>2. buckets[s][p] = [tokens |-> Capacity, last |-> now] /\ grants[s][p] = [t \in Times |-> 0]
  BY DEF Init, FullBuckets, NoGrants
<1>3. [tokens |-> Capacity, last |-> now] \in Buckets
  BY <1>1, BoundFacts DEF Buckets
<1>4. Tokens(buckets[s][p]) = Capacity
  BY <1>1, <1>2, <1>3, TokensNow
<1> QED BY <1>1, <1>2, <1>4, NoGrantIsBounded

LEMMA BurstStep == TypeInv /\ BurstInv /\ [Next]_vars => BurstInv'
<1> SUFFICES ASSUME TypeInv, BurstInv, [Next]_vars, NEW s \in Servers, NEW p \in Signers
             PROVE  GrantsAreBounded(grants'[s][p], Tokens(buckets[s][p])', now')
  BY DEF BurstInv, GrantsAreBounded
<1> DEFINE b == buckets[s][p]
           g == grants[s][p]
<1>1. /\ b \in Buckets /\ b.last <= now /\ g \in Grants /\ now \in Times
      /\ buckets \in [Servers -> [Signers -> Buckets]]
      /\ grants \in [Servers -> [Signers -> Grants]]
  BY DEF TypeInv, PoolTypeOK, BucketsAreDue, Grants
<1>2. GrantsAreBounded(g, Tokens(b), now)
  BY DEF BurstInv
<1>3. CASE now' = now /\ grants'[s][p] = g /\ buckets'[s][p] = b
  <2>1. Tokens(buckets[s][p])' = Tokens(b)
    BY <1>3 DEF Tokens
  <2> QED BY <1>2, <1>3, <2>1
<1>4. ASSUME NEW u \in Servers, stage[u] # "idle", Consume(u), now' = now
      PROVE  GrantsAreBounded(grants'[s][p], Tokens(buckets[s][p])', now')
  <2>1. CASE u = s /\ request[u].auth.signer = p
    <3>1. /\ now' = now /\ buckets' = [buckets EXCEPT ![s][p] = Consumed(b)]
          /\ grants' = IF Enough(b) THEN [grants EXCEPT ![s][p][now] = @ + 1] ELSE grants
      BY <1>4, <2>1 DEF Consume
    <3>2. buckets'[s][p] = Consumed(b) /\ Consumed(b) \in Buckets /\ Consumed(b).last = now
      BY <1>1, <3>1, NewBucket
    <3>3. Tokens(buckets[s][p])' = Consumed(b).tokens
      <4>1. Tokens(Consumed(b)) = Consumed(b).tokens
        BY <1>1, <3>2, TokensNow
      <4>2. Tokens(buckets[s][p])' = Tokens(Consumed(b))
        BY <3>1, <3>2 DEF Tokens
      <4> QED BY <4>1, <4>2
    <3>4. Tokens(b) \in Nat
      BY <1>1, TokensIs
    <3> HIDE DEF b, g
    <3>5. CASE Enough(b)
      <4>1. grants'[s][p] = [g EXCEPT ![now] = @ + 1]
        BY <1>1, <3>1, <3>5 DEF g
      <4>2. Tokens(b) >= 1 /\ Consumed(b).tokens = Tokens(b) - 1
        BY <3>5 DEF Enough, Consumed
      <4>3. GrantsAreBounded([g EXCEPT ![now] = @ + 1], Tokens(b) - 1, now)
        BY <1>1, <1>2, <3>4, <4>2, GrantIsBounded
      <4> QED BY <3>1, <3>3, <4>1, <4>2, <4>3
    <3>6. CASE ~Enough(b)
      <4>1. grants'[s][p] = g /\ Consumed(b).tokens = Tokens(b)
        BY <3>1, <3>6 DEF Consumed, g
      <4> QED BY <1>2, <3>1, <3>3, <4>1
    <3> QED BY <3>5, <3>6
  <2>2. CASE ~(u = s /\ request[u].auth.signer = p)
    <3> DEFINE q == request[u].auth.signer
    <3>1. q \in Signers
      BY <1>4, RequestFacts, AuthFacts DEF TypeInv, BusyServersHaveRequests
    <3>2. /\ now' = now /\ buckets' = [buckets EXCEPT ![u][q] = Consumed(buckets[u][q])]
          /\ \/ grants' = [grants EXCEPT ![u][q][now] = @ + 1]
             \/ grants' = grants
      BY <1>4 DEF Consume
    <3> HIDE DEF q
    <3>3. buckets'[s][p] = b
      BY <1>1, <2>2, <3>1, <3>2 DEF q
    <3>4. grants'[s][p] = g
      BY <1>1, <2>2, <3>1, <3>2 DEF q
    <3> QED BY <1>3, <3>2, <3>3, <3>4
  <2> QED BY <2>1, <2>2
<1>admit. ASSUME NEW u \in Servers, Admit(u)
          PROVE  GrantsAreBounded(grants'[s][p], Tokens(buckets[s][p])', now')
  <2>1. stage[u] # "idle" /\ now' = now /\ (Consume(u) \/ UNCHANGED <<buckets, grants>>)
    BY <1>admit DEF Admit
  <2> QED BY <1>3, <1>4, <2>1
<1>5. ASSUME NEW u \in Servers, Restart(u)
      PROVE  GrantsAreBounded(grants'[s][p], Tokens(buckets[s][p])', now')
  <2>1. /\ now' = now /\ buckets' = [buckets EXCEPT ![u] = FullBuckets]
        /\ grants' = [grants EXCEPT ![u] = NoGrants]
    BY <1>5 DEF Restart
  <2>2. CASE u = s
    <3> DEFINE full == [tokens |-> Capacity, last |-> now]
    <3>1. buckets'[s][p] = full /\ grants'[s][p] = [t \in Times |-> 0]
      BY <1>1, <2>1, <2>2 DEF FullBuckets, NoGrants
    <3>2. full \in Buckets
      BY <1>1, BoundFacts DEF Buckets
    <3>3. Tokens(full) = Capacity
      BY <1>1, <3>2, TokensNow
    <3>4. Tokens(buckets[s][p])' = Tokens(full)
      BY <2>1, <3>1 DEF Tokens
    <3> QED BY <1>1, <2>1, <3>1, <3>3, <3>4, NoGrantIsBounded
  <2>3. CASE u # s
    <3>1. buckets'[s][p] = b /\ grants'[s][p] = g
      BY <1>1, <2>1, <2>3
    <3> QED BY <1>3, <2>1, <3>1
  <2> QED BY <2>2, <2>3
<1>6. CASE Tick
  <2>1. /\ now' = now + 1 /\ now \in Nat /\ now' \in Times
        /\ buckets'[s][p] = b /\ grants'[s][p] = g
    BY <1>1, <1>6, TimeFacts, BoundFacts DEF Tick, Times
  <2> DEFINE m == now - b.last
             l == Tokens(buckets[s][p])'
  <2>2. b.last \in Nat /\ b.tokens \in Nat /\ b.tokens <= Capacity
    <3>1. b.last \in Times /\ b.tokens \in 0 .. Capacity
      BY <1>1 DEF Buckets
    <3> HIDE DEF b, g, m, l
    <3>2. b.last \in Nat
      BY <3>1, TimeFacts
    <3>3. b.tokens \in Nat /\ b.tokens <= Capacity
      BY <3>1, BoundFacts
    <3> QED BY <3>2, <3>3
  <2>3. m \in Nat /\ now' - b.last = m + 1
    <3>1. b.last <= now /\ now \in Nat /\ now' = now + 1
      BY <1>1, <2>1
    <3> HIDE DEF b, g, l
    <3> QED BY <2>2, <3>1
  <2>4. l = IF b.tokens + (m + 1) * Refill < Capacity
            THEN b.tokens + (m + 1) * Refill ELSE Capacity
    BY <2>1, <2>3 DEF Tokens
  <2>5. Tokens(b) = IF b.tokens + m * Refill < Capacity
                    THEN b.tokens + m * Refill ELSE Capacity
    BY DEF Tokens
  <2> HIDE DEF l, m, b, g
  <2>8. Tokens(b) \in Nat /\ l \in Nat /\ l <= Tokens(b) + Refill /\ l <= Capacity
    BY <2>2, <2>3, <2>4, <2>5, SecondRefills
  <2>9. GrantsAreBounded(g, l, now + 1)
    BY <1>1, <1>2, <2>1, <2>8, SecondIsBounded
  <2> QED BY <2>1, <2>9 DEF l
<1>7. ASSUME NEW u \in Servers,
             \/ \E r \in Requests : TakeUp(u, r)
             \/ Check(u) \/ Insert(u) \/ Respond(u) \/ Purge(u)
      PROVE  GrantsAreBounded(grants'[s][p], Tokens(buckets[s][p])', now')
  BY <1>3, <1>7 DEF TakeUp, Check, Insert, Respond, Purge
<1>8. CASE UNCHANGED vars
  BY <1>3, <1>8 DEF vars
<1> QED BY <1>admit, <1>5, <1>6, <1>7, <1>8 DEF Next, Handle

\* In any window of time a server grants a signer no more than the bucket's capacity
\* and what it refills in the window.  (RateLimiter.consume)
THEOREM BurstsAreBounded == Spec => []BurstBound
<1>1. BurstInv => BurstBound
  BY DEF BurstInv, GrantsAreBounded, BurstBound
<1> QED BY <1>1, TypeInit, TypeStep, BurstInit, BurstStep, PTL DEF Spec

-----------------------------------------------------------------------------
(***************************************************************************)
(* One payment, one answer.  AnsweredIsSpent leaves room for two servers   *)
(* that admit a payment before either answers, and for one that purges the *)
(* row between another's look at its clock and its look at the table.  A   *)
(* process that does not share its nonce database leaves none, since it    *)
(* purges between requests: the row of what it answered is its own, and    *)
(* stays while a request that was found in time is worked on.              *)
(***************************************************************************)
SingleServer == \A s, t \in Servers : s = t

\* The row an answer leaves, with the expiry of the authorization itself.
OwnRow(a) == \E row \in nonces : row.key = Key(a) /\ row.expires_at = a.validBefore

AnswersKeepTheirRows == \A a \in served : now < a.validBefore => OwnRow(a)

RequestsAreUnanswered ==
  \A s \in Servers :
    /\ stage[s] = "timely" /\ request[s].auth \in served => Has(Key(request[s].auth))
    /\ stage[s] \in {"admitted", "fresh", "committed"} => request[s].auth \notin served
    /\ stage[s] = "fresh" => ~Has(Key(request[s].auth))
    /\ stage[s] = "committed" /\ now < request[s].auth.validBefore =>
         OwnRow(request[s].auth)

OneAnswerInv == TypeInv /\ AnswersKeepTheirRows /\ RequestsAreUnanswered

\* An answer is the first for its authorization.
EachPaymentBuysOneAnswer ==
  [][\A s \in Servers : Respond(s) => request[s].auth \notin served]_vars

LEMMA OneAnswerStep ==
  ASSUME SingleServer, OneAnswerInv, [Next]_vars
  PROVE  OneAnswerInv'
  <1>0. /\ TypeInv /\ TypeInv'
        /\ stage \in [Servers -> Stages]
        /\ request \in [Servers -> Requests \cup {None}]
        /\ now \in Int /\ \A a \in Auths : a.validBefore \in Int
        /\ served \subseteq Auths
        /\ \A s \in Servers : stage[s] # "idle" => request[s].auth \in Auths
    BY TypeStep, RequestFacts, AuthFacts, BoundFacts
       DEF OneAnswerInv, TypeInv, PoolTypeOK, BusyServersHaveRequests, Times
  <1> SUFFICES AnswersKeepTheirRows' /\ RequestsAreUnanswered'
    BY <1>0 DEF OneAnswerInv
  <1> USE DEF OneAnswerInv
  <1>1. ASSUME NEW u \in Servers, NEW r \in Requests, TakeUp(u, r)
        PROVE  AnswersKeepTheirRows' /\ RequestsAreUnanswered'
    <2>1. /\ stage' = [stage EXCEPT ![u] = "timely"]
          /\ request' = [request EXCEPT ![u] = r]
          /\ UNCHANGED <<now, nonces, served>> /\ Validity(r.auth)
      BY <1>1 DEF TakeUp, Acceptable
    <2>2. r.auth \in served => Has(Key(r.auth))
      <3>1. r.auth \in Auths /\ r.auth.validBefore \in Int
        BY RequestFacts, AuthFacts
      <3>2. now < r.auth.validBefore
        BY <1>0, <2>1, <3>1 DEF Validity
      <3> QED BY <3>2 DEF AnswersKeepTheirRows, OwnRow, Has
    <2>3. stage'[u] = "timely" /\ request'[u] = r
      BY <1>0, <2>1
    <2>4. RequestsAreUnanswered'
      <3> SUFFICES ASSUME NEW s \in Servers
                   PROVE  /\ stage'[s] = "timely"
                          /\ request'[s].auth \in served => Has(Key(request[s].auth))'
        BY <2>1 DEF RequestsAreUnanswered, Key, Has
      <3>1. s = u
        BY DEF SingleServer
      <3> QED BY <2>1, <2>2, <2>3, <3>1 DEF Has, Key
    <2> QED BY <2>1, <2>4 DEF AnswersKeepTheirRows, OwnRow, Key
  <1>2. ASSUME NEW u \in Servers, Finish(u), now' = now,
               \A a \in Auths : now < a.validBefore /\ OwnRow(a) => OwnRow(a)',
               \A a \in served' : a \in served \/ (now < a.validBefore => OwnRow(a))
        PROVE  AnswersKeepTheirRows' /\ RequestsAreUnanswered'
    <2>1. \A s \in Servers : stage'[s] = "idle"
      BY <1>0, <1>2 DEF Finish, SingleServer
    <2>2. RequestsAreUnanswered'
      BY <2>1 DEF RequestsAreUnanswered
    <2>3. served' \subseteq Auths
      BY <1>0 DEF TypeInv, PoolTypeOK
    <2> QED BY <1>2, <2>2, <2>3 DEF AnswersKeepTheirRows
  <1>3. ASSUME NEW u \in Servers, Admit(u)
        PROVE  AnswersKeepTheirRows' /\ RequestsAreUnanswered'
    <2>1. stage[u] = "timely" /\ UNCHANGED <<now, nonces, served>>
      BY <1>3 DEF Admit
    <2>2. CASE Finish(u)
      BY <1>2, <2>1, <2>2 DEF OwnRow, Key
    <2>3. CASE /\ stage' = [stage EXCEPT ![u] = "admitted"] /\ UNCHANGED request
               /\ ~Has(Key(request[u].auth))
      <3>1. \A s \in Servers : stage'[s] = "admitted" /\ request[s].auth \notin served
        BY <1>0, <2>1, <2>3 DEF SingleServer, RequestsAreUnanswered
      <3>2. RequestsAreUnanswered'
        BY <2>1, <2>3, <3>1 DEF RequestsAreUnanswered
      <3> QED BY <2>1, <3>2 DEF AnswersKeepTheirRows, OwnRow, Key
    <2> QED BY <1>3, <2>2, <2>3 DEF Admit
  <1>4. ASSUME NEW u \in Servers, Check(u)
        PROVE  AnswersKeepTheirRows' /\ RequestsAreUnanswered'
    <2>1. stage[u] = "admitted" /\ UNCHANGED <<now, nonces, served>>
      BY <1>4 DEF Check
    <2>2. CASE Finish(u)
      BY <1>2, <2>1, <2>2 DEF OwnRow, Key
    <2>3. CASE /\ stage' = [stage EXCEPT ![u] = "fresh"] /\ UNCHANGED request
               /\ ~Has(Key(request[u].auth))
      <3>1. \A s \in Servers : /\ stage'[s] = "fresh" /\ request[s].auth \notin served
                               /\ ~Has(Key(request[s].auth))
        BY <1>0, <2>1, <2>3 DEF SingleServer, RequestsAreUnanswered
      <3>2. RequestsAreUnanswered'
        BY <2>1, <2>3, <3>1 DEF RequestsAreUnanswered, Has, Key
      <3> QED BY <2>1, <3>2 DEF AnswersKeepTheirRows, OwnRow, Key
    <2> QED BY <1>4, <2>2, <2>3 DEF Check
  <1>5. ASSUME NEW u \in Servers, Insert(u)
        PROVE  AnswersKeepTheirRows' /\ RequestsAreUnanswered'
    <2> DEFINE a == request[u].auth
               new == [key |-> Key(a), expires_at |-> a.validBefore]
    <2>1. /\ stage[u] = "fresh" /\ ~Has(Key(a)) /\ a \notin served
          /\ stage' = [stage EXCEPT ![u] = "committed"]
          /\ UNCHANGED <<now, request, served>>
      BY <1>5 DEF Insert, RequestsAreUnanswered
    <2>2. nonces' = nonces \cup {new}
      BY <1>5, <2>1 DEF Insert, Added
    <2>3. new.key = Key(a) /\ new.expires_at = a.validBefore /\ new \in nonces'
      BY <2>2
    <2> HIDE DEF new
    <2>4. OwnRow(a)'
      BY <2>1, <2>3 DEF OwnRow, Key
    <2>5. OwnRow(request[u].auth)'
      BY <2>1, <2>4 DEF OwnRow, Key
    <2>6. RequestsAreUnanswered'
      <3>1. \A s \in Servers :
              stage'[s] = "committed" /\ s = u /\ request'[s].auth \notin served'
        BY <1>0, <2>1 DEF SingleServer
      <3> HIDE DEF a
      <3> QED BY <2>5, <3>1 DEF RequestsAreUnanswered
    <2> HIDE DEF a
    <2>7. AnswersKeepTheirRows'
      BY <2>1, <2>2 DEF AnswersKeepTheirRows, OwnRow, Key
    <2> QED BY <2>6, <2>7
  <1>6. ASSUME NEW u \in Servers, Respond(u)
        PROVE  AnswersKeepTheirRows' /\ RequestsAreUnanswered'
    <2>1. /\ stage[u] = "committed" /\ served' = served \cup {request[u].auth}
          /\ Finish(u) /\ UNCHANGED <<now, nonces>>
      BY <1>6 DEF Respond
    <2> QED BY <1>2, <2>1 DEF RequestsAreUnanswered, OwnRow, Key
  <1>7. ASSUME NEW a \in Auths, nonces' = Purged, now' = now, now < a.validBefore, OwnRow(a)
        PROVE  OwnRow(a)'
    BY <1>0, <1>7 DEF OwnRow, Purged, Key
  <1>8. ASSUME NEW u \in Servers, Restart(u)
        PROVE  AnswersKeepTheirRows' /\ RequestsAreUnanswered'
    BY <1>2, <1>7, <1>8 DEF Restart
  <1>9. ASSUME NEW u \in Servers, Purge(u)
        PROVE  AnswersKeepTheirRows' /\ RequestsAreUnanswered'
    <2>1. nonces' = Purged /\ UNCHANGED <<now, stage, request, served>>
      BY <1>9 DEF Purge
    <2>2. \A s \in Servers : stage'[s] = "idle"
      BY <1>9, <2>1 DEF Purge, SingleServer
    <2>3. RequestsAreUnanswered'
      BY <2>2 DEF RequestsAreUnanswered
    <2> QED BY <1>0, <1>7, <2>1, <2>3 DEF AnswersKeepTheirRows
  <1>10. CASE Tick
    <2>1. now' = now + 1 /\ UNCHANGED <<nonces, stage, request, served>>
      BY <1>10 DEF Tick
    <2>2. \A a \in Auths : now' < a.validBefore => now < a.validBefore
      BY <1>0, <2>1
    <2>3. AnswersKeepTheirRows'
      BY <1>0, <2>1, <2>2 DEF AnswersKeepTheirRows, OwnRow, Key
    <2>4. RequestsAreUnanswered'
      BY <1>0, <2>1, <2>2 DEF RequestsAreUnanswered, OwnRow, Has, Key
    <2> QED BY <2>3, <2>4
  <1>11. CASE UNCHANGED vars
    BY <1>11 DEF vars, AnswersKeepTheirRows, RequestsAreUnanswered, OwnRow, Has, Key
  <1> QED BY <1>1, <1>3, <1>4, <1>5, <1>6, <1>8, <1>9, <1>10, <1>11 DEF Next, Handle

\* A server with its own nonce database gives every authorization at most one
\* answer, through refusals, crashes and purges, however long the run, and
\* whatever else its signer signs under the same nonce.  (_validate_payment,
\* _commit_nonce, purge_expired)
THEOREM OnePaymentOneAnswer == SingleServer => (Spec => EachPaymentBuysOneAnswer)
  <1> SUFFICES ASSUME SingleServer PROVE Spec => EachPaymentBuysOneAnswer
    OBVIOUS
  <1>1. Init => OneAnswerInv
    BY TypeInit DEF Init, OneAnswerInv, AnswersKeepTheirRows, RequestsAreUnanswered
  <1>2. OneAnswerInv /\ [Next]_vars => OneAnswerInv'
    BY OneAnswerStep
  <1>3. OneAnswerInv /\ [Next]_vars =>
          [\A s \in Servers : Respond(s) => request[s].auth \notin served]_vars
    BY DEF Respond, OneAnswerInv, RequestsAreUnanswered
  <1> QED BY <1>1, <1>2, <1>3, PTL DEF Spec, EachPaymentBuysOneAnswer

=============================================================================
