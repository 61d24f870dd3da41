------------------------------ MODULE DarkPool ------------------------------
(***************************************************************************)
(* agents/dark_pool.py with agents/nonce_store.py and rate_limiter.py: paid *)
(* queries and paid writes to a shared memory.                             *)
(*                                                                         *)
(* A server is a process with one event loop.  From the moment a request's *)
(* body is read its handler never suspends (the limiter's lock is free     *)
(* whenever another task could run), so a server works on one request at a *)
(* time, and its purge task runs between requests.  What interleaves with  *)
(* a handler is what shares the SQLite file and the clock: other servers,  *)
(* and a crash.  A step below is therefore the code between two uses of    *)
(* the file or the clock.  A request refused at its first step is no step. *)
(***************************************************************************)
EXTENDS Integers, FiniteSets

CONSTANTS
  Servers,          \* the processes that share one nonce database
  Signers,
  Auths,            \* the signed authorizations clients may send
  Traces,           \* trace ids of paid writes
  None,             \* nothing: no request, or no trace in a query
  Recipient, Price, \* payment_recipient, price_units
  Skew,             \* the clock skew allowed to validAfter
  Capacity, Refill, \* of the rate limiter
  MaxTime           \* bound on the clock

Times == 0 .. MaxTime

ASSUME PoolNames ==
  /\ IsFiniteSet(Servers) /\ IsFiniteSet(Signers)
  /\ None \notin Traces /\ None \notin Auths
  /\ Auths \subseteq [signer : Signers, domain : STRING, nonce : Nat,
                      to : STRING, value : Nat,
                      validAfter : Int, validBefore : Int]
ASSUME PoolBounds ==
  /\ Price \in Nat /\ Skew \in Nat /\ MaxTime \in Nat
  /\ Capacity \in Nat \ {0} /\ Refill \in Nat \ {0}

VARIABLES
  now,
  nonces,     \* rows of the nonce table
  stage,      \* how far a server is with the request it works on
  request,    \* that request: an authorization, and a trace if it is a write
  buckets,    \* the rate limiter of a server
  entries,    \* the paid writes in a server's memory: who paid for a trace
  served,     \* history: authorizations that bought an answer
  lost,       \* history: authorizations whose server died before it answered
  grants      \* history: tokens a server's limiter granted, by signer and second

vars == <<now, nonces, stage, request, buckets, entries, served, lost, grants>>

Stages == {"idle", "timely", "admitted", "fresh", "committed"}
Requests == [auth : Auths, trace : Traces \cup {None}]
Buckets == [tokens : 0 .. Capacity, last : Times]

FullBuckets == [p \in Signers |-> [tokens |-> Capacity, last |-> now]]
NoGrants == [p \in Signers |-> [t \in Times |-> 0]]

Init ==
  /\ now = 0
  /\ nonces = {}
  /\ stage = [s \in Servers |-> "idle"]
  /\ request = [s \in Servers |-> None]
  /\ buckets = [s \in Servers |-> FullBuckets]
  /\ entries = [s \in Servers |-> [t \in Traces |-> None]]
  /\ served = {} /\ lost = {}
  /\ grants = [s \in Servers |-> NoGrants]

-----------------------------------------------------------------------------
(***************************************************************************)
(* The nonce table: its primary key, and the three statements.             *)
(***************************************************************************)
Key(a) == <<a.domain, a.signer, a.nonce>>
Has(k) == \E row \in nonces : row.key = k
Added(k, expires) ==                                      \* INSERT OR IGNORE
  IF Has(k) THEN nonces ELSE nonces \cup {[key |-> k, expires_at |-> expires]}

PurgedEarly == {row \in nonces : row.expires_at > now + Skew}
Purged == {row \in nonces : row.expires_at > now}

(***************************************************************************)
(* The rate limiter: refill on demand, then take one token.                *)
(***************************************************************************)
Tokens(b) ==
  LET refilled == b.tokens + (now - b.last) * Refill
  IN IF refilled < Capacity THEN refilled ELSE Capacity

Enough(b) == Tokens(b) >= 1

ConsumedUnstamped(b) ==
  [tokens |-> IF Enough(b) THEN Tokens(b) - 1 ELSE Tokens(b), last |-> b.last]
Consumed(b) ==
  [tokens |-> IF Enough(b) THEN Tokens(b) - 1 ELSE Tokens(b), last |-> now]

(***************************************************************************)
(* The handlers of /query and /add.                                        *)
(***************************************************************************)
Validity(a) == a.validBefore > now /\ a.validAfter <= now + Skew

\* The signature, scheme and network of a member of Auths are good.
Acceptable(a) ==
  /\ Validity(a)
  /\ a.to = Recipient
  /\ a.value >= Price /\ a.value <= 2 * Price

NeverTaken(s, t) == FALSE
Taken(s, t) == t # None /\ entries[s][t] # None

\* The handler is through with its request.
Finish(s) ==
  /\ stage' = [stage EXCEPT ![s] = "idle"]
  /\ request' = [request EXCEPT ![s] = None]

\* The first half of _validate_payment: the clock is read, and the fields of the
\* authorization are compared with it.
TakeUp(s, r) ==
  /\ stage[s] = "idle"
  /\ Acceptable(r.auth)
  /\ stage' = [stage EXCEPT ![s] = "timely"]
  /\ request' = [request EXCEPT ![s] = r]
  /\ UNCHANGED <<now, nonces, buckets, entries, served, lost, grants>>

\* The limiter takes a token for the request, if it has one.
Consume(s) ==
  LET p == request[s].auth.signer
      b == buckets[s][p]
  IN /\ buckets' = [buckets EXCEPT ![s][p] = Consumed(b)]
     /\ IF Enough(b)
        THEN grants' = [grants EXCEPT ![s][p][now] = @ + 1]
        ELSE UNCHANGED grants

Cleared(s) ==
  Enough(buckets[s][request[s].auth.signer]) /\ ~Taken(s, request[s].trace)

AdmitBurning(s) ==
  /\ stage[s] = "timely"
  /\ ~Has(Key(request[s].auth))
  /\ Consume(s)
  /\ nonces' = Added(Key(request[s].auth), request[s].auth.validBefore)
  /\ IF Cleared(s)
     THEN stage' = [stage EXCEPT ![s] = "committed"] /\ UNCHANGED request
     ELSE Finish(s)
  /\ UNCHANGED <<now, entries, served, lost>>

\* The second half, the look into the nonce table (402), then the rate limit
\* (429) and the duplicate trace (409).
Admit(s) ==
  /\ stage[s] = "timely"
  /\ IF Has(Key(request[s].auth))
     THEN Finish(s) /\ UNCHANGED <<buckets, grants>>
     ELSE /\ Consume(s)
          /\ IF Cleared(s)
             THEN stage' = [stage EXCEPT ![s] = "admitted"] /\ UNCHANGED request
             ELSE Finish(s)
  /\ UNCHANGED <<now, nonces, entries, served, lost>>

\* _commit_nonce reads the table once more (402 if another server was faster).
Check(s) ==
  /\ stage[s] = "admitted"
  /\ IF Has(Key(request[s].auth))
     THEN Finish(s)
     ELSE stage' = [stage EXCEPT ![s] = "fresh"] /\ UNCHANGED request
  /\ UNCHANGED <<now, nonces, buckets, entries, served, lost, grants>>

\* ... and then adds its row.
Insert(s) ==
  /\ stage[s] = "fresh"
  /\ nonces' = Added(Key(request[s].auth), request[s].auth.validBefore)
  /\ stage' = [stage EXCEPT ![s] = "committed"]
  /\ UNCHANGED <<now, request, buckets, entries, served, lost, grants>>

\* The answer to a query, or the write into the memory.
Respond(s) ==
  LET t == request[s].trace
  IN /\ stage[s] = "committed"
     /\ served' = served \cup {request[s].auth}
     /\ entries' = IF t = None THEN entries
                   ELSE [entries EXCEPT ![s][t] = request[s].auth]
     /\ Finish(s)
     /\ UNCHANGED <<now, nonces, buckets, lost, grants>>

-----------------------------------------------------------------------------
(***************************************************************************)
(* The purge task, a crash with the restart after it, and the clock.       *)
(***************************************************************************)
Purge(s) ==
  /\ stage[s] = "idle"
  /\ nonces' = Purged
  /\ UNCHANGED <<now, stage, request, buckets, entries, served, lost, grants>>

\* The database survives the process, the limiter and the memory do not; the
\* new process purges before it accepts requests.
Restart(s) ==
  /\ Finish(s)
  /\ lost' = IF stage[s] = "committed" THEN lost \cup {request[s].auth} ELSE lost
  /\ nonces' = Purged
  /\ buckets' = [buckets EXCEPT ![s] = FullBuckets]
  /\ entries' = [entries EXCEPT ![s] = [t \in Traces |-> None]]
  /\ grants' = [grants EXCEPT ![s] = NoGrants]
  /\ UNCHANGED <<now, served>>

Tick ==
  /\ now < MaxTime                                        \* bound
  /\ now' = now + 1
  /\ UNCHANGED <<nonces, stage, request, buckets, entries, served, lost,
                 grants>>

Handle(s) ==
  (\E r \in Requests : TakeUp(s, r))
    \/ Admit(s) \/ Check(s) \/ Insert(s) \/ Respond(s)

Next == (\E s \in Servers : Handle(s) \/ Purge(s) \/ Restart(s)) \/ Tick

Spec == Init /\ [][Next]_vars

=============================================================================
