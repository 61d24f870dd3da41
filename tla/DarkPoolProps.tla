--------------------------- MODULE DarkPoolProps ----------------------------
(***************************************************************************)
(* What the dark pool promises its clients and its operator.               *)
(***************************************************************************)
EXTENDS DarkPool, Coins

Rows == [key : {Key(a) : a \in Auths}, expires_at : {a.validBefore : a \in Auths}]

\* The types of the variables: no bucket is overdrawn and every row of the
\* table comes from an authorization.
PoolTypeOK ==
  /\ now \in Times
  /\ nonces \subseteq Rows
  /\ stage \in [Servers -> Stages]
  /\ request \in [Servers -> Requests \cup {None}]
  /\ buckets \in [Servers -> [Signers -> Buckets]]
  /\ entries \in [Servers -> [Traces -> Auths \cup {None}]]
  /\ served \subseteq Auths /\ lost \subseteq Auths
  /\ grants \in [Servers -> [Signers -> [Times -> Nat]]]

Admits(s) == stage[s] = "timely" /\ stage'[s] = "admitted"

SomeExpired(k) == \E a \in Auths : Key(a) = k /\ a.validBefore <= now

\* An authorization that has bought an answer is not admitted again, by any
\* server, through crashes and purges, as long as no authorization under its
\* nonce has expired.  From that second on only the first half of
\* _validate_payment protects it, and a server may have read its clock before
\* another one's purge deletes the row.  (Two servers that admitted it before
\* either answered may both answer.)
AnsweredIsSpent ==
  [][\A s \in Servers : Admits(s) /\ request'[s].auth \in served =>
       SomeExpired(Key(request'[s].auth))]_vars

Burnt(a) ==
  \/ a \in served \cup lost
  \/ \E s \in Servers : stage[s] = "committed" /\ request[s].auth = a

\* A nonce is burnt only for an answer: each row belongs to an authorization
\* that has been answered, is about to be, or whose server died in between.
\* A request that is refused (402, 409, 429) leaves the client its nonce.
NoncesBurnOnlyForService ==
  \A row \in nonces : \E a \in Auths : Key(a) = row.key /\ Burnt(a)

\* A paid write is never overwritten by a later one: the trace keeps its payer
\* until its server restarts.
PaidTracesStay ==
  [][\A s \in Servers, t \in Traces :
       entries[s][t] # None => entries'[s][t] \in {entries[s][t], None}]_vars

\* In any window of time a server grants a signer no more than the bucket's
\* capacity and what it refills in the window.
BurstBound ==
  \A s \in Servers, p \in Signers, t1, t2 \in Times :
    t1 <= t2 =>
      Total(grants[s][p], t1 .. t2) <= Capacity + Refill * (t2 - t1)

=============================================================================
