---------------------------- MODULE ChainSender -----------------------------
(***************************************************************************)
(* scripts/lib/chain.py: how a process signs, broadcasts and waits.  The   *)
(* nonce is read in one call and used in a later one; several processes    *)
(* may sign with one key.                                                  *)
(*                                                                         *)
(* The node is external.  It mines the transactions of a key in the order  *)
(* of their nonces, takes none with a nonce that is mined, and either      *)
(* refuses one whose nonce is pending or puts it in that one's place.      *)
(* What a transaction does is up to the module that extends this one.      *)
(***************************************************************************)
EXTENDS Integers, FiniteSets, SequencesExt

CONSTANTS Processes, Keys

VARIABLES
  nonce,      \* mined transactions, by key
  pool,       \* pending transactions [key, nonce, call]
  sending     \* by process: step of its cast_send, its transaction, the receipt

sendVars == <<nonce, pool, sending>>

NoSend == [at |-> "idle", tx |-> {}, receipt |-> "none"]

SenderInit ==
  /\ nonce = [k \in Keys |-> 0]
  /\ pool = {}
  /\ sending = [p \in Processes |-> NoSend]

\* eth_getTransactionCount(addr, "pending")
get_nonce(k) == nonce[k] + Cardinality({t \in pool : t.key = k})

\* _fetch_tx_params, and the transaction signed with what it says.
Sign(p, k, call) ==
  /\ sending[p].at = "idle"
  /\ sending' = [sending EXCEPT ![p] =
       [at |-> "signed", tx |-> {[key |-> k, nonce |-> get_nonce(k), call |-> call]},
        receipt |-> "none"]]
  /\ UNCHANGED <<nonce, pool>>

Own(p) == CHOOSE t \in sending[p].tx : TRUE
Rivals(t) == {u \in pool : u.key = t.key /\ u.nonce = t.nonce}
Takes(t) ==
  /\ t.nonce >= nonce[t.key]
  /\ pool' = (pool \ Rivals(t)) \cup {t}
  /\ UNCHANGED nonce

\* eth_sendRawTransaction answers with the hash.
Broadcast(p) ==
  /\ sending[p].at = "signed"
  /\ Takes(Own(p))
  /\ sending' = [sending EXCEPT ![p].at = "waiting"]

\* It raises: the node refused, or could not be reached, or its answer got lost.
BroadcastRaises(p) ==
  /\ sending[p].at = "signed"
  /\ Takes(Own(p)) \/ UNCHANGED <<nonce, pool>>

\* A block takes transaction t in, with this status.
Mined(t, status) ==
  /\ t \in pool
  /\ t.nonce = nonce[t.key]
  /\ nonce' = [nonce EXCEPT ![t.key] = @ + 1]
  /\ pool' = pool \ {t}
  /\ sending' = [p \in Processes |->
       IF sending[p].tx = {t} THEN [sending[p] EXCEPT !.receipt = status]
       ELSE sending[p]]

\* wait_for_receipt finds the receipt of its own hash; or the deadline passes,
\* or a call of the poll raises.
AnswerByNonce(p) ==
  IF sending[p].tx # {} /\ nonce[Own(p).key] > Own(p).nonce THEN "ok" ELSE "none"
Answer(p) == sending[p].receipt

Receives(p) ==
  /\ sending[p].at = "waiting"
  /\ Answer(p) # "none"
WaitRaises(p) == sending[p].at = "waiting"

\* What a process that ended leaves of its send.
Dropped(p) == [sending EXCEPT ![p] = NoSend]

=============================================================================
