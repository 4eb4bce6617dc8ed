------------------------- MODULE IdempotentOperation -------------------------
(***************************************************************************)
(* What an idempotency key promises to the client that holds it, whatever  *)
(* the operation behind the key is (a send, a spawn) and however it is     *)
(* carried out: a key is reserved once, is handed over to its effect at    *)
(* most once, gets at most one public result, and that result is neither   *)
(* changed nor forgotten before the key has been expired for Grace.        *)
(*                                                                         *)
(* A step may move several keys at once: one maintenance pass, or one      *)
(* presence purge, settles a whole set of rows in one transaction.         *)
(***************************************************************************)
EXTENDS Naturals

CONSTANTS Keys,     \* idempotency keys (issuer scope, kind and key)
          Grace     \* how long an expired record is still kept

VARIABLES now,      \* the daemon's clock
          status,   \* status[k]: the public life cycle of key k
          expires   \* expires[k]: expiry of the reservation of k

vars == <<now, status, expires>>

Results == {"accepted", "rejected", "orphaned"}
Status == {"absent", "prepared", "dispatching"} \cup Results

(* RecordState and the three public results; the only edges a key may take. *)
Edges ==
  ({"prepared"} \X {"dispatching", "rejected"}) \cup ({"dispatching"} \X Results)

Init == /\ now \in Nat
        /\ status = [k \in Keys |-> "absent"]
        /\ expires = [k \in Keys |-> 0]

Reserved(k) == /\ status[k] = "absent"
               /\ status'[k] = "prepared"
               /\ expires'[k] > now

Advanced(k) == /\ <<status[k], status'[k]>> \in Edges
               /\ expires'[k] = expires[k]

Forgotten(k) == /\ status[k] # "absent"
                /\ expires[k] + Grace <= now
                /\ status'[k] = "absent"
                /\ expires'[k] = 0

Kept(k) == status'[k] = status[k] /\ expires'[k] = expires[k]

Next == /\ now' >= now
        /\ \A k \in Keys : Reserved(k) \/ Advanced(k) \/ Forgotten(k) \/ Kept(k)

Spec == Init /\ [][Next]_vars
=============================================================================
