---------------------------- MODULE MCCommands ----------------------------
(***************************************************************************)
(* IdempotentCommands on small instances: two keys with one lock, and an   *)
(* administrator who places an order of ann besides using a cart.          *)
(***************************************************************************)
EXTENDS IdempotentCommands, TLC

CONSTANTS ann, k1, k2, o1, aLock

OneLock == [k \in Keys |-> aLock]

\* The second key is for a second draft of the only cart that is not empty.
OfAnn == {r \in Requests :
            /\ r.user = ann
            /\ \/ r.op = "cart:replace" /\ (r.key = NoKey => r.version = 2) /\ r.key # k2
               \/ r.op = "order:create" /\ r.version = 2
               \/ r.op = "order:place" /\ r.key = k1 /\ r.arg = o1}

OfAdmins == {r \in Requests :
               /\ r.user \in Admins
               /\ \/ r.op = "cart:replace" /\ r.key = NoKey
                  \/ r.op = "order:place" /\ r.key = k1 /\ r.arg = o1}

FewRequests == OfAnn \cup OfAdmins

=============================================================================
