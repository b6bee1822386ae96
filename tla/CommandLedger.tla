---------------------------- MODULE CommandLedger ----------------------------
(***************************************************************************)
(* What an Idempotency-Key promises: of all the requests that carry one    *)
(* key for one operation of one user, one takes effect, and whoever is     *)
(* told of a success is told of that one.                                  *)
(***************************************************************************)
CONSTANT Commands     \* a user, an operation and a key

VARIABLES entries,      \* the commands that took effect, each with the effect it had
          told          \* the effects that are being reported as successes

Init == /\ entries = {}
        /\ told = {}

TakeEffect(x) == /\ x.command \in Commands
                 /\ \A y \in entries : y.command # x.command
                 /\ entries' = entries \cup {x}
                 /\ told' = told \cup {x.effect}

Tell(x) == /\ told' = told \cup {x.effect}
           /\ UNCHANGED entries

\* The report has arrived, or is lost.
Told(e) == /\ told' = told \ {e}
           /\ UNCHANGED entries

Next == \/ \E x \in entries' : TakeEffect(x)
        \/ \E x \in entries : Tell(x)
        \/ \E e \in told : Told(e)

Spec == Init /\ [][Next]_<<entries, told>>

=============================================================================
