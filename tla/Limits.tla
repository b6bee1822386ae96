------------------------------- MODULE Limits -------------------------------
(***************************************************************************)
(* What an instance of the application counts in memory: the failed logins *)
(* of one e-mail address (AuthService.login_attempts) and the batches of   *)
(* client events of a minute (TelemetryController).  Requests run in       *)
(* threads; a login takes the time once, then the lock, compares the       *)
(* password without the lock, and takes the lock again.                    *)
(***************************************************************************)
EXTENDS Integers, FiniteSets, Sequences

CONSTANTS Slots,          \* requests an instance serves at a time
          MaxFailures,    \* failed logins that block: 5
          LoginWindow,    \* how long failures count, and a block lasts: 5 minutes
          MaxBatches,     \* batches of a window: 100
          BatchWindow,    \* 60 seconds
          MaxClock        \* bound: how long an instance is watched

ASSUME LimitsAssumption ==
    /\ IsFiniteSet(Slots)
    /\ {MaxFailures, LoginWindow, MaxBatches, BatchWindow} \subseteq Nat \ {0}
    /\ MaxClock \in Nat

VARIABLES clock,
          attempts,   \* LoginAttempts of the address
          login,      \* where the login of each slot is
          now,        \* the time it has taken
          window,     \* when the window of batches began
          count,      \* the batches counted in it
          batches     \* history: when each batch was accepted

loginVars == <<attempts, login, now>>
batchVars == <<window, count, batches>>
limitVars == <<clock, loginVars, batchVars>>

\* expires is blocked_until, or window_start and five minutes while there is
\* none; without failures there is no entry.
NoAttempts == [count |-> 0, blocked |-> FALSE, expires |-> 0]

LimitsInit ==
    /\ clock \in 0 .. MaxClock
    /\ attempts = NoAttempts
    /\ login = [s \in Slots |-> "idle"]
    /\ now = [s \in Slots |-> 0]
    /\ window = 0
    /\ count = 0
    /\ batches = << >>

Tick ==
    /\ clock < MaxClock
    /\ clock' = clock + 1
    /\ UNCHANGED <<loginVars, batchVars>>

-----------------------------------------------------------------------------
(* Logins *)

BeginLogin(s) ==
    /\ login[s] = "idle"
    /\ login' = [login EXCEPT ![s] = "begun"]
    /\ now' = [now EXCEPT ![s] = clock]
    /\ UNCHANGED <<clock, attempts, batchVars>>

Expired(s) == attempts.expires <= now[s]

\* Mutant: any entry that was counted up admits the login.
AdmitsAll(s) == TRUE

Admits(s) == Expired(s) \/ ~attempts.blocked

\* The first lock: an expired entry goes; the block of another is reported.
AdmitLogin(s) ==
    /\ login[s] = "begun"
    /\ Admits(s)
    /\ login' = [login EXCEPT ![s] = "checking"]
    /\ attempts' = IF Expired(s) THEN NoAttempts ELSE attempts
    /\ UNCHANGED <<clock, now, batchVars>>

RefuseLogin(s) ==
    /\ login[s] = "begun"
    /\ ~Admits(s)
    /\ login' = [login EXCEPT ![s] = "idle"]
    /\ UNCHANGED <<clock, attempts, now, batchVars>>

\* A fresh entry if there is none or, by the time of this login, an old one.
Counted(s) ==
    LET old == IF attempts.count = 0 \/ Expired(s)
               THEN [NoAttempts EXCEPT !.expires = now[s] + LoginWindow] ELSE attempts
        failures == old.count + 1
        blocks == failures >= MaxFailures /\ ~old.blocked
    IN [count |-> failures,
        blocked |-> old.blocked \/ blocks,
        expires |-> IF blocks THEN now[s] + LoginWindow ELSE old.expires]

\* The second lock, after a wrong password or for an unknown address.
FailLogin(s) ==
    /\ login[s] = "checking"
    /\ attempts' = Counted(s)
    /\ login' = [login EXCEPT ![s] = "idle"]
    /\ UNCHANGED <<clock, now, batchVars>>

\* After the right one; an old hash is then replaced, which is no concern here.
PassLogin(s) ==
    /\ login[s] = "checking"
    /\ attempts' = NoAttempts
    /\ login' = [login EXCEPT ![s] = "idle"]
    /\ UNCHANGED <<clock, now, batchVars>>

\* reset_password forgets the failures of the address.
ForgetFailures ==
    /\ attempts' = NoAttempts
    /\ UNCHANGED <<clock, login, now, batchVars>>

-----------------------------------------------------------------------------
(* Client events *)

\* Mutant: a new window that does not move.
ReopenedWindow == IF clock - window >= BatchWindow THEN <<window, 0>> ELSE <<window, count>>

\* The window and its count as client_events finds them under its lock.
CurrentWindow == IF clock - window >= BatchWindow THEN <<clock, 0>> ELSE <<window, count>>

AcceptBatch ==
    /\ CurrentWindow[2] < MaxBatches
    /\ window' = CurrentWindow[1]
    /\ count' = CurrentWindow[2] + 1
    /\ batches' = Append(batches, clock)
    /\ UNCHANGED <<clock, loginVars>>

-----------------------------------------------------------------------------
Checking == {s \in Slots : login[s] = "checking"}

\* Failures and the passwords being compared: concurrent logins may all pass
\* the first lock before one of them blocks, but only as many as run at a time.
LoginsBounded == attempts.count + Cardinality(Checking) < MaxFailures + Cardinality(Slots)

\* Windows do not overlap, yet batches crowd where one ends and the next
\* begins: at most twice MaxBatches are accepted in any BatchWindow.
BatchesBounded ==
    \A i \in DOMAIN batches :
        i + 2 * MaxBatches \in DOMAIN batches
            => batches[i + 2 * MaxBatches] - batches[i] >= BatchWindow

=============================================================================
