---------------------------- MODULE SessionLedger ----------------------------
(***************************************************************************)
(* What the sessions promise, without statements, calls or browsers: a     *)
(* session is opened once and closed once, and while it is active it holds *)
(* the refresh tokens that can renew it.  A token is issued once, to one   *)
(* session, and is never good again after it stopped being good.           *)
(***************************************************************************)
CONSTANTS Sessions, Tokens

VARIABLES
    phase,     \* "none", "active" or "closed", by session
    good,      \* the tokens that renew a session, by session
    issued     \* the tokens that were ever given out

ledgerVars == <<phase, good, issued>>

LedgerInit ==
    /\ phase = [s \in Sessions |-> "none"]
    /\ good = [s \in Sessions |-> {}]
    /\ issued = {}

Open(s) ==
    /\ phase[s] = "none"
    /\ phase' = [phase EXCEPT ![s] = "active"]
    /\ UNCHANGED <<good, issued>>

(* A token issued too late is good for nothing.                            *)
Issue(s, k) ==
    /\ k \notin issued
    /\ phase[s] # "none"
    /\ issued' = issued \cup {k}
    /\ good' = IF phase[s] = "active" THEN [good EXCEPT ![s] = @ \cup {k}] ELSE good
    /\ UNCHANGED phase

(* Rotation, logout, revocation and reuse detection: of one session.       *)
Spend(s, K) ==
    /\ good' = [good EXCEPT ![s] = @ \ K]
    /\ UNCHANGED <<phase, issued>>

Close(S) ==
    /\ \A s \in S : phase[s] # "none"
    /\ phase' = [s \in Sessions |-> IF s \in S THEN "closed" ELSE phase[s]]
    /\ good' = [s \in Sessions |-> IF s \in S THEN {} ELSE good[s]]
    /\ UNCHANGED issued

LedgerNext ==
    \/ \E s \in Sessions :
         \/ Open(s)
         \/ \E k \in Tokens : Issue(s, k)
         \/ \E K \in SUBSET Tokens : Spend(s, K)
    \/ \E S \in SUBSET Sessions : Close(S)

LedgerSpec == LedgerInit /\ [][LedgerNext]_ledgerVars
=============================================================================
