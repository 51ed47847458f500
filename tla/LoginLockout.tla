---------------------------- MODULE LoginLockout ----------------------------
(* AuthService.login up to the session: the credential's failed_login_count*)
(* and locked_until, read once, decided upon after the password hash has   *)
(* been verified (which takes long), and written from what was read.       *)
EXTENDS Naturals

CONSTANTS
    Logins,             \* logins of one user that may be in flight
    MaxFailedLogins,    \* MAX_FAILED_LOGINS
    LockTicks,          \* LOCK_MINUTES
    MostWrong,          \* bound: wrong passwords in a behaviour
    LoginClock          \* bound: the last tick

ASSUME LoginAssumption ==
    /\ MaxFailedLogins \in Nat \ {0} /\ LockTicks \in Nat
    /\ MostWrong \in Nat /\ LoginClock \in Nat \ {0}

VARIABLES
    cred,               \* user_credentials: the count, and locked_until or 0
    loginTime,          \* the clock; it starts at 1
    login,              \* of a login: its step, and the row it has read
    wrong,              \* no program state: wrong passwords written down
    streak,             \* no program state: those since the last right one
    lastWrong,          \* no program state: when the last of them was
    apart               \* no program state: since then no two overlapped

loginVars == <<cred, loginTime, login, wrong, streak, lastWrong, apart>>

Credential == [failed : 0 .. MostWrong, until : 0 .. LoginClock + LockTicks]
NeverFailed == [failed |-> 0, until |-> 0]
NoLogin == [step |-> "idle", seen |-> NeverFailed]

LoginTypeOK ==
    /\ cred \in Credential
    /\ loginTime \in 1 .. LoginClock
    /\ login \in [Logins -> [step : {"idle", "verify", "fail", "reset"}, seen : Credential]]
    /\ {wrong, streak} \subseteq 0 .. MostWrong
    /\ lastWrong \in 0 .. LoginClock
    /\ apart \in BOOLEAN

LoginInit ==
    /\ cred = NeverFailed /\ loginTime = 1
    /\ login = [l \in Logins |-> NoLogin]
    /\ wrong = 0 /\ streak = 0 /\ lastWrong = 0 /\ apart = TRUE

LoginTick ==
    /\ loginTime < LoginClock
    /\ loginTime' = loginTime + 1
    /\ UNCHANGED <<cred, login, wrong, streak, lastWrong, apart>>

InFlight == {l \in Logins : login[l].step # "idle"}

(* The read of user and credential; a locked account is turned away.       *)
Locked == cred.until > loginTime
LoginRead(l) ==
    /\ login[l].step = "idle"
    /\ ~Locked
    /\ login' = [login EXCEPT ![l] = [step |-> "verify", seen |-> cred]]
    /\ apart' = (apart /\ InFlight = {})
    /\ UNCHANGED <<cred, loginTime, wrong, streak, lastWrong>>

(* passwords.verify says yes or no.                                        *)
LoginVerify(l) ==
    /\ login[l].step = "verify"
    /\ \E step \in {"fail", "reset"} : login' = [login EXCEPT ![l].step = step]
    /\ UNCHANGED <<cred, loginTime, wrong, streak, lastWrong, apart>>

(* The update after a wrong password: both columns, the count from the row *)
(* as it was read.                                                         *)
LockedOut(n) == [failed |-> n, until |-> IF n > MaxFailedLogins THEN loginTime + LockTicks ELSE 0]
Failure(n) == [failed |-> n, until |-> IF n >= MaxFailedLogins THEN loginTime + LockTicks ELSE 0]
LoginFail(l) ==
    /\ login[l].step = "fail"
    /\ wrong < MostWrong
    /\ cred' = Failure(login[l].seen.failed + 1)
    /\ login' = [login EXCEPT ![l] = NoLogin]
    /\ wrong' = wrong + 1 /\ streak' = streak + 1 /\ lastWrong' = loginTime
    /\ UNCHANGED <<loginTime, apart>>

(* The update after a right one.  It runs beside the choice of the tenant, *)
(* and stays when that one refuses the login.                              *)
LoginReset(l) ==
    /\ login[l].step = "reset"
    /\ cred' = NeverFailed
    /\ login' = [login EXCEPT ![l] = NoLogin]
    /\ streak' = 0 /\ lastWrong' = 0
    /\ apart' = (InFlight = {l})
    /\ UNCHANGED <<loginTime, wrong>>

(* The process stops, or the database refuses the update.                  *)
LoginDies(l) ==
    /\ login[l].step # "idle"
    /\ login' = [login EXCEPT ![l] = NoLogin]
    /\ UNCHANGED <<cred, loginTime, wrong, streak, lastWrong, apart>>

LoginNext ==
    \/ LoginTick
    \/ \E l \in Logins :
          LoginRead(l) \/ LoginVerify(l) \/ LoginFail(l) \/ LoginReset(l) \/ LoginDies(l)

-----------------------------------------------------------------------------
(* Properties                                                              *)

(* An account is locked only with a full count, and the count never says   *)
(* more than the wrong passwords there were, however logins overlap: what  *)
(* they can do is lose some.  Logins that do not overlap are all counted,  *)
(* and lock the account from the last one on until LOCK_MINUTES are over.  *)
LockIsEarned ==
    /\ cred.failed <= wrong
    /\ cred.until # 0 => cred.failed >= MaxFailedLogins
    /\ apart => /\ cred.failed = streak
                /\ streak >= MaxFailedLogins => cred.until = lastWrong + LockTicks
=============================================================================
