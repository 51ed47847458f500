------------------------------- MODULE Signup -------------------------------
(***************************************************************************)
(* Signing up with a one-time code: startSignup, resendSignupOtp and       *)
(* verifySignup of AuthService over the tables signup_verifications, users *)
(* and tenants.                                                            *)
(*                                                                         *)
(* Only the creation of user and tenant at the end of verifySignup is one  *)
(* transaction; everything before it is a statement at a time, and calls   *)
(* for one email may overlap.  All companies ask for the same slug.        *)
(***************************************************************************)
EXTENDS Naturals, FiniteSets

CONSTANTS
    Emails, Passwords,
    Calls,         \* calls that may run at the same time
    MAX_OTP_ATTEMPTS, MAX_RESENDS,
    MaxCodes,      \* bound: codes that are mailed
    None

Codes == 1 .. MaxCodes
NoCode == 0

(* cool: the last mail is younger than RESEND_COOLDOWN_SEC.                *)
Pending == [pw: Passwords, code: Codes, attempts: Nat, resends: Nat,
            expired: BOOLEAN, cool: BOOLEAN]

(* code is no program state: the one the user verified, NoCode for a user  *)
(* that an accepted invitation made.                                       *)
Account == [pw: Passwords, code: Codes \cup {NoCode}, slug: Nat]

Mailed == [e: Emails, pw: Passwords]

ASSUME SignupAssumption ==
    /\ MAX_OTP_ATTEMPTS \in Nat /\ MAX_RESENDS \in Nat /\ MaxCodes \in Nat
    /\ IsFiniteSet(Calls)
    /\ None \notin Pending \cup Account \cup Mailed

VARIABLES
    pending,   \* signup_verifications by email
    account,   \* users, with the slug of the tenant a signup made
    codes,     \* codes mailed so far: code n is the n-th
    madeFor,   \* no program state: what a code was stored with
    call

vars == <<pending, account, codes, madeFor, call>>

(* What verifySignup still uses of the row it compared.                    *)
Compared == [pw: Passwords, code: Codes]

Idle == [pc |-> "idle"]
Call == {Idle}
    \cup [pc: {"start"}, e: Emails, pw: Passwords]
    \cup [pc: {"resend", "drop", "miss"}, e: Emails]
    \cup [pc: {"match", "slug"}, e: Emails, row: Compared]
    \cup [pc: {"create"}, e: Emails, row: Compared, slug: Nat]

SignupTypeOK ==
    /\ pending \in [Emails -> Pending \cup {None}]
    /\ account \in [Emails -> Account \cup {None}]
    /\ codes \in 0 .. MaxCodes
    /\ madeFor \in [Codes -> Mailed \cup {None}]
    /\ call \in [Calls -> Call]

SignupInit ==
    /\ pending = [e \in Emails |-> None]
    /\ account = [e \in Emails |-> None]
    /\ codes = 0
    /\ madeFor = [n \in Codes |-> None]
    /\ call = [x \in Calls |-> Idle]

At(x, pc) == call[x].pc = pc
Goto(x, c) == call' = [call EXCEPT ![x] = c]
SlugsUsed == {account[e].slug : e \in {d \in Emails : account[d] # None}}

(* The row of e with a new code, which is mailed.                          *)
StoreCode(e, row) ==
    /\ codes < MaxCodes
    /\ codes' = codes + 1
    /\ pending' = [pending EXCEPT ![e] = row]
    /\ madeFor' = [madeFor EXCEPT ![row.code] = [e |-> e, pw |-> row.pw]]

-----------------------------------------------------------------------------
(* startSignup                                                             *)

StartCheck(x, e, pw) ==
    /\ At(x, "idle") /\ account[e] = None
    /\ Goto(x, [pc |-> "start", e |-> e, pw |-> pw])
    /\ UNCHANGED <<pending, account, codes, madeFor>>

StartUpsert(x) ==
    /\ At(x, "start")
    /\ StoreCode(call[x].e, [pw |-> call[x].pw, code |-> codes + 1, attempts |-> 0,
                             resends |-> 0, expired |-> FALSE, cool |-> TRUE])
    /\ Goto(x, Idle)
    /\ UNCHANGED account

-----------------------------------------------------------------------------
(* resendSignupOtp: the limits are those of the row it read first          *)

ResendRead(x, e) ==
    /\ At(x, "idle") /\ pending[e] # None
    /\ pending[e].resends < MAX_RESENDS /\ ~pending[e].cool
    /\ Goto(x, [pc |-> "resend", e |-> e])
    /\ UNCHANGED <<pending, account, codes, madeFor>>

ResendUpdate(x) ==
    /\ At(x, "resend")
    /\ LET e == call[x].e IN
         IF pending[e] = None
         THEN UNCHANGED <<pending, codes, madeFor>>
         ELSE StoreCode(e, [pending[e] EXCEPT !.code = codes + 1, !.attempts = 0,
                              !.resends = @ + 1, !.expired = FALSE, !.cool = TRUE])
    /\ Goto(x, Idle)
    /\ UNCHANGED account

-----------------------------------------------------------------------------
(* verifySignup with the code c                                            *)

UsedUpOneLater(row) == row.expired \/ row.attempts > MAX_OTP_ATTEMPTS
UsedUp(row) == row.expired \/ row.attempts >= MAX_OTP_ATTEMPTS

VerifyRead(x, e, c) ==
    /\ At(x, "idle") /\ pending[e] # None
    /\ LET row == pending[e] IN
       Goto(x, IF UsedUp(row)
               THEN [pc |-> "drop", e |-> e]
               ELSE IF c # row.code THEN [pc |-> "miss", e |-> e]
               ELSE [pc |-> "match", e |-> e,
                     row |-> [pw |-> row.pw, code |-> row.code]])
    /\ UNCHANGED <<pending, account, codes, madeFor>>

(* The delete is by email, whatever the row has become.                    *)
Drop(x) ==
    /\ At(x, "drop")
    /\ pending' = [pending EXCEPT ![call[x].e] = None]
    /\ Goto(x, Idle)
    /\ UNCHANGED <<account, codes, madeFor>>

CountDown(n) == n - 1
CountMiss(n) == n + 1

Miss(x) ==
    /\ At(x, "miss")
    /\ LET e == call[x].e IN
       pending' = IF pending[e] = None THEN pending
                  ELSE [pending EXCEPT ![e].attempts = CountMiss(@)]
    /\ Goto(x, Idle)
    /\ UNCHANGED <<account, codes, madeFor>>

MatchCheck(x) ==
    /\ At(x, "match")
    /\ LET e == call[x].e IN
       Goto(x, IF account[e] # None THEN [pc |-> "drop", e |-> e]
               ELSE [call[x] EXCEPT !.pc = "slug"])
    /\ UNCHANGED <<pending, account, codes, madeFor>>

(* uniqueTenantSlug: the first free one of base, base-2, base-3, ...       *)
PickSlug(x) ==
    /\ At(x, "slug")
    /\ \E n \in 1 .. Cardinality(Emails) + 1 :
         /\ n \notin SlugsUsed /\ 1 .. n - 1 \subseteq SlugsUsed
         /\ Goto(x, [pc |-> "create", e |-> call[x].e, row |-> call[x].row, slug |-> n])
    /\ UNCHANGED <<pending, account, codes, madeFor>>

SlugUnchecked(n) == TRUE
SlugFree(n) == n \notin SlugsUsed
PasswordNow(x) == pending[call[x].e].pw
PasswordRead(x) == call[x].row.pw

CreateWithoutTransaction(x) ==
    /\ At(x, "create")
    /\ LET e == call[x].e IN
         /\ account' = IF account[e] # None \/ ~SlugFree(call[x].slug) THEN account
                       ELSE [account EXCEPT ![e] =
                               [pw |-> PasswordRead(x), code |-> call[x].row.code,
                                slug |-> call[x].slug]]
         /\ pending' = [pending EXCEPT ![e] = None]
    /\ Goto(x, Idle)
    /\ UNCHANGED <<codes, madeFor>>

(* The transaction: the unique email, the unique slug and the delete of    *)
(* the pending row roll it back when they fail.                            *)
CreateAccount(x) ==
    /\ At(x, "create")
    /\ LET e == call[x].e IN
         IF account[e] = None /\ SlugFree(call[x].slug) /\ pending[e] # None
         THEN /\ account' = [account EXCEPT ![e] =
                   [pw |-> PasswordRead(x), code |-> call[x].row.code,
                    slug |-> call[x].slug]]
              /\ pending' = [pending EXCEPT ![e] = None]
         ELSE UNCHANGED <<account, pending>>
    /\ Goto(x, Idle)
    /\ UNCHANGED <<codes, madeFor>>

-----------------------------------------------------------------------------
(* Time, and the user that InvitationsService.accept creates.              *)
ExpireCode(e) ==
    /\ pending[e] # None /\ ~pending[e].expired
    /\ pending' = [pending EXCEPT ![e].expired = TRUE]
    /\ UNCHANGED <<account, codes, madeFor, call>>

CoolDown(e) ==
    /\ pending[e] # None /\ pending[e].cool
    /\ pending' = [pending EXCEPT ![e].cool = FALSE]
    /\ UNCHANGED <<account, codes, madeFor, call>>

AcceptInvitation(e, pw) ==
    /\ account[e] = None
    /\ account' = [account EXCEPT ![e] = [pw |-> pw, code |-> NoCode, slug |-> 0]]
    /\ UNCHANGED <<pending, codes, madeFor, call>>

SignupNext ==
    \/ \E x \in Calls, e \in Emails :
         \/ \E pw \in Passwords : StartCheck(x, e, pw)
         \/ ResendRead(x, e)
         \/ \E c \in Codes \cup {NoCode} : VerifyRead(x, e, c)
    \/ \E x \in Calls :
         StartUpsert(x) \/ ResendUpdate(x) \/ Drop(x) \/ Miss(x) \/ MatchCheck(x)
         \/ PickSlug(x) \/ CreateAccount(x)
    \/ \E e \in Emails :
         \/ ExpireCode(e) \/ CoolDown(e)
         \/ \E pw \in Passwords : AcceptInvitation(e, pw)

SignupSpec == SignupInit /\ [][SignupNext]_vars

-----------------------------------------------------------------------------
(* Properties                                                              *)

(* Calls replace row and code between the comparison and the transaction,  *)
(* and the checks of address and slug can be overtaken; still each step is *)
(* one of the registry or none: an account is made once, from a code that  *)
(* was mailed to its address and with the password that code was mailed    *)
(* for, under a slug of its own, and never changed by a later signup.      *)
Registry == INSTANCE AccountRegistry WITH
                accounts <- account, mailed <- madeFor,
                Slugs <- 1 .. Cardinality(Emails) + 1
KeepsRegistry == Registry!RegistrySpec

(* The counters are checked on a row read earlier, but every overlapping   *)
(* call can overshoot a limit only once.                                   *)
LimitsOvershoot ==
    \A e \in Emails :
        pending[e] # None =>
            /\ pending[e].attempts < MAX_OTP_ATTEMPTS + Cardinality(Calls)
            /\ pending[e].resends < MAX_RESENDS + Cardinality(Calls)

(* A signup in progress is never lost: its row goes with the account, or   *)
(* by a call that saw it expired, used up or taken.  A collision of slugs  *)
(* or emails leaves it in place.                                           *)
RowNotLost ==
    [][\A e \in Emails :
         pending[e] # None /\ pending'[e] = None =>
             \/ account'[e] # account[e]
             \/ \E x \in Calls : call[x] = [pc |-> "drop", e |-> e]
                                 /\ call'[x] = Idle]_vars

(* The comment at the table: "A row lives here only until the OTP is       *)
(* verified".                                                              *)
GoneWhenVerified ==
    \A e \in Emails :
        account[e] # None /\ account[e].code # NoCode => pending[e] = None
=============================================================================
