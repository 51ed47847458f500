------------------------------ MODULE Sessions ------------------------------
(***************************************************************************)
(* Sessions and rotating refresh tokens of one user in one tenant: the     *)
(* login, refresh, logout and revokeSession of AuthService, the part of    *)
(* AuthGuard that looks at the session, what updateStatus does to the      *)
(* sessions, and the browsers that carry the cookies.                      *)
(*                                                                         *)
(* None of the four handlers runs in a transaction: each await is a        *)
(* statement of its own and a step of its own here.  The claims of an      *)
(* access token are a version; AccessTokens says what is behind it.        *)
(***************************************************************************)
EXTENDS Naturals, FiniteSets

CONSTANTS
    Browsers,    \* cookie jars
    Tabs,        \* each has at most one call at a time
    BrowserOf,   \* the browser of a tab
    Sessions,    \* ids of session rows
    Tokens,      \* ids of refresh_tokens rows
    Faults,      \* may calls vanish: a restart, an exception, a lost reply
    Suspends,    \* may the membership be suspended
    MaxChanges,  \* bound: administrative changes and expiries
    None

(* A family of tokens is the tokens of a session: issueSession starts one  *)
(* for its new session, refresh stays in both.  A token is replaced when   *)
(* some row has it as its parent.                                          *)
TokenRow == [s: Sessions, live: BOOLEAN, parent: Tokens \cup {None}]
Access == [s: Sessions, ver: Nat]

ASSUME SessionAssumption ==
    /\ BrowserOf \in [Tabs -> Browsers]
    /\ Faults \in BOOLEAN /\ Suspends \in BOOLEAN
    /\ MaxChanges \in Nat
    /\ None \notin Sessions \cup Tokens \cup Nat \cup TokenRow \cup Access

VARIABLES
    member,      \* is the membership active
    version,     \* rbac_version and membership_permission_version as one
    changes,     \* changes and expiries so far
    session,     \* user_sessions.status, "none" before the insert
    row,         \* refresh_tokens; None before the insert
    jar,         \* the two cookies of a browser
    call,        \* what a tab's call is about to do
    cut          \* no program state: sessions that had a call cut off

vars == <<member, version, changes, session, row, jar, call, cut>>

Jar == [refresh: Tokens \cup {None}, access: Access \cup {None}]

Idle == [pc |-> "idle", s |-> None, tok |-> None, new |-> None, ver |-> None]
Call == [pc: {"idle", "issue", "orphan", "refresh", "mint", "retire",
              "resolve", "reply", "killTokens", "killSession", "logout",
              "revoke"},
         s: Sessions \cup {None}, tok: Tokens \cup {None},
         new: Tokens \cup {None}, ver: Nat \cup {None}]

SessionTypeOK ==
    /\ member \in BOOLEAN
    /\ version \in 0 .. MaxChanges
    /\ changes \in 0 .. MaxChanges
    /\ session \in [Sessions -> {"none", "active", "revoked"}]
    /\ row \in [Tokens -> TokenRow \cup {None}]
    /\ jar \in [Browsers -> Jar]
    /\ call \in [Tabs -> Call]
    /\ cut \subseteq Sessions

Rows == {k \in Tokens : row[k] # None}
Family(s) == {k \in Rows : row[k].s = s}
LiveTokens(s) == {k \in Family(s) : row[k].live}
Children(k) == {j \in Rows : row[j].parent = k}

SessionInit ==
    /\ member = TRUE
    /\ version = 0
    /\ changes = 0
    /\ session = [s \in Sessions |-> "none"]
    /\ row = [k \in Tokens |-> None]
    /\ jar = [b \in Browsers |-> [refresh |-> None, access |-> None]]
    /\ call = [t \in Tabs |-> Idle]
    /\ cut = {}

At(t, pc) == call[t].pc = pc
Goto(t, c) == call' = [call EXCEPT ![t] = c]
Step(t, pc) == Goto(t, [call[t] EXCEPT !.pc = pc])
Done(t) == Goto(t, Idle)

InsertSwapped(k, s, parent) ==
    /\ row[k] = None
    /\ row' = [row EXCEPT ![k] = [s |-> parent, live |-> TRUE, parent |-> s]]
Insert(k, s, parent) ==
    /\ row[k] = None
    /\ row' = [row EXCEPT ![k] = [s |-> s, live |-> TRUE, parent |-> parent]]

(* updateMany with revokedAt: null, by family or by session.               *)
RevokeAllTokens(s) ==
    row' = [k \in Tokens |-> IF row[k] # None
                             THEN [row[k] EXCEPT !.live = FALSE] ELSE row[k]]
RevokeTokens(s) ==
    row' = [k \in Tokens |-> IF k \in LiveTokens(s)
                             THEN [row[k] EXCEPT !.live = FALSE] ELSE row[k]]
RevokeNoRow(s) == session' = session
RevokeRow(s) == session' = [session EXCEPT ![s] = "revoked"]

-----------------------------------------------------------------------------
(* login up to pickTenant, then issueSession: the insert of the session    *)
(* and resolve run in parallel.                                            *)

(* What resolve answers, as a version.                                     *)
FirstClaims(t) == 0
NewClaims(t) == version

(* Bound: a login starts while there is an id left for its session.        *)
AwaitingId == {t \in Tabs : call[t].pc \in {"orphan", "issue"} /\ call[t].s = None}
FreeIds == {s \in Sessions : session[s] = "none"}

Login(t) ==
    /\ At(t, "idle") /\ member
    /\ Cardinality(AwaitingId) < Cardinality(FreeIds)
    /\ Step(t, "issue")
    /\ UNCHANGED <<member, version, changes, session, row, jar, cut>>

IssueCreate(t, s) ==
    /\ \/ At(t, "issue") /\ call[t].s = None /\ Goto(t, [call[t] EXCEPT !.s = s])
       \/ At(t, "orphan") /\ Done(t)
    /\ session[s] = "none"
    /\ session' = [session EXCEPT ![s] = "active"]
    /\ UNCHANGED <<member, version, changes, row, jar, cut>>

(* When resolve throws, Promise.all rejects at once, but the insert of the *)
(* session goes on: it stays behind without a token.                       *)
IssueResolve(t) ==
    /\ At(t, "issue") /\ call[t].ver = None
    /\ IF member THEN Goto(t, [call[t] EXCEPT !.ver = NewClaims(t)])
       ELSE IF call[t].s = None THEN Step(t, "orphan")
       ELSE Done(t)
    /\ UNCHANGED <<member, version, changes, session, row, jar, cut>>

IssueMint(t, k) ==
    /\ At(t, "issue") /\ call[t].s # None /\ call[t].ver # None
    /\ Insert(k, call[t].s, None)
    /\ Goto(t, [call[t] EXCEPT !.pc = "reply", !.new = k])
    /\ UNCHANGED <<member, version, changes, session, jar, cut>>

-----------------------------------------------------------------------------
(* A request that the guard answers with token_stale, or that has no       *)
(* access cookie any more, makes the tab send its refresh cookie.          *)
Stale(b) ==
    /\ jar[b].refresh # None
    /\ jar[b].access # None =>
         /\ session[jar[b].access.s] = "active" /\ member
         /\ jar[b].access.ver # version

Ask(t) ==
    /\ At(t, "idle") /\ Stale(BrowserOf[t])
    /\ Goto(t, [Idle EXCEPT !.pc = "refresh", !.tok = jar[BrowserOf[t]].refresh])
    /\ UNCHANGED <<member, version, changes, session, row, jar, cut>>

(* refresh: the token and its session, as the first query sees them.       *)
RefreshRead(t) ==
    /\ At(t, "refresh")
    /\ LET r == row[call[t].tok] IN
         IF ~r.live
         THEN Goto(t, [call[t] EXCEPT !.pc = "killTokens", !.s = r.s])
         ELSE IF session[r.s] # "active" THEN Done(t)
         ELSE Goto(t, [call[t] EXCEPT !.pc = "mint", !.s = r.s])
    /\ UNCHANGED <<member, version, changes, session, row, jar, cut>>

RefreshMint(t, k) ==
    /\ At(t, "mint")
    /\ Insert(k, call[t].s, call[t].tok)
    /\ Goto(t, [call[t] EXCEPT !.pc = "retire", !.new = k])
    /\ UNCHANGED <<member, version, changes, session, jar, cut>>

KeepToken(k) == row' = row
RetireToken(k) == row' = [row EXCEPT ![k].live = FALSE]

RefreshRetire(t) ==
    /\ At(t, "retire")
    /\ RetireToken(call[t].tok)
    /\ Step(t, "resolve")
    /\ UNCHANGED <<member, version, changes, session, jar, cut>>

RefreshResolve(t) ==
    /\ At(t, "resolve")
    /\ IF member
       THEN Goto(t, [call[t] EXCEPT !.pc = "reply", !.ver = NewClaims(t)])
       ELSE Done(t)
    /\ UNCHANGED <<member, version, changes, session, row, jar, cut>>

(* Reuse detection: first the family, then the session.                    *)
KillTokens(t) ==
    /\ At(t, "killTokens")
    /\ RevokeTokens(call[t].s)
    /\ Step(t, "killSession")
    /\ UNCHANGED <<member, version, changes, session, jar, cut>>

KillSession(t) ==
    /\ At(t, "killSession")
    /\ RevokeRow(call[t].s)
    /\ Done(t)
    /\ UNCHANGED <<member, version, changes, row, jar, cut>>

(* setAuthCookies, at the browser.                                         *)
Reply(t) ==
    /\ At(t, "reply")
    /\ jar' = [jar EXCEPT ![BrowserOf[t]] =
                 [refresh |-> call[t].new,
                  access |-> [s |-> call[t].s, ver |-> call[t].ver]]]
    /\ Done(t)
    /\ UNCHANGED <<member, version, changes, session, row, cut>>

-----------------------------------------------------------------------------
(* logout and revokeSession: first the session, then its tokens.           *)
LetThrough(b) ==
    /\ jar[b].access # None
    /\ session[jar[b].access.s] = "active" /\ member
    /\ jar[b].access.ver = version

CloseSession(t, s, pc) ==
    /\ At(t, "idle") /\ LetThrough(BrowserOf[t])
    /\ \/ pc = "logout" /\ s = jar[BrowserOf[t]].access.s
       \/ pc = "revoke" /\ session[s] # "none"
    /\ RevokeRow(s)
    /\ Goto(t, [Idle EXCEPT !.pc = pc, !.s = s])
    /\ UNCHANGED <<member, version, changes, row, jar, cut>>

CloseTokens(t) ==
    /\ At(t, "logout") \/ At(t, "revoke")
    /\ RevokeTokens(call[t].s)
    /\ jar' = IF At(t, "logout")
              THEN [jar EXCEPT ![BrowserOf[t]] = [refresh |-> None, access |-> None]]
              ELSE jar
    /\ Done(t)
    /\ UNCHANGED <<member, version, changes, session, cut>>

(* A restart, an exception or a lost reply: nothing more happens.          *)
Vanish(t) ==
    /\ Faults /\ ~At(t, "idle")
    /\ Done(t)
    /\ cut' = cut \cup ({call[t].s} \cap Sessions)
    /\ UNCHANGED <<member, version, changes, session, row, jar>>

-----------------------------------------------------------------------------
(* updateStatus revokes the user's active sessions in its transaction.     *)
UpdateStatus(active) ==
    /\ active \/ Suspends
    /\ changes < MaxChanges
    /\ member' = active
    /\ version' = version + 1
    /\ changes' = changes + 1
    /\ session' = IF active THEN session
                  ELSE [s \in Sessions |-> IF session[s] = "active"
                                           THEN "revoked" ELSE session[s]]
    /\ UNCHANGED <<row, jar, call, cut>>

(* Any other change of Rbac that makes tokens stale.                       *)
ChangePermissions ==
    /\ changes < MaxChanges
    /\ version' = version + 1
    /\ changes' = changes + 1
    /\ UNCHANGED <<member, session, row, jar, call, cut>>

ExpireAccess(b) ==
    /\ changes < MaxChanges
    /\ jar[b].access # None
    /\ jar' = [jar EXCEPT ![b].access = None]
    /\ changes' = changes + 1
    /\ UNCHANGED <<member, version, session, row, call, cut>>

-----------------------------------------------------------------------------
(* The steps of a call that has reached the server.                        *)
ServerStep(t) ==
    \/ \E s \in Sessions : IssueCreate(t, s)
    \/ IssueResolve(t)
    \/ \E k \in Tokens : IssueMint(t, k) \/ RefreshMint(t, k)
    \/ RefreshRead(t) \/ RefreshRetire(t) \/ RefreshResolve(t)
    \/ KillTokens(t) \/ KillSession(t)
    \/ CloseTokens(t)
    \/ Reply(t)

UserStep(t) ==
    \/ Login(t)
    \/ Ask(t)
    \/ \E s \in Sessions, pc \in {"logout", "revoke"} : CloseSession(t, s, pc)

OutsideStep ==
    \/ \E active \in BOOLEAN : UpdateStatus(active)
    \/ ChangePermissions
    \/ \E b \in Browsers : ExpireAccess(b)

SessionNext ==
    \/ \E t \in Tabs : ServerStep(t) \/ UserStep(t) \/ Vanish(t)
    \/ OutsideStep

SessionSpec == SessionInit /\ [][SessionNext]_vars

(* Node runs every continuation, PostgreSQL answers, and a client that got *)
(* token_stale refreshes.                                                  *)
FairSessionSpec ==
    /\ SessionSpec
    /\ \A t \in Tabs : WF_vars(ServerStep(t)) /\ WF_vars(Ask(t))

-----------------------------------------------------------------------------
(* Properties                                                              *)

(* A session has one unrevoked token, two only while a refresh is between  *)
(* its insert and the update of the old one: however refreshes, logouts    *)
(* and revocations of two browsers interleave, as long as none is cut off. *)
OneLiveToken ==
    \A s \in Sessions \ cut :
        \/ Cardinality(LiveTokens(s)) <= 1
        \/ /\ Cardinality(LiveTokens(s)) = 2
           /\ \E t \in Tabs : At(t, "retire") /\ call[t].s = s

(* An active session that ever had a token has one that a refresh can use, *)
(* unless a call is at work on it or was cut off: nobody is left signed in *)
(* without a way to renew, by any interleaving of refreshes, kills and     *)
(* closings.                                                               *)
ActiveHasToken ==
    \A s \in Sessions \ cut :
        session[s] = "active" /\ Family(s) # {} =>
            \/ LiveTokens(s) # {}
            \/ \E t \in Tabs : call[t].s = s

(* A browser that sends one call at a time runs into reuse detection in a  *)
(* session that is active only when the token it was given in exchange     *)
(* never reached it: the call was cut off, or resolve refused it after the *)
(* rotation.  A refresh that raced a logout or a revocation is not taken   *)
(* for a replay: those close the session before they touch its tokens.     *)
ReuseWasLost ==
    \A t \in Tabs :
        At(t, "killTokens") /\ session[call[t].s] = "active" =>
            \/ call[t].s \in cut
            \/ /\ Children(call[t].tok) # {}
               /\ \A k \in Children(call[t].tok) :
                     Children(k) = {} /\ \A b \in Browsers : jar[b].refresh # k

(* README: a stale request leads to token_stale, then refresh.  A browser  *)
(* with stale claims gets current ones, unless its session or membership   *)
(* ends first.                                                             *)
Fresh(b) == jar[b].access # None /\ jar[b].access.ver = version
StaleRecovers ==
    \A b \in Browsers :
        Stale(b) ~> \/ Fresh(b)
                    \/ ~member
                    \/ jar[b].refresh = None
                    \/ session[row[jar[b].refresh].s] = "revoked"

(* However the statements of overlapping logins, refreshes, logouts,       *)
(* revocations and suspensions interleave and wherever they are cut off,   *)
(* every step is one step of the ledger or none: no session comes back, no *)
(* token is good for two sessions or good a second time, and the tokens of *)
(* one session are never spent by what happens to another.                 *)
Phase == [s \in Sessions |-> IF session[s] = "revoked" THEN "closed" ELSE session[s]]
GoodTokens == [s \in Sessions |-> IF session[s] = "active" THEN LiveTokens(s) ELSE {}]
Ledger == INSTANCE SessionLedger WITH
              phase <- Phase, good <- GoodTokens, issued <- Rows
KeepsLedger == Ledger!LedgerSpec

(* The comment in updateStatus: "kill the user's active sessions in this   *)
(* tenant".  Once no call is in flight, a suspended member has none that   *)
(* still has a token for the day the member is active again.               *)
SuspendedHasNoSession ==
    ~member /\ (\A t \in Tabs : At(t, "idle")) =>
        \A s \in Sessions : session[s] = "active" => LiveTokens(s) = {}
=============================================================================
