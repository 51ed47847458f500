--------------------------- MODULE SessionsProofs ---------------------------
(***************************************************************************)
(* Proofs about Sessions, for any number of browsers, tabs, sessions and   *)
(* tokens: it keeps its types, every step is a step of SessionLedger or    *)
(* leaves the ledger alone, an active session has a token to renew it, and *)
(* two promises that hold for a browser that makes one call at a time.     *)
(*                                                                         *)
(* SessionInv says what a handler may count on after an await, because     *)
(* nothing ever takes it back: rows and sessions are not deleted, so the   *)
(* session of a row, the row of a cookie, and what an earlier step of the  *)
(* call has found or inserted are still there.  ActiveInv, UsedOnce and    *)
(* LiveInv add what each promise needs: where the token of an active       *)
(* session is while a call is under way, why a spent one that comes back   *)
(* was lost on its way, and which of two unspent ones is not issued yet.   *)
(***************************************************************************)
EXTENDS Sessions, FiniteSetTheorems, TLAPS

CallOK(c, status, rows) ==
    /\ c.s # None => status[c.s] # "none"
    /\ c.pc \notin {"idle", "issue", "orphan", "refresh"} => c.s # None
    /\ c.pc \in {"refresh", "mint", "retire"} => c.tok \in rows
    /\ c.pc \in {"retire", "resolve", "reply"} => c.new \in rows
    /\ c.pc = "reply" => c.ver # None

RowsOfSessions == \A k \in Rows : session[row[k].s] # "none"
JarsHoldRows == \A b \in Browsers : jar[b].refresh # None => jar[b].refresh \in Rows

SessionInv ==
    /\ SessionTypeOK
    /\ version <= changes
    /\ RowsOfSessions
    /\ JarsHoldRows
    /\ \A t \in Tabs : CallOK(call[t], session, Rows)

(* What no step takes back.                                                *)
Keeps ==
    /\ \A s \in Sessions : session[s] # "none" => session'[s] # "none"
    /\ Rows \subseteq Rows'
    /\ \A k \in Rows : row'[k].s = row[k].s

-----------------------------------------------------------------------------
(* What the three statements that write refresh_tokens do to the table.    *)
RowType == [Tokens -> TokenRow \cup {None}]

LEMMA RowFields ==
    ASSUME row \in RowType, NEW k \in Rows
    PROVE  /\ k \in Tokens /\ row[k] \in TokenRow
           /\ row[k].s \in Sessions /\ row[k].live \in BOOLEAN
           /\ row[k].parent \in Tokens \cup {None}
BY DEF RowType, Rows, TokenRow

LEMMA InsertEffect ==
    ASSUME row \in RowType, NEW k \in Tokens, NEW s \in Sessions,
           NEW p \in Tokens \cup {None}, Insert(k, s, p)
    PROVE  /\ row' \in RowType
           /\ k \notin Rows /\ Rows' = Rows \cup {k}
           /\ row'[k] = [s |-> s, live |-> TRUE, parent |-> p]
           /\ \A j \in Rows : row'[j] = row[j]
<1>1. [s |-> s, live |-> TRUE, parent |-> p] \in TokenRow
  BY DEF TokenRow
<1> QED BY <1>1, SessionAssumption DEF RowType, Rows, Insert

LEMMA RetireEffect ==
    ASSUME row \in RowType, NEW k \in Rows, RetireToken(k)
    PROVE  /\ row' \in RowType
           /\ Rows' = Rows
           /\ row'[k].s = row[k].s /\ row'[k].parent = row[k].parent /\ ~row'[k].live
           /\ \A j \in Rows \ {k} : row'[j] = row[j]
BY SessionAssumption DEF RowType, Rows, TokenRow, RetireToken

LEMMA RevokeEffect ==
    ASSUME row \in RowType, NEW s, RevokeTokens(s)
    PROVE  /\ row' \in RowType
           /\ Rows' = Rows
           /\ \A j \in Rows : /\ row'[j].s = row[j].s
                               /\ row'[j].parent = row[j].parent
                               /\ row'[j].live = (row[j].live /\ row[j].s # s)
<1>1. ASSUME NEW j \in Rows
      PROVE  /\ row'[j] \in TokenRow
             /\ row'[j].s = row[j].s /\ row'[j].parent = row[j].parent
             /\ row'[j].live = (row[j].live /\ row[j].s # s)
  <2>1. row[j] \in TokenRow /\ j \in Tokens
    BY RowFields
  <2>2. CASE row[j].live /\ row[j].s = s
    <3>1. row'[j] = [row[j] EXCEPT !.live = FALSE]
      BY <2>1, <2>2 DEF RevokeTokens, LiveTokens, Family, Rows
    <3> QED BY <2>1, <2>2, <3>1 DEF TokenRow
  <2>3. CASE ~(row[j].live /\ row[j].s = s)
    <3>1. row'[j] = row[j]
      BY <2>1, <2>3 DEF RevokeTokens, LiveTokens, Family
    <3> QED BY <2>1, <2>3, <3>1 DEF TokenRow
  <2> QED BY <2>2, <2>3
<1>2. ASSUME NEW j \in Tokens \ Rows PROVE row'[j] = None
  BY <1>2 DEF RevokeTokens, LiveTokens, Family, Rows
<1>3. row' = [j \in Tokens |-> row'[j]]
  BY DEF RevokeTokens
<1> QED BY <1>1, <1>2, <1>3, SessionAssumption DEF RowType, Rows

-----------------------------------------------------------------------------
LEMMA NextKeeps ==
    ASSUME SessionInv, [SessionNext]_vars
    PROVE  Keeps
<1> USE DEF SessionInv, SessionTypeOK, Keeps, Rows
<1>1. CASE session' = session /\ row' = row
  BY <1>1
<1>2. ASSUME NEW t \in Tabs, ServerStep(t) PROVE Keeps
  <2>1. ASSUME NEW s \in Sessions, IssueCreate(t, s) PROVE Keeps
    BY <2>1 DEF IssueCreate
  <2>2. ASSUME NEW k \in Tokens, IssueMint(t, k) PROVE Keeps
    BY <2>2 DEF IssueMint, Insert
  <2>3. ASSUME NEW k \in Tokens, RefreshMint(t, k) PROVE Keeps
    BY <2>3 DEF RefreshMint, Insert
  <2>4. CASE RefreshRetire(t)
    BY <2>4, RetireEffect DEF RefreshRetire, At, CallOK, RowType
  <2>5. CASE KillTokens(t) \/ CloseTokens(t)
    BY <2>5, RevokeEffect DEF KillTokens, CloseTokens, RowType
  <2>6. CASE KillSession(t)
    BY <2>6 DEF KillSession, RevokeRow, At, CallOK
  <2>7. CASE IssueResolve(t) \/ RefreshRead(t) \/ RefreshResolve(t) \/ Reply(t)
    BY <2>7 DEF IssueResolve, RefreshRead, RefreshResolve, Reply
  <2> QED
    BY <1>2, <2>1, <2>2, <2>3, <2>4, <2>5, <2>6, <2>7 DEF ServerStep
<1>3. ASSUME NEW t \in Tabs, UserStep(t) PROVE Keeps
  <2>1. CASE Login(t) \/ Ask(t)
    BY <2>1 DEF Login, Ask
  <2>2. ASSUME NEW s \in Sessions, NEW pc \in {"logout", "revoke"}, CloseSession(t, s, pc)
        PROVE  Keeps
    BY <2>2 DEF CloseSession, RevokeRow
  <2> QED
    BY <1>3, <2>1, <2>2 DEF UserStep
<1>4. ASSUME NEW t \in Tabs, Vanish(t) PROVE Keeps
  BY <1>4 DEF Vanish
<1>5. CASE OutsideStep
  BY <1>5 DEF OutsideStep, UpdateStatus, ChangePermissions, ExpireAccess
<1>6. CASE UNCHANGED vars
  BY <1>6 DEF vars
<1> QED
  BY <1>2, <1>3, <1>4, <1>5, <1>6 DEF SessionNext

-----------------------------------------------------------------------------
(* The invariant is inductive.  A call that does not move keeps what it    *)
(* counts on by NextKeeps; the lemma below is for the ones that do.        *)
LEMMA CallsKeep ==
    ASSUME SessionInv, Keeps, NEW t \in Tabs, NEW c \in Call,
           row' \in RowType, session' \in [Sessions -> {"none", "active", "revoked"}],
           Goto(t, c), CallOK(c, session', Rows')
    PROVE  call' \in [Tabs -> Call] /\ \A u \in Tabs : CallOK(call'[u], session', Rows')
<1>1. call' \in [Tabs -> Call] /\ call'[t] = c
      /\ \A u \in Tabs \ {t} : call'[u] = call[u]
  BY DEF Goto, SessionInv, SessionTypeOK
<1>2. ASSUME NEW u \in Tabs \ {t} PROVE CallOK(call'[u], session', Rows')
  <2>1. CallOK(call[u], session, Rows) /\ call[u] \in Call /\ call'[u] = call[u]
    BY <1>1 DEF SessionInv, SessionTypeOK
  <2>2. call[u].s \in Sessions \cup {None}
    BY <2>1 DEF Call
  <2> QED BY <2>1, <2>2 DEF CallOK, Keeps
<1> QED BY <1>1, <1>2

LEMMA IdleOK == CallOK(Idle, session', Rows') /\ Idle \in Call
BY DEF CallOK, Idle, Call

SessionRowType == [Sessions -> {"none", "active", "revoked"}]

LEMMA RestKeeps ==
    ASSUME SessionInv, Keeps, row' = row \/ Rows' = Rows, row' \in RowType
    PROVE  /\ RowsOfSessions'
           /\ jar' = jar => JarsHoldRows'
<1>1. Rows' = Rows
  BY DEF Rows
<1>2. ASSUME NEW k \in Rows PROVE session'[row'[k].s] # "none"
  BY <1>2, RowFields DEF Keeps, SessionInv, SessionTypeOK, RowsOfSessions, RowType
<1> QED BY <1>1, <1>2 DEF RowsOfSessions, JarsHoldRows, SessionInv

LEMMA ServerStepInv ==
    ASSUME SessionInv, Keeps, NEW t \in Tabs, ServerStep(t)
    PROVE  SessionInv'
<1> USE DEF RowType
<1>0. /\ call[t] \in Call /\ CallOK(call[t], session, Rows)
      /\ row \in RowType /\ session \in SessionRowType
      /\ jar \in [Browsers -> Jar] /\ BrowserOf[t] \in Browsers
      /\ call[t].s \in Sessions \cup {None} /\ call[t].tok \in Tokens \cup {None}
      /\ call[t].new \in Tokens \cup {None} /\ call[t].ver \in Nat \cup {None}
  BY SessionAssumption DEF SessionInv, SessionTypeOK, SessionRowType, Call
<1>1. ASSUME NEW s \in Sessions, IssueCreate(t, s) PROVE SessionInv'
  <2>1. session' \in SessionRowType /\ session'[s] = "active"
    BY <1>0, <1>1 DEF IssueCreate, SessionRowType
  <2>2. CASE At(t, "issue") /\ call[t].s = None /\ Goto(t, [call[t] EXCEPT !.s = s])
    <3>1. [call[t] EXCEPT !.s = s] \in Call
      BY <1>0 DEF Call
    <3>2. CallOK([call[t] EXCEPT !.s = s], session', Rows')
      BY <1>0, <2>1, <2>2 DEF CallOK, At, Call
    <3>3. call' \in [Tabs -> Call] /\ \A u \in Tabs : CallOK(call'[u], session', Rows')
      BY <1>0, <1>1, <2>1, <2>2, <3>1, <3>2, CallsKeep DEF IssueCreate, SessionRowType
    <3> QED
      BY <1>0, <1>1, <2>1, <3>3, RestKeeps
         DEF IssueCreate, SessionInv, SessionTypeOK, SessionRowType
  <2>3. CASE At(t, "orphan") /\ Done(t)
    <3>1. call' \in [Tabs -> Call] /\ \A u \in Tabs : CallOK(call'[u], session', Rows')
      BY <1>0, <1>1, <2>1, <2>3, IdleOK, CallsKeep DEF IssueCreate, Done, SessionRowType
    <3> QED
      BY <1>0, <1>1, <2>1, <3>1, RestKeeps
         DEF IssueCreate, SessionInv, SessionTypeOK, SessionRowType
  <2> QED BY <1>1, <2>2, <2>3 DEF IssueCreate
<1>2. CASE IssueResolve(t)
  <2>1. /\ [call[t] EXCEPT !.ver = version] \in Call
        /\ CallOK([call[t] EXCEPT !.ver = version], session', Rows')
    BY <1>0, <1>2 DEF CallOK, At, Call, IssueResolve, Keeps, SessionInv, SessionTypeOK
  <2>2. call[t].s = None => /\ [call[t] EXCEPT !.pc = "orphan"] \in Call
                            /\ CallOK([call[t] EXCEPT !.pc = "orphan"], session', Rows')
    BY <1>0 DEF CallOK, Call
  <2>3. call' \in [Tabs -> Call] /\ \A u \in Tabs : CallOK(call'[u], session', Rows')
    BY <1>0, <1>2, <2>1, <2>2, IdleOK, CallsKeep
       DEF IssueResolve, NewClaims, Step, Done, SessionRowType
  <2> QED
    BY <1>0, <1>2, <2>3, RestKeeps DEF IssueResolve, SessionInv, SessionTypeOK
<1>3. ASSUME NEW k \in Tokens, IssueMint(t, k) PROVE SessionInv'
  <2>1. /\ row' \in RowType /\ Rows' = Rows \cup {k}
        /\ row'[k].s = call[t].s /\ \A j \in Rows : row'[j] = row[j]
    <3>1. call[t].s \in Sessions /\ None \in Tokens \cup {None} /\ Insert(k, call[t].s, None)
      BY <1>0, <1>3 DEF IssueMint
    <3>2. row'[k] = [s |-> call[t].s, live |-> TRUE, parent |-> None]
      BY <1>0, <3>1, InsertEffect
    <3> QED BY <1>0, <3>1, <3>2, InsertEffect
  <2>2. /\ [call[t] EXCEPT !.pc = "reply", !.new = k] \in Call
        /\ CallOK([call[t] EXCEPT !.pc = "reply", !.new = k], session', Rows')
    BY <1>0, <1>3, <2>1 DEF CallOK, Call, IssueMint
  <2>3. call' \in [Tabs -> Call] /\ \A u \in Tabs : CallOK(call'[u], session', Rows')
    BY <1>0, <1>3, <2>1, <2>2, CallsKeep DEF IssueMint, SessionRowType
  <2>4. RowsOfSessions'
    BY <1>0, <1>3, <2>1 DEF IssueMint, CallOK, SessionInv, RowsOfSessions
  <2> QED
    BY <1>3, <2>1, <2>3, <2>4 DEF IssueMint, SessionInv, SessionTypeOK, JarsHoldRows
<1>4. ASSUME NEW k \in Tokens, RefreshMint(t, k) PROVE SessionInv'
  <2>1. /\ row' \in RowType /\ Rows' = Rows \cup {k}
        /\ row'[k].s = call[t].s /\ \A j \in Rows : row'[j] = row[j]
    <3>1. call[t].s \in Sessions /\ call[t].tok \in Tokens
          /\ Insert(k, call[t].s, call[t].tok)
      BY <1>0, <1>4 DEF RefreshMint, At, CallOK, Rows
    <3>2. row'[k] = [s |-> call[t].s, live |-> TRUE, parent |-> call[t].tok]
      BY <1>0, <3>1, InsertEffect
    <3> QED BY <1>0, <3>1, <3>2, InsertEffect
  <2>2. /\ [call[t] EXCEPT !.pc = "retire", !.new = k] \in Call
        /\ CallOK([call[t] EXCEPT !.pc = "retire", !.new = k], session', Rows')
    BY <1>0, <1>4, <2>1 DEF CallOK, Call, RefreshMint, At
  <2>3. call' \in [Tabs -> Call] /\ \A u \in Tabs : CallOK(call'[u], session', Rows')
    BY <1>0, <1>4, <2>1, <2>2, CallsKeep DEF RefreshMint, SessionRowType
  <2>4. RowsOfSessions'
    BY <1>0, <1>4, <2>1 DEF RefreshMint, At, CallOK, SessionInv, RowsOfSessions
  <2> QED
    BY <1>4, <2>1, <2>3, <2>4 DEF RefreshMint, SessionInv, SessionTypeOK, JarsHoldRows
<1>5. CASE RefreshRead(t)
  <2>1. call[t].tok \in Rows /\ row[call[t].tok].s \in Sessions
        /\ session[row[call[t].tok].s] # "none"
    BY <1>0, <1>5, RowFields DEF RefreshRead, At, CallOK, SessionInv, RowsOfSessions
  <2> DEFINE moved(pc) == [call[t] EXCEPT !.pc = pc, !.s = row[call[t].tok].s]
  <2>2. \A pc \in {"killTokens", "mint"} :
          moved(pc) \in Call /\ CallOK(moved(pc), session', Rows')
    <3>1. session' = session /\ Rows' = Rows
      BY <1>5 DEF RefreshRead, Rows
    <3>2. ASSUME NEW pc \in {"killTokens", "mint"}
          PROVE  /\ moved(pc) \in Call /\ moved(pc).pc = pc
                 /\ moved(pc).s = row[call[t].tok].s /\ moved(pc).tok = call[t].tok
      BY <1>0, <2>1 DEF Call
    <3> HIDE DEF moved
    <3> QED BY <2>1, <3>1, <3>2, SessionAssumption DEF CallOK
  <2>3. call' \in [Tabs -> Call] /\ \A u \in Tabs : CallOK(call'[u], session', Rows')
    BY <1>0, <1>5, <2>2, IdleOK, CallsKeep DEF RefreshRead, Done, SessionRowType
  <2> QED
    BY <1>0, <1>5, <2>3, RestKeeps DEF RefreshRead, SessionInv, SessionTypeOK
<1>6. CASE RefreshRetire(t)
  <2>1. row' \in RowType /\ Rows' = Rows
    BY <1>0, <1>6, RetireEffect DEF RefreshRetire, At, CallOK
  <2>2. /\ [call[t] EXCEPT !.pc = "resolve"] \in Call
        /\ CallOK([call[t] EXCEPT !.pc = "resolve"], session', Rows')
    BY <1>0, <1>6, <2>1 DEF CallOK, Call, RefreshRetire, At
  <2>3. call' \in [Tabs -> Call] /\ \A u \in Tabs : CallOK(call'[u], session', Rows')
    BY <1>0, <1>6, <2>1, <2>2, CallsKeep DEF RefreshRetire, Step, SessionRowType
  <2> QED
    BY <1>0, <1>6, <2>1, <2>3, RestKeeps DEF RefreshRetire, SessionInv, SessionTypeOK
<1>7. CASE RefreshResolve(t)
  <2> DEFINE c == [call[t] EXCEPT !.pc = "reply", !.ver = version]
  <2>1. c \in Call /\ CallOK(c, session', Rows')
    <3>1. session' = session /\ Rows' = Rows /\ version \in Nat /\ version # None
      BY <1>7, SessionAssumption DEF RefreshResolve, Rows, SessionInv, SessionTypeOK
    <3>2. /\ c \in Call /\ c.pc = "reply" /\ c.ver = version
          /\ c.s = call[t].s /\ c.new = call[t].new
      BY <1>0, <3>1 DEF Call
    <3> HIDE DEF c
    <3> QED BY <1>0, <1>7, <3>1, <3>2 DEF CallOK, RefreshResolve, At
  <2>2. call' \in [Tabs -> Call] /\ \A u \in Tabs : CallOK(call'[u], session', Rows')
    BY <1>0, <1>7, <2>1, IdleOK, CallsKeep DEF RefreshResolve, NewClaims, Done, SessionRowType
  <2> QED
    BY <1>0, <1>7, <2>2, RestKeeps DEF RefreshResolve, SessionInv, SessionTypeOK
<1>8. CASE KillTokens(t)
  <2>1. row' \in RowType /\ Rows' = Rows
    BY <1>0, <1>8, RevokeEffect DEF KillTokens
  <2>2. /\ [call[t] EXCEPT !.pc = "killSession"] \in Call
        /\ CallOK([call[t] EXCEPT !.pc = "killSession"], session', Rows')
    BY <1>0, <1>8, <2>1 DEF CallOK, Call, KillTokens, At
  <2>3. call' \in [Tabs -> Call] /\ \A u \in Tabs : CallOK(call'[u], session', Rows')
    BY <1>0, <1>8, <2>1, <2>2, CallsKeep DEF KillTokens, Step, SessionRowType
  <2> QED
    BY <1>0, <1>8, <2>1, <2>3, RestKeeps DEF KillTokens, SessionInv, SessionTypeOK
<1>9. CASE KillSession(t)
  <2>1. session' \in SessionRowType
    BY <1>0, <1>9 DEF KillSession, RevokeRow, SessionRowType
  <2>2. call' \in [Tabs -> Call] /\ \A u \in Tabs : CallOK(call'[u], session', Rows')
    BY <1>0, <1>9, <2>1, IdleOK, CallsKeep DEF KillSession, Done, SessionRowType
  <2> QED
    BY <1>0, <1>9, <2>1, <2>2, RestKeeps
       DEF KillSession, SessionInv, SessionTypeOK, SessionRowType
<1>10. CASE CloseTokens(t)
  <2>1. row' \in RowType /\ Rows' = Rows
    BY <1>0, <1>10, RevokeEffect DEF CloseTokens
  <2>2. call' \in [Tabs -> Call] /\ \A u \in Tabs : CallOK(call'[u], session', Rows')
    BY <1>0, <1>10, <2>1, IdleOK, CallsKeep DEF CloseTokens, Done, SessionRowType
  <2>3. jar' \in [Browsers -> Jar] /\ JarsHoldRows'
    BY <1>0, <1>10, <2>1 DEF CloseTokens, Jar, SessionInv, JarsHoldRows
  <2> QED
    BY <1>0, <1>10, <2>1, <2>2, <2>3, RestKeeps DEF CloseTokens, SessionInv, SessionTypeOK
<1>11. CASE Reply(t)
  <2>1. call' \in [Tabs -> Call] /\ \A u \in Tabs : CallOK(call'[u], session', Rows')
    BY <1>0, <1>11, IdleOK, CallsKeep DEF Reply, Done, SessionRowType
  <2>2. [refresh |-> call[t].new, access |-> [s |-> call[t].s, ver |-> call[t].ver]] \in Jar
    BY <1>0, <1>11 DEF Reply, At, CallOK, Jar, Access
  <2>3. jar' \in [Browsers -> Jar] /\ JarsHoldRows'
    BY <1>0, <1>11, <2>2 DEF Reply, At, CallOK, SessionInv, JarsHoldRows, Rows
  <2> QED
    BY <1>0, <1>11, <2>1, <2>3, RestKeeps DEF Reply, SessionInv, SessionTypeOK
<1> QED
  BY <1>1, <1>2, <1>3, <1>4, <1>5, <1>6, <1>7, <1>8, <1>9, <1>10, <1>11 DEF ServerStep

LEMMA OtherStepInv ==
    ASSUME SessionInv, Keeps, [SessionNext]_vars, row' = row,
           \A t \in Tabs : ~ServerStep(t)
    PROVE  SessionInv'
<1> USE DEF RowType
<1>0. /\ Rows' = Rows /\ row \in RowType
      /\ session \in SessionRowType /\ jar \in [Browsers -> Jar]
      /\ \A t \in Tabs : BrowserOf[t] \in Browsers /\ call[t] \in Call
                       /\ CallOK(call[t], session, Rows)
  BY SessionAssumption DEF SessionInv, SessionTypeOK, SessionRowType, Rows
<1>1. ASSUME NEW t \in Tabs, Login(t) PROVE SessionInv'
  <2>1. /\ [call[t] EXCEPT !.pc = "issue"] \in Call
        /\ CallOK([call[t] EXCEPT !.pc = "issue"], session', Rows')
    BY <1>0, <1>1 DEF CallOK, Call, Login
  <2>2. call' \in [Tabs -> Call] /\ \A u \in Tabs : CallOK(call'[u], session', Rows')
    BY <1>0, <1>1, <2>1, CallsKeep DEF Login, Step, SessionRowType
  <2> QED BY <1>0, <1>1, <2>2, RestKeeps DEF Login, SessionInv, SessionTypeOK
<1>2. ASSUME NEW t \in Tabs, Ask(t) PROVE SessionInv'
  <2>1. jar[BrowserOf[t]].refresh \in Rows
    BY <1>0, <1>2 DEF Ask, Stale, SessionInv, JarsHoldRows
  <2>2. LET c == [Idle EXCEPT !.pc = "refresh", !.tok = jar[BrowserOf[t]].refresh]
        IN  c \in Call /\ CallOK(c, session', Rows')
    BY <1>0, <2>1 DEF CallOK, Call, Idle, Rows
  <2>3. call' \in [Tabs -> Call] /\ \A u \in Tabs : CallOK(call'[u], session', Rows')
    BY <1>0, <1>2, <2>2, CallsKeep DEF Ask, SessionRowType
  <2> QED BY <1>0, <1>2, <2>3, RestKeeps DEF Ask, SessionInv, SessionTypeOK
<1>3. ASSUME NEW t \in Tabs, NEW s \in Sessions, NEW pc \in {"logout", "revoke"},
             CloseSession(t, s, pc)
      PROVE  SessionInv'
  <2>1. session' \in SessionRowType /\ session'[s] = "revoked"
    BY <1>0, <1>3 DEF CloseSession, RevokeRow, SessionRowType
  <2>2. LET c == [Idle EXCEPT !.pc = pc, !.s = s]
        IN  c \in Call /\ CallOK(c, session', Rows')
    BY <2>1, SessionAssumption DEF CallOK, Call, Idle
  <2>3. call' \in [Tabs -> Call] /\ \A u \in Tabs : CallOK(call'[u], session', Rows')
    BY <1>0, <1>3, <2>1, <2>2, CallsKeep DEF CloseSession, SessionRowType
  <2> QED
    BY <1>0, <1>3, <2>1, <2>3, RestKeeps
       DEF CloseSession, SessionInv, SessionTypeOK, SessionRowType
<1>4. ASSUME NEW t \in Tabs, Vanish(t) PROVE SessionInv'
  <2>1. call' \in [Tabs -> Call] /\ \A u \in Tabs : CallOK(call'[u], session', Rows')
    BY <1>0, <1>4, IdleOK, CallsKeep DEF Vanish, Done, SessionRowType
  <2> QED BY <1>0, <1>4, <2>1, RestKeeps DEF Vanish, SessionInv, SessionTypeOK
<1>5. CASE OutsideStep
  <2>1. call' = call /\ \A u \in Tabs : CallOK(call'[u], session', Rows')
    <3>1. call' = call
      BY <1>5 DEF OutsideStep, UpdateStatus, ChangePermissions, ExpireAccess
    <3>2. \A u \in Tabs : call[u].s \in Sessions \cup {None}
      BY <1>0 DEF Call
    <3> QED BY <1>0, <3>1, <3>2 DEF CallOK, Keeps
  <2>2. /\ session' \in SessionRowType /\ member' \in BOOLEAN
        /\ version' \in 0 .. MaxChanges /\ changes' \in 0 .. MaxChanges
        /\ version' <= changes' /\ cut' = cut
    BY <1>0, <1>5, SessionAssumption
       DEF OutsideStep, UpdateStatus, ChangePermissions, ExpireAccess, SessionInv,
           SessionTypeOK, SessionRowType
  <2>3. jar' \in [Browsers -> Jar] /\ JarsHoldRows'
    <3>1. CASE jar' = jar
      BY <1>0, <3>1, RestKeeps
    <3>2. ASSUME NEW b \in Browsers, ExpireAccess(b)
          PROVE  jar' \in [Browsers -> Jar] /\ JarsHoldRows'
      BY <1>0, <3>2 DEF ExpireAccess, Jar, SessionInv, JarsHoldRows
    <3> QED BY <1>5, <3>1, <3>2 DEF OutsideStep, UpdateStatus, ChangePermissions
  <2> QED
    BY <1>0, <2>1, <2>2, <2>3, RestKeeps DEF SessionInv, SessionTypeOK, SessionRowType
<1>6. CASE UNCHANGED vars
  BY <1>6 DEF vars, SessionInv, SessionTypeOK, RowsOfSessions, JarsHoldRows, CallOK, Rows
<1> QED
  BY <1>1, <1>2, <1>3, <1>4, <1>5, <1>6 DEF SessionNext, UserStep

LEMMA SessionInvNext == SessionInv /\ [SessionNext]_vars => SessionInv'
<1> SUFFICES ASSUME SessionInv, [SessionNext]_vars PROVE SessionInv'
  OBVIOUS
<1>1. CASE \E t \in Tabs : ServerStep(t)
  BY <1>1, NextKeeps, ServerStepInv
<1>2. CASE \A t \in Tabs : ~ServerStep(t)
  <2>1. row' = row
    BY <1>2 DEF SessionNext, UserStep, OutsideStep, Login, Ask, CloseSession, Vanish,
         UpdateStatus, ChangePermissions, ExpireAccess, vars
  <2> QED BY <1>2, <2>1, NextKeeps, OtherStepInv
<1> QED BY <1>1, <1>2

LEMMA SessionInvInit == SessionInit => SessionInv
BY SessionAssumption, IdleOK
   DEF SessionInit, SessionInv, SessionTypeOK, RowsOfSessions, JarsHoldRows, Rows, CallOK,
       Idle, Call, Jar

LEMMA SessionInvHolds == SessionSpec => []SessionInv
BY SessionInvInit, SessionInvNext, PTL DEF SessionSpec

(* The statements of the four handlers keep the tables, the cookies and    *)
(* the calls of any number of browsers well formed.                        *)
THEOREM SessionTypeCorrect == SessionSpec => []SessionTypeOK
<1>1. SessionInv => SessionTypeOK
  BY DEF SessionInv
<1> QED BY <1>1, SessionInvHolds, PTL

-----------------------------------------------------------------------------
(* Every step is a step of the ledger, or leaves it alone.                 *)
LEMMA MintIssues ==
    ASSUME SessionInv, NEW k \in Tokens, NEW s \in Sessions, NEW p \in Tokens \cup {None},
           session[s] # "none", Insert(k, s, p), session' = session
    PROVE  Ledger!Issue(s, k)
<1>1. /\ k \notin Rows /\ Rows' = Rows \cup {k}
      /\ row'[k] = [s |-> s, live |-> TRUE, parent |-> p]
      /\ \A j \in Rows : row'[j] = row[j]
  BY InsertEffect DEF SessionInv, SessionTypeOK, RowType
<1>2. \A r \in Sessions : LiveTokens(r)' = IF r = s THEN LiveTokens(r) \cup {k}
                                                  ELSE LiveTokens(r)
  BY <1>1 DEF LiveTokens, Family
<1>3. GoodTokens' = IF session[s] = "active"
                    THEN [GoodTokens EXCEPT ![s] = @ \cup {k}] ELSE GoodTokens
  BY <1>2 DEF GoodTokens
<1>4. Phase[s] # "none" /\ Phase' = Phase /\ (Phase[s] = "active" <=> session[s] = "active")
  BY DEF Phase
<1> QED BY <1>1, <1>3, <1>4 DEF Ledger!Issue

LEMMA RevokeSpends ==
    ASSUME SessionInv, NEW s \in Sessions, RevokeTokens(s), session' = session
    PROVE  Ledger!Spend(s, Tokens)
<1>1. Rows' = Rows /\ \A j \in Rows : /\ row'[j].s = row[j].s
                                     /\ row'[j].live = (row[j].live /\ row[j].s # s)
  BY RevokeEffect DEF SessionInv, SessionTypeOK, RowType
<1>2. \A r \in Sessions : LiveTokens(r)' = IF r = s THEN {} ELSE LiveTokens(r)
  BY <1>1 DEF LiveTokens, Family
<1>3. \A r \in Sessions : LiveTokens(r) \subseteq Tokens
  BY DEF LiveTokens, Family, Rows
<1>4. GoodTokens' = [GoodTokens EXCEPT ![s] = @ \ Tokens]
  BY <1>2, <1>3 DEF GoodTokens
<1>5. Phase' = Phase
  BY DEF Phase
<1> QED BY <1>1, <1>4, <1>5 DEF Ledger!Spend

LEMMA RetireSpends ==
    ASSUME SessionInv, NEW k \in Rows, RetireToken(k), session' = session
    PROVE  Ledger!Spend(row[k].s, {k})
<1>1. /\ Rows' = Rows /\ row'[k].s = row[k].s /\ ~row'[k].live
      /\ \A j \in Rows \ {k} : row'[j] = row[j]
  BY RetireEffect DEF SessionInv, SessionTypeOK, RowType
<1>2. row[k].s \in Sessions
  BY RowFields DEF SessionInv, SessionTypeOK, RowType
<1>3. \A r \in Sessions : LiveTokens(r)' = LiveTokens(r) \ {k}
  BY <1>1 DEF LiveTokens, Family
<1>4. \A r \in Sessions \ {row[k].s} : k \notin LiveTokens(r)
  BY DEF LiveTokens, Family
<1>5. GoodTokens' = [GoodTokens EXCEPT ![row[k].s] = @ \ {k}]
  <2>1. \A r \in Sessions : GoodTokens'[r] = IF r = row[k].s THEN GoodTokens[r] \ {k}
                                                       ELSE GoodTokens[r]
    BY <1>3, <1>4 DEF GoodTokens
  <2>2. GoodTokens' = [r \in Sessions |-> GoodTokens'[r]]
        /\ GoodTokens = [r \in Sessions |-> GoodTokens[r]]
    BY DEF GoodTokens
  <2> QED BY <1>2, <2>1, <2>2
<1>6. Phase' = Phase
  BY DEF Phase
<1> QED BY <1>1, <1>5, <1>6 DEF Ledger!Spend

LEMMA RevokeCloses ==
    ASSUME SessionInv, NEW S \in SUBSET Sessions, \A s \in S : session[s] # "none",
           session' = [s \in Sessions |-> IF s \in S THEN "revoked" ELSE session[s]],
           row' = row
    PROVE  Ledger!Close(S)
<1>1. Rows' = Rows /\ \A s \in Sessions : LiveTokens(s)' = LiveTokens(s)
  BY DEF Rows, LiveTokens, Family
<1>2. Phase' = [s \in Sessions |-> IF s \in S THEN "closed" ELSE Phase[s]]
  BY DEF Phase
<1>3. GoodTokens' = [s \in Sessions |-> IF s \in S THEN {} ELSE GoodTokens[s]]
  BY <1>1 DEF GoodTokens
<1>4. \A s \in S : Phase[s] # "none"
  BY DEF Phase
<1> QED BY <1>1, <1>2, <1>3, <1>4 DEF Ledger!Close

LEMMA CreateOpens ==
    ASSUME SessionInv, NEW s \in Sessions, session[s] = "none",
           session' = [session EXCEPT ![s] = "active"], row' = row
    PROVE  Ledger!Open(s)
<1>1. Rows' = Rows /\ \A r \in Sessions : LiveTokens(r)' = LiveTokens(r)
  BY DEF Rows, LiveTokens, Family
<1>2. LiveTokens(s) = {}
  BY DEF SessionInv, RowsOfSessions, LiveTokens, Family
<1>3. GoodTokens' = GoodTokens
  BY <1>1, <1>2 DEF GoodTokens, SessionInv, SessionTypeOK
<1>4. Phase[s] = "none" /\ Phase' = [Phase EXCEPT ![s] = "active"]
  BY DEF Phase, SessionInv, SessionTypeOK
<1> QED BY <1>1, <1>3, <1>4 DEF Ledger!Open

LEMMA LedgerStep ==
    ASSUME SessionInv, [SessionNext]_vars
    PROVE  [Ledger!LedgerNext]_(Ledger!ledgerVars)
<1>0. ASSUME session' = session, row' = row
      PROVE  [Ledger!LedgerNext]_(Ledger!ledgerVars)
  BY <1>0 DEF Ledger!ledgerVars, Phase, GoodTokens, LiveTokens, Family, Rows
<1>1. ASSUME NEW t \in Tabs, ServerStep(t)
      PROVE  [Ledger!LedgerNext]_(Ledger!ledgerVars)
  <2>0. call[t] \in Call /\ CallOK(call[t], session, Rows)
        /\ call[t].s \in Sessions \cup {None}
    BY DEF SessionInv, SessionTypeOK, Call
  <2>1. ASSUME NEW s \in Sessions, IssueCreate(t, s) PROVE Ledger!LedgerNext
    BY <2>1, CreateOpens DEF IssueCreate, Ledger!LedgerNext
  <2>2. ASSUME NEW k \in Tokens, IssueMint(t, k) PROVE Ledger!LedgerNext
    <3>1. call[t].s \in Sessions /\ session[call[t].s] # "none"
      BY <2>0, <2>2 DEF IssueMint, CallOK
    <3> QED BY <2>2, <3>1, MintIssues DEF IssueMint, Ledger!LedgerNext
  <2>3. ASSUME NEW k \in Tokens, RefreshMint(t, k) PROVE Ledger!LedgerNext
    <3>1. call[t].s \in Sessions /\ session[call[t].s] # "none" /\ call[t].tok \in Tokens
      BY <2>0, <2>3 DEF RefreshMint, At, CallOK, Rows
    <3> QED BY <2>3, <3>1, MintIssues DEF RefreshMint, Ledger!LedgerNext
  <2>4. CASE RefreshRetire(t)
    <3>1. call[t].tok \in Rows /\ row[call[t].tok].s \in Sessions
          /\ {call[t].tok} \in SUBSET Tokens
      BY <2>0, <2>4, RowFields
         DEF RefreshRetire, At, CallOK, SessionInv, SessionTypeOK, RowType
    <3> QED BY <2>4, <3>1, RetireSpends DEF RefreshRetire, Ledger!LedgerNext
  <2>5. CASE KillTokens(t) \/ CloseTokens(t)
    <3>1. call[t].s \in Sessions /\ RevokeTokens(call[t].s) /\ session' = session
      BY <2>0, <2>5 DEF KillTokens, CloseTokens, At, CallOK
    <3> QED BY <3>1, RevokeSpends DEF Ledger!LedgerNext
  <2>6. CASE KillSession(t)
    <3>1. /\ call[t].s \in Sessions /\ session[call[t].s] # "none" /\ row' = row
          /\ session' = [session EXCEPT ![call[t].s] = "revoked"]
      BY <2>0, <2>6 DEF KillSession, RevokeRow, At, CallOK
    <3>2. session' = [s \in Sessions |-> IF s \in {call[t].s} THEN "revoked" ELSE session[s]]
      BY <3>1 DEF SessionInv, SessionTypeOK
    <3>3. Ledger!Close({call[t].s})
      BY <3>1, <3>2, RevokeCloses
    <3> QED BY <3>1, <3>3 DEF Ledger!LedgerNext
  <2>7. CASE IssueResolve(t) \/ RefreshRead(t) \/ RefreshResolve(t) \/ Reply(t)
    BY <1>0, <2>7 DEF IssueResolve, RefreshRead, RefreshResolve, Reply
  <2> QED
    BY <1>1, <2>1, <2>2, <2>3, <2>4, <2>5, <2>6, <2>7 DEF ServerStep
<1>2. ASSUME NEW t \in Tabs, NEW s \in Sessions, NEW pc \in {"logout", "revoke"},
             CloseSession(t, s, pc)
      PROVE  Ledger!LedgerNext
  <2>1. session[s] # "none" /\ row' = row /\ session' = [session EXCEPT ![s] = "revoked"]
    BY <1>2 DEF CloseSession, RevokeRow, LetThrough
  <2>2. session' = [r \in Sessions |-> IF r \in {s} THEN "revoked" ELSE session[r]]
    BY <2>1 DEF SessionInv, SessionTypeOK
  <2> QED BY <2>1, <2>2, RevokeCloses DEF Ledger!LedgerNext
<1>3. ASSUME NEW active \in BOOLEAN, UpdateStatus(active)
      PROVE  [Ledger!LedgerNext]_(Ledger!ledgerVars)
  <2>1. CASE active
    BY <1>0, <1>3, <2>1 DEF UpdateStatus
  <2>2. CASE ~active
    <3> DEFINE S == {s \in Sessions : session[s] = "active"}
    <3>1. session' = [s \in Sessions |-> IF s \in S THEN "revoked" ELSE session[s]]
      BY <1>3, <2>2 DEF UpdateStatus
    <3> QED BY <1>3, <3>1, RevokeCloses DEF UpdateStatus, Ledger!LedgerNext
  <2> QED BY <2>1, <2>2
<1>4. CASE \/ \E t \in Tabs : Login(t) \/ Ask(t) \/ Vanish(t)
           \/ ChangePermissions \/ (\E b \in Browsers : ExpireAccess(b))
           \/ UNCHANGED vars
  BY <1>0, <1>4 DEF Login, Ask, Vanish, ChangePermissions, ExpireAccess, vars
<1> QED
  BY <1>1, <1>2, <1>3, <1>4 DEF SessionNext, UserStep, OutsideStep

(* The handlers, statement by statement and cut off anywhere, implement    *)
(* the ledger: closed sessions stay closed, spent tokens stay spent, and   *)
(* what is done to one session touches no other.                           *)
THEOREM SessionsKeepLedger == SessionSpec => KeepsLedger
<1>1. SessionInit => Ledger!LedgerInit
  BY DEF SessionInit, Ledger!LedgerInit, Phase, GoodTokens, LiveTokens, Family, Rows
<1> QED
  BY <1>1, LedgerStep, SessionInvHolds, PTL DEF SessionSpec, KeepsLedger, Ledger!LedgerSpec

-----------------------------------------------------------------------------
(* Which tokens are whose.  A browser uses the token of its cookie and the *)
(* one it sent with a call; a token minted for a call that has not been    *)
(* answered is used by nobody yet.                                         *)
Uses(b, k) == jar[b].refresh = k \/ \E t \in Tabs : BrowserOf[t] = b /\ call[t].tok = k
Holds(b, k) == Uses(b, k) \/ \E t \in Tabs : BrowserOf[t] = b /\ call[t].new = k

(* What a call carries: the token it was sent, the one it has minted.      *)
Carries(t) ==
    LET c == call[t] IN
    /\ c.pc = "idle" => c.s = None
    /\ c.pc \in {"idle", "issue", "orphan", "logout", "revoke"} => c.tok = None
    /\ c.pc \in {"refresh", "mint", "retire", "killTokens", "killSession"} => c.tok # None
    /\ c.pc \notin {"retire", "resolve", "reply"} => c.new = None
    /\ c.tok # None => c.tok \in Rows /\ (c.pc # "refresh" => row[c.tok].s = c.s)
    /\ c.new # None => /\ c.new \in Rows /\ row[c.new].s = c.s
                       /\ row[c.new].parent = c.tok /\ Children(c.new) = {}
    /\ c.pc = "issue" /\ c.s # None => Family(c.s) = {}
    /\ c.pc \in {"logout", "revoke"} => session[c.s] = "revoked"
    /\ c.pc = "killTokens" => ~row[c.tok].live

ParentsAreRows == \A k \in Rows : row[k].parent \in Rows \cup {None}

NewIsPrivate ==
    \A t \in Tabs : call[t].new # None =>
        /\ \A b \in Browsers : ~Uses(b, call[t].new)
        /\ \A u \in Tabs \ {t} : call[u].new # call[t].new

IssuesApart ==
    \A t, u \in Tabs :
        t # u /\ At(t, "issue") /\ At(u, "issue") /\ call[t].s # None => call[t].s # call[u].s

(* All tokens of a session that anybody holds are in one browser.          *)
HeldByOne ==
    \A b, c \in Browsers, k, j \in Rows :
        Holds(b, k) /\ Holds(c, j) /\ row[k].s = row[j].s => b = c

TokenInv ==
    /\ SessionInv
    /\ \A t \in Tabs : Carries(t)
    /\ ParentsAreRows /\ NewIsPrivate /\ IssuesApart /\ HeldByOne

(* In a session that is active and in which no call was cut off, a token   *)
(* was revoked by its rotation, or by a reuse detection that is about to   *)
(* close the session.                                                      *)
Killing(s) == \E u \in Tabs : At(u, "killSession") /\ call[u].s = s
Sound(s) == s \in Sessions \ cut /\ session[s] = "active" /\ ~Killing(s)

Renewable(s) ==
    /\ Family(s) # {} => LiveTokens(s) # {}
    /\ \A t \in Tabs : At(t, "retire") /\ call[t].s = s => row[call[t].new].live
    /\ \A k \in Family(s) : ~row[k].live => Children(k) # {}

ActiveInv == \A s \in Sessions : Sound(s) => Renewable(s)

(* With one call at a time for each browser: what was minted for a token   *)
(* that is still used never arrived, and only a rotation that is under way *)
(* has two tokens.                                                         *)
OneCallEach == \A t, u \in Tabs : BrowserOf[t] = BrowserOf[u] => t = u

Undelivered(k) ==
    \A j \in Children(k) : Children(j) = {} /\ \A b \in Browsers : ~Uses(b, j)
UsedOnce == \A b \in Browsers, k \in Rows : Uses(b, k) => Undelivered(k)

OneAlive(s) ==
    /\ \A t \in Tabs : At(t, "mint") /\ call[t].s = s => LiveTokens(s) \subseteq {call[t].tok}
    /\ \A t \in Tabs : At(t, "retire") /\ call[t].s = s =>
           LiveTokens(s) \subseteq {call[t].tok, call[t].new}
    /\ \/ \A j, k \in LiveTokens(s) : j = k
       \/ \E t \in Tabs : At(t, "retire") /\ call[t].s = s
LiveInv == \A s \in Sessions \ cut : OneAlive(s)

-----------------------------------------------------------------------------
(* Steps that insert no token leave everybody with what they had or less.  *)
SameTokens ==
    /\ Rows' = Rows
    /\ \A k \in Rows : /\ row'[k].s = row[k].s /\ row'[k].parent = row[k].parent
                       /\ row'[k].live => row[k].live

StaysRevoked == \A s \in Sessions : session[s] = "revoked" => session'[s] = "revoked"

LEMMA CallFields ==
    ASSUME SessionTypeOK, NEW t \in Tabs
    PROVE  /\ call[t] \in Call /\ call[t].s \in Sessions \cup {None}
           /\ call[t].tok \in Tokens \cup {None} /\ call[t].new \in Tokens \cup {None}
           /\ BrowserOf[t] \in Browsers
BY SessionAssumption DEF SessionTypeOK, Call

LEMMA CarriesKeeps ==
    ASSUME SessionInv, SameTokens, StaysRevoked, NEW u \in Tabs, Carries(u),
           call'[u] = call[u]
    PROVE  Carries(u)'
<1>1. call[u].s \in Sessions \cup {None} /\ CallOK(call[u], session, Rows)
  BY CallFields DEF SessionInv
<1>2. \A k : Children(k) = {} => Children(k)' = {}
  BY DEF SameTokens, Children
<1>3. \A s : Family(s) = {} => Family(s)' = {}
  BY DEF SameTokens, Family
<1> QED
  BY <1>1, <1>2, <1>3 DEF Carries, SameTokens, StaysRevoked, CallOK, Children, Family

LEMMA TokensStay ==
    ASSUME TokenInv, SessionInv', SameTokens,
           \A b \in Browsers : jar'[b].refresh \in {jar[b].refresh, None},
           \A u \in Tabs :
              /\ call'[u].tok \in {call[u].tok, jar[BrowserOf[u]].refresh, None}
              /\ call'[u].new \in {call[u].new, None}
    PROVE  ParentsAreRows' /\ NewIsPrivate' /\ HeldByOne'
<1> USE SessionAssumption DEF TokenInv
<1>1. ParentsAreRows'
  BY DEF ParentsAreRows, SameTokens
<1>2. ASSUME NEW b \in Browsers, NEW k \in Tokens, Uses(b, k)' PROVE Uses(b, k)
  BY <1>2 DEF Uses
<1>3. ASSUME NEW b \in Browsers, NEW k \in Tokens, Holds(b, k)' PROVE Holds(b, k)
  BY <1>2, <1>3 DEF Holds
<1>4. NewIsPrivate'
  <2> SUFFICES ASSUME NEW t \in Tabs, call'[t].new # None
               PROVE  /\ \A b \in Browsers : ~Uses(b, call[t].new)'
                      /\ \A u \in Tabs \ {t} : call'[u].new # call'[t].new
    BY DEF NewIsPrivate
  <2>1. call'[t].new = call[t].new /\ call[t].new \in Tokens
    BY CallFields DEF SessionInv
  <2>2. ASSUME NEW b \in Browsers, Uses(b, call[t].new)' PROVE FALSE
    <3>1. Uses(b, call[t].new)
      BY <2>1, <2>2 DEF Uses
    <3> QED BY <2>1, <3>1 DEF NewIsPrivate
  <2> QED BY <2>1, <2>2 DEF NewIsPrivate
<1>5. HeldByOne'
  <2> SUFFICES ASSUME NEW b \in Browsers, NEW c \in Browsers, NEW k \in Rows', NEW j \in Rows',
                      Holds(b, k)', Holds(c, j)', row'[k].s = row'[j].s
               PROVE  b = c
    BY DEF HeldByOne
  <2>1. k \in Rows /\ j \in Rows /\ k \in Tokens /\ j \in Tokens
    BY DEF SameTokens, Rows
  <2>2. Holds(b, k) /\ Holds(c, j)
    BY <1>3, <2>1
  <2> QED BY <2>1, <2>2 DEF HeldByOne, SameTokens
<1> QED BY <1>1, <1>4, <1>5

LEMMA TokenMoves ==
    ASSUME TokenInv, SessionInv', SameTokens, StaysRevoked,
           NEW t \in Tabs, NEW c \in Call, Goto(t, c), Carries(t)',
           \A b \in Browsers : jar'[b].refresh \in {jar[b].refresh, None},
           c.tok \in {call[t].tok, jar[BrowserOf[t]].refresh, None},
           c.new \in {call[t].new, None},
           c.pc = "issue" /\ c.s # None =>
               \/ At(t, "issue") /\ call[t].s = c.s
               \/ \A u \in Tabs \ {t} : At(u, "issue") => call[u].s # c.s
    PROVE  TokenInv'
<1>1. call'[t] = c /\ \A u \in Tabs \ {t} : call'[u] = call[u]
  BY DEF Goto, TokenInv, SessionInv, SessionTypeOK
<1>2. \A u \in Tabs : Carries(u)'
  BY <1>1, CarriesKeeps DEF TokenInv
<1>3. IssuesApart'
  BY <1>1 DEF TokenInv, IssuesApart, At
<1> QED
  BY <1>1, <1>2, <1>3, TokensStay DEF TokenInv

(* A token is inserted for a call in whose session nobody else holds one.  *)
LEMMA TokenMinted ==
    ASSUME TokenInv, SessionInv', session' = session, jar' = jar,
           NEW t \in Tabs, NEW k \in Tokens, NEW pc \in {"retire", "reply"},
           call[t].s \in Sessions,
           Insert(k, call[t].s, call[t].tok), Goto(t, [call[t] EXCEPT !.pc = pc, !.new = k]),
           \/ At(t, "mint")
           \/ At(t, "issue") /\ pc = "reply"
    PROVE  TokenInv'
<1> DEFINE s == call[t].s
           c == [call[t] EXCEPT !.pc = pc, !.new = k]
<1>0. /\ row \in RowType /\ call[t].tok \in Tokens \cup {None} /\ call[t] \in Call
      /\ Carries(t) /\ CallOK(call[t], session, Rows)
      /\ \A u \in Tabs : call[u].s \in Sessions \cup {None}
  BY CallFields DEF TokenInv, SessionInv, SessionTypeOK, RowType
<1>1. /\ k \notin Rows /\ Rows' = Rows \cup {k}
      /\ row'[k].s = s /\ row'[k].parent = call[t].tok
      /\ \A j \in Rows : row'[j] = row[j]
  <2>1. row'[k] = [s |-> s, live |-> TRUE, parent |-> call[t].tok]
    BY <1>0, InsertEffect
  <2> QED BY <1>0, <2>1, InsertEffect
<1>2. /\ call'[t] = c /\ \A u \in Tabs \ {t} : call'[u] = call[u]
      /\ c.pc = pc /\ c.new = k /\ c.s = s /\ c.tok = call[t].tok
  BY <1>0 DEF Goto, TokenInv, SessionInv, SessionTypeOK, Call
<1> HIDE DEF c
<1>3. k # None /\ call[t].new = None
  BY <1>0, SessionAssumption DEF At, Carries
<1>4. \A j \in Tokens : j # call[t].tok => Children(j)' = Children(j)
  BY <1>1 DEF Children
<1>5. Children(k)' = {}
  BY <1>1, <1>0, SessionAssumption DEF Children, TokenInv, ParentsAreRows, Carries
<1>6. \A r \in Sessions : r # s => Family(r)' = Family(r)
  BY <1>1 DEF Family
(* Nobody uses a token there is no row for.                                *)
<1>7. \A b \in Browsers : ~Uses(b, k)
  BY <1>1, <1>3, CallFields DEF Uses, TokenInv, SessionInv, JarsHoldRows, Carries
<1>8. \A b \in Browsers, j \in Tokens : Uses(b, j)' <=> Uses(b, j)
  BY <1>2 DEF Uses
<1>9. ParentsAreRows'
  BY <1>0, <1>1 DEF TokenInv, ParentsAreRows, Carries
<1>10. NewIsPrivate'
  <2> SUFFICES ASSUME NEW u \in Tabs, call'[u].new # None
               PROVE  /\ \A b \in Browsers : ~Uses(b, call[u].new)'
                      /\ \A v \in Tabs \ {u} : call'[v].new # call'[u].new
    BY DEF NewIsPrivate
  <2>1. \A v \in Tabs \ {t} : call[v].new # k
    BY <1>1, <1>3 DEF TokenInv, Carries
  <2>2. CASE u = t
    <3>1. \A b \in Browsers : ~Uses(b, k)'
      BY <1>7, <1>8
    <3> QED BY <1>2, <2>1, <2>2, <3>1 DEF Uses
  <2>3. CASE u # t
    <3>1. call'[u].new = call[u].new /\ call[u].new \in Tokens
      BY <1>2, <2>3, CallFields DEF TokenInv, SessionInv
    <3>2. \A b \in Browsers : ~Uses(b, call[u].new)'
      BY <1>8, <3>1 DEF TokenInv, NewIsPrivate
    <3>3. \A v \in Tabs \ {u} : call'[v].new # call[u].new
      BY <1>2, <2>1, <2>3, <3>1 DEF TokenInv, NewIsPrivate
    <3> QED BY <3>1, <3>2, <3>3 DEF Uses
  <2> QED BY <2>2, <2>3
<1>11. IssuesApart'
  BY <1>2 DEF TokenInv, IssuesApart, At
<1>12. HeldByOne'
  <2> SUFFICES ASSUME NEW b \in Browsers, NEW d \in Browsers, NEW i \in Rows', NEW j \in Rows',
                      Holds(b, i)', Holds(d, j)', row'[i].s = row'[j].s
               PROVE  b = d
    BY DEF HeldByOne
  <2>1. i \in Tokens /\ j \in Tokens
    BY DEF Rows
  <2>2. \A e \in Browsers, l \in Tokens \ {k} : Holds(e, l)' => Holds(e, l)
    BY <1>2, <1>8, <1>3 DEF Holds
  <2>3. \A e \in Browsers : Holds(e, k)' => e = BrowserOf[t]
    <3>1. \A u \in Tabs \ {t} : call[u].new # k
      BY <1>1, <1>3 DEF TokenInv, Carries
    <3> QED BY <1>2, <1>7, <1>8, <3>1 DEF Holds
  (* Who else holds a token of the session is the browser of the call.     *)
  <2>4. ASSUME NEW e \in Browsers, NEW l \in Rows, Holds(e, l), row[l].s = s
        PROVE  e = BrowserOf[t]
    <3>1. At(t, "mint")
      BY <1>0, <2>4, SessionAssumption DEF At, Carries, Family
    <3>2. call[t].tok \in Rows /\ row[call[t].tok].s = s /\ Holds(BrowserOf[t], call[t].tok)
      BY <1>0, <3>1 DEF At, Carries, Holds, Uses
    <3> QED BY <2>4, <3>2, CallFields DEF TokenInv, SessionInv, HeldByOne
  <2> QED
    BY <1>1, <2>1, <2>2, <2>3, <2>4 DEF TokenInv, HeldByOne
<1>13. ASSUME NEW u \in Tabs PROVE Carries(u)'
  <2>1. CASE u = t
    BY <1>0, <1>1, <1>2, <1>3, <1>5, <2>1 DEF Carries, At
  <2>2. CASE u # t
    <3>1. call'[u] = call[u] /\ Carries(u) /\ call[u].new \in Tokens \cup {None}
      BY <1>2, <2>2, CallFields DEF TokenInv, SessionInv
    <3>2. call[u].new # None => call[u].new # call[t].tok
      BY <1>0, <3>1, <2>2, CallFields DEF TokenInv, SessionInv, NewIsPrivate, Uses
    <3>3. call[u].new # None => Children(call[u].new)' = {}
      BY <1>4, <3>1, <3>2 DEF Carries
    <3>4. At(u, "issue") /\ call[u].s # None => Family(call[u].s)' = {}
      <4> SUFFICES ASSUME At(u, "issue"), call[u].s # None PROVE Family(call[u].s)' = {}
        OBVIOUS
      <4>1. call[u].s # s
        <5>1. CASE At(t, "mint")
          BY <1>0, <3>1, <5>1 DEF At, Carries, Family
        <5>2. CASE At(t, "issue")
          BY <1>3, <2>2, <5>2 DEF TokenInv, IssuesApart
        <5> QED BY <5>1, <5>2
      <4> QED BY <1>0, <1>6, <3>1, <4>1 DEF At, Carries
    <3> QED BY <1>0, <1>1, <3>1, <3>3, <3>4 DEF Carries, At, Children, Family
  <2> QED BY <2>1, <2>2
<1> QED
  BY <1>9, <1>10, <1>11, <1>12, <1>13 DEF TokenInv

(* The answer puts the new token where only this browser uses it.          *)
LEMMA TokenDelivered ==
    ASSUME TokenInv, SessionInv', NEW t \in Tabs, Reply(t)
    PROVE  TokenInv'
<1>0. /\ CallOK(call[t], session, Rows) /\ call[t].new \in Rows /\ call[t].new \in Tokens
      /\ jar \in [Browsers -> Jar] /\ BrowserOf[t] \in Browsers
  BY CallFields DEF TokenInv, SessionInv, SessionTypeOK, Reply, At, CallOK, Rows
<1>1. /\ call'[t] = Idle /\ \A u \in Tabs \ {t} : call'[u] = call[u]
      /\ UNCHANGED <<row, session>>
  BY DEF Reply, Done, Goto, TokenInv, SessionInv, SessionTypeOK
<1>2. \A b \in Browsers : jar'[b].refresh = IF b = BrowserOf[t] THEN call[t].new
                                                               ELSE jar[b].refresh
  BY <1>0 DEF Reply
<1>3. SameTokens /\ StaysRevoked
  BY <1>1 DEF SameTokens, StaysRevoked, Rows
<1>4. ASSUME NEW u \in Tabs PROVE Carries(u)'
  <2>1. CASE u = t
    BY <1>1, <2>1 DEF Carries, Idle
  <2>2. CASE u # t
    BY <1>1, <1>3, <2>2, CarriesKeeps DEF TokenInv
  <2> QED BY <2>1, <2>2
<1>5. ParentsAreRows' /\ IssuesApart'
  BY <1>1 DEF TokenInv, ParentsAreRows, IssuesApart, At, Rows, Idle
<1>6. ASSUME NEW b \in Browsers, NEW k \in Tokens, Uses(b, k)'
      PROVE  Uses(b, k) \/ (b = BrowserOf[t] /\ k = call[t].new)
  BY <1>1, <1>2, <1>6, SessionAssumption DEF Uses, Idle
<1>7. NewIsPrivate'
  <2> SUFFICES ASSUME NEW u \in Tabs, call'[u].new # None
               PROVE  /\ \A b \in Browsers : ~Uses(b, call[u].new)'
                      /\ \A v \in Tabs \ {u} : call'[v].new # call'[u].new
    BY DEF NewIsPrivate
  <2>1. u # t /\ call'[u] = call[u] /\ call[u].new \in Tokens
    BY <1>1, CallFields DEF Idle, TokenInv, SessionInv
  <2>2. call[u].new # call[t].new /\ \A b \in Browsers : ~Uses(b, call[u].new)
    BY <2>1 DEF TokenInv, NewIsPrivate
  <2>3. \A v \in Tabs \ {u} : call'[v].new # call[u].new
    BY <1>1, <2>1 DEF TokenInv, NewIsPrivate, Idle
  <2>4. \A b \in Browsers : ~Uses(b, call[u].new)'
    <3> SUFFICES ASSUME NEW b \in Browsers, NEW k \in Tokens, k = call[u].new, Uses(b, k)'
                 PROVE  FALSE
      BY <2>1 DEF Uses
    <3> QED BY <1>6, <2>2
  <2> QED BY <2>1, <2>3, <2>4
<1>8. HeldByOne'
  <2>1. ASSUME NEW b \in Browsers, NEW k \in Tokens, Holds(b, k)' PROVE Holds(b, k)
    BY <1>1, <1>6, <2>1, SessionAssumption DEF Holds, Idle
  <2>2. Rows' = Rows /\ Rows \subseteq Tokens
    BY <1>3 DEF SameTokens, Rows
  <2> QED BY <1>1, <2>1, <2>2 DEF TokenInv, HeldByOne
<1> QED
  BY <1>4, <1>5, <1>7, <1>8 DEF TokenInv

LEMMA RowSame ==
    ASSUME TokenInv, row' = row
    PROVE  SameTokens
BY DEF SameTokens, Rows

LEMMA IdleCarries == ASSUME NEW t \in Tabs, call'[t] = Idle PROVE Carries(t)'
BY DEF Carries, Idle

(* A call that ends with its step.                                         *)
LEMMA TokenCallEnds ==
    ASSUME TokenInv, SessionInv', SameTokens, StaysRevoked, NEW t \in Tabs, Done(t),
           \A b \in Browsers : jar'[b].refresh \in {jar[b].refresh, None}
    PROVE  TokenInv'
<1>1. call'[t] = Idle /\ Idle \in Call /\ Idle.tok = None /\ Idle.new = None
      /\ Idle.pc # "issue"
  BY IdleOK DEF Done, Goto, TokenInv, SessionInv, SessionTypeOK, Idle
<1> QED
  BY <1>1, IdleCarries, TokenMoves DEF Done

LEMMA TokenInvNext == TokenInv /\ [SessionNext]_vars => TokenInv'
<1> SUFFICES ASSUME TokenInv, [SessionNext]_vars PROVE TokenInv'
  OBVIOUS
<1>0. SessionInv' /\ SessionTypeOK /\ SessionTypeOK'
  BY SessionInvNext DEF TokenInv, SessionInv
<1>1. ASSUME NEW t \in Tabs, ServerStep(t) PROVE TokenInv'
  <2>0. /\ call[t] \in Call /\ CallOK(call[t], session, Rows) /\ Carries(t)
        /\ call[t].s \in Sessions \cup {None} /\ call[t].tok \in Tokens \cup {None}
        /\ call \in [Tabs -> Call] /\ session \in SessionRowType /\ row \in RowType
        /\ jar \in [Browsers -> Jar] /\ BrowserOf[t] \in Browsers
    BY <1>0, CallFields
       DEF TokenInv, SessionInv, SessionTypeOK, SessionRowType, RowType
  <2>1. ASSUME NEW s \in Sessions, IssueCreate(t, s) PROVE TokenInv'
    <3>1. SameTokens /\ StaysRevoked /\ jar' = jar
      BY <2>1, RowSame DEF IssueCreate, StaysRevoked
    <3>2. CASE Done(t)
      BY <1>0, <3>1, <3>2, TokenCallEnds
    <3>3. CASE At(t, "issue") /\ call[t].s = None /\ Goto(t, [call[t] EXCEPT !.s = s])
      <4> DEFINE c == [call[t] EXCEPT !.s = s]
      <4>1. /\ c \in Call /\ c.pc = "issue" /\ c.s = s
            /\ c.tok = call[t].tok /\ c.new = call[t].new
        BY <2>0, <3>3 DEF Call, At
      <4> HIDE DEF c
      <4>2. call'[t] = c /\ Goto(t, c)
        BY <2>0, <3>3, <4>1 DEF Goto, c
      <4>3. Family(s)' = {}
        BY <2>1, <3>1 DEF IssueCreate, Family, Rows, TokenInv, SessionInv, RowsOfSessions
      <4>4. Carries(t)'
        BY <2>0, <3>3, <4>1, <4>2, <4>3, SessionAssumption DEF Carries, At
      <4>5. \A u \in Tabs \ {t} : At(u, "issue") => call[u].s # s
        BY <2>1, SessionAssumption DEF IssueCreate, TokenInv, SessionInv, CallOK, At
      <4> QED BY <1>0, <3>1, <4>1, <4>2, <4>4, <4>5, TokenMoves
    <3> QED BY <2>1, <3>2, <3>3 DEF IssueCreate
  <2>2. CASE IssueResolve(t)
    <3>1. SameTokens /\ StaysRevoked /\ jar' = jar
      BY <2>2, RowSame DEF IssueResolve, StaysRevoked
    <3>2. CASE Done(t)
      BY <1>0, <3>1, <3>2, TokenCallEnds
    <3>3. ASSUME NEW c \in Call, Goto(t, c), c.s = call[t].s, c.tok = call[t].tok,
                 c.new = call[t].new, c.pc \in {"issue", "orphan"}
          PROVE  TokenInv'
      <4>1. call'[t] = c
        BY <2>0, <3>3 DEF Goto
      <4>2. Carries(t)'
        BY <2>0, <2>2, <3>1, <3>3, <4>1
           DEF IssueResolve, Carries, At, SameTokens, Family, Children
      <4> QED BY <1>0, <2>2, <3>1, <3>3, <4>2, TokenMoves DEF IssueResolve
    <3>4. LET c == [call[t] EXCEPT !.ver = NewClaims(t)]
              d == [call[t] EXCEPT !.pc = "orphan"]
          IN  /\ c \in Call /\ c.s = call[t].s /\ c.tok = call[t].tok
              /\ c.new = call[t].new /\ c.pc = "issue"
              /\ d \in Call /\ d.s = call[t].s /\ d.tok = call[t].tok
              /\ d.new = call[t].new /\ d.pc = "orphan"
      BY <1>0, <2>0, <2>2 DEF IssueResolve, At, Call, NewClaims, SessionTypeOK
    <3> QED BY <2>2, <3>2, <3>3, <3>4 DEF IssueResolve, Step
  <2>3. ASSUME NEW k \in Tokens, IssueMint(t, k) PROVE TokenInv'
    BY <1>0, <2>0, <2>3, TokenMinted DEF IssueMint, At, Carries
  <2>4. ASSUME NEW k \in Tokens, RefreshMint(t, k) PROVE TokenInv'
    BY <1>0, <2>0, <2>4, TokenMinted DEF RefreshMint, At, CallOK
  <2>5. CASE RefreshRead(t)
    <3>1. SameTokens /\ StaysRevoked /\ jar' = jar
      BY <2>5, RowSame DEF RefreshRead, StaysRevoked
    <3>2. CASE Done(t)
      BY <1>0, <3>1, <3>2, TokenCallEnds
    <3>3. ASSUME NEW pc \in {"killTokens", "mint"},
                 pc = "killTokens" => ~row[call[t].tok].live,
                 Goto(t, [call[t] EXCEPT !.pc = pc, !.s = row[call[t].tok].s])
          PROVE  TokenInv'
      <4> DEFINE c == [call[t] EXCEPT !.pc = pc, !.s = row[call[t].tok].s]
      <4>1. call[t].tok \in Rows /\ call[t].new = None /\ row[call[t].tok].s \in Sessions
        BY <2>0, <2>5, RowFields DEF RefreshRead, At, Carries
      <4>2. /\ c \in Call /\ c.pc = pc /\ c.s = row[call[t].tok].s
            /\ c.tok = call[t].tok /\ c.new = None
        BY <2>0, <4>1 DEF Call
      <4> HIDE DEF c
      <4>3. call'[t] = c /\ Goto(t, c)
        BY <2>0, <3>3, <4>2 DEF Goto, c
      <4>4. Carries(t)'
        BY <2>5, <3>3, <4>1, <4>2, <4>3, SessionAssumption
           DEF RefreshRead, Carries, Rows
      <4> QED BY <1>0, <3>1, <4>1, <4>2, <4>3, <4>4, TokenMoves
    <3> QED BY <2>5, <3>2, <3>3 DEF RefreshRead
  <2>6. CASE RefreshRetire(t) \/ KillTokens(t)
    <3> DEFINE c == [call[t] EXCEPT !.pc = IF RefreshRetire(t) THEN "resolve" ELSE "killSession"]
    <3>1. /\ c \in Call /\ c.pc \in {"resolve", "killSession"} /\ c.s = call[t].s
          /\ c.tok = call[t].tok /\ c.new = call[t].new
          /\ c.pc = "killSession" => At(t, "killTokens")
          /\ Goto(t, c)
      BY <2>0, <2>6 DEF Call, RefreshRetire, KillTokens, Step, At
    <3> HIDE DEF c
    <3>2. call'[t] = c
      BY <2>0, <3>1 DEF Goto
    <3>3. SameTokens /\ StaysRevoked /\ jar' = jar
      <4>1. call[t].tok \in Rows
        BY <2>0, <2>6 DEF RefreshRetire, KillTokens, At, Carries
      <4>2. CASE RefreshRetire(t)
        BY <2>0, <4>1, <4>2, RetireEffect DEF RefreshRetire, SameTokens, StaysRevoked
      <4>3. CASE KillTokens(t)
        BY <2>0, <4>3, RevokeEffect DEF KillTokens, SameTokens, StaysRevoked
      <4> QED BY <2>6, <4>2, <4>3
    <3>4. Carries(t)'
      BY <2>0, <2>6, <3>1, <3>2, <3>3
         DEF Carries, At, RefreshRetire, KillTokens, SameTokens, Children
    <3> QED BY <1>0, <3>1, <3>3, <3>4, TokenMoves
  <2>7. CASE RefreshResolve(t)
    <3>1. SameTokens /\ StaysRevoked /\ jar' = jar
      BY <2>7, RowSame DEF RefreshResolve, StaysRevoked
    <3>2. CASE Done(t)
      BY <1>0, <3>1, <3>2, TokenCallEnds
    <3>3. CASE Goto(t, [call[t] EXCEPT !.pc = "reply", !.ver = NewClaims(t)])
      <4> DEFINE c == [call[t] EXCEPT !.pc = "reply", !.ver = NewClaims(t)]
      <4>1. /\ c \in Call /\ c.pc = "reply" /\ c.s = call[t].s
            /\ c.tok = call[t].tok /\ c.new = call[t].new
        <5>1. version \in Nat
          BY <1>0 DEF SessionTypeOK
        <5> QED BY <2>0, <5>1 DEF Call, NewClaims
      <4> HIDE DEF c
      <4>2. call'[t] = c /\ Goto(t, c)
        BY <2>0, <3>3, <4>1 DEF Goto, c
      <4>3. Carries(t)'
        BY <2>0, <2>7, <3>1, <4>1, <4>2
           DEF RefreshResolve, Carries, At, SameTokens, Children
      <4> QED BY <1>0, <3>1, <4>1, <4>2, <4>3, TokenMoves
    <3> QED BY <2>7, <3>2, <3>3 DEF RefreshResolve
  <2>8. CASE KillSession(t)
    <3>1. SameTokens /\ StaysRevoked /\ jar' = jar
      BY <2>0, <2>8, RowSame DEF KillSession, RevokeRow, StaysRevoked, SessionRowType
    <3> QED BY <1>0, <2>8, <3>1, TokenCallEnds DEF KillSession
  <2>9. CASE CloseTokens(t)
    <3>1. SameTokens /\ StaysRevoked
      BY <2>0, <2>9, RevokeEffect DEF CloseTokens, SameTokens, StaysRevoked
    <3>2. \A b \in Browsers : jar'[b].refresh \in {jar[b].refresh, None}
      BY <2>0, <2>9 DEF CloseTokens, Jar
    <3> QED BY <1>0, <2>9, <3>1, <3>2, TokenCallEnds DEF CloseTokens
  <2>10. CASE Reply(t)
    BY <1>0, <2>10, TokenDelivered
  <2> QED
    BY <1>1, <2>1, <2>2, <2>3, <2>4, <2>5, <2>6, <2>7, <2>8, <2>9, <2>10 DEF ServerStep
<1>2. ASSUME NEW t \in Tabs, UserStep(t) PROVE TokenInv'
  <2>0. /\ call[t] \in Call /\ Carries(t) /\ call \in [Tabs -> Call]
        /\ session \in SessionRowType /\ jar \in [Browsers -> Jar]
        /\ BrowserOf[t] \in Browsers /\ SameTokens /\ jar' = jar
    <3>1. row' = row /\ jar' = jar
      BY <1>2 DEF UserStep, Login, Ask, CloseSession
    <3> QED BY <1>0, <3>1, RowSame, CallFields DEF TokenInv, SessionTypeOK, SessionRowType
  <2>1. CASE Login(t)
    <3> DEFINE c == [call[t] EXCEPT !.pc = "issue"]
    <3>1. /\ c \in Call /\ c.pc = "issue" /\ c.s = call[t].s
          /\ c.tok = call[t].tok /\ c.new = call[t].new /\ Goto(t, c)
      BY <2>0, <2>1 DEF Call, Login, Step
    <3> HIDE DEF c
    <3>2. call'[t] = c
      BY <2>0, <3>1 DEF Goto
    <3>3. c.s = None /\ c.tok = None /\ c.new = None /\ StaysRevoked
      BY <2>0, <2>1, <3>1 DEF Login, At, Carries, StaysRevoked
    <3>4. Carries(t)'
      BY <3>1, <3>2, <3>3 DEF Carries
    <3> QED BY <1>0, <2>0, <3>1, <3>2, <3>3, <3>4, TokenMoves
  <2>2. CASE Ask(t)
    <3> DEFINE c == [Idle EXCEPT !.pc = "refresh", !.tok = jar[BrowserOf[t]].refresh]
    <3>1. /\ c \in Call /\ c.pc = "refresh" /\ c.s = None
          /\ c.tok = jar[BrowserOf[t]].refresh /\ c.new = None
      BY <2>0, IdleOK DEF Idle, Call, Jar
    <3> HIDE DEF c
    <3>2. call'[t] = c /\ Goto(t, c) /\ StaysRevoked /\ c.tok \in Rows
      BY <2>0, <2>2, <3>1
         DEF Ask, Stale, Goto, c, StaysRevoked, TokenInv, SessionInv, JarsHoldRows
    <3>3. Carries(t)'
      BY <2>0, <3>1, <3>2, SessionAssumption DEF Carries, SameTokens, Rows
    <3> QED BY <1>0, <2>0, <3>1, <3>2, <3>3, TokenMoves
  <2>3. ASSUME NEW s \in Sessions, NEW pc \in {"logout", "revoke"}, CloseSession(t, s, pc)
        PROVE  TokenInv'
    <3> DEFINE c == [Idle EXCEPT !.pc = pc, !.s = s]
    <3>1. c \in Call /\ c.pc = pc /\ c.s = s /\ c.tok = None /\ c.new = None
      BY <2>0, IdleOK DEF Idle, Call
    <3> HIDE DEF c
    <3>2. call'[t] = c /\ Goto(t, c)
      BY <2>0, <2>3, <3>1 DEF CloseSession, Goto, c
    <3>3. StaysRevoked /\ session'[s] = "revoked"
      BY <2>0, <2>3 DEF CloseSession, RevokeRow, StaysRevoked, SessionRowType
    <3>4. Carries(t)'
      BY <3>1, <3>2, <3>3 DEF Carries
    <3> QED BY <1>0, <2>0, <3>1, <3>2, <3>3, <3>4, TokenMoves
  <2> QED BY <1>2, <2>1, <2>2, <2>3 DEF UserStep
<1>3. ASSUME NEW t \in Tabs, Vanish(t) PROVE TokenInv'
  BY <1>0, <1>3, RowSame, TokenCallEnds DEF Vanish, StaysRevoked
<1>4. CASE OutsideStep \/ UNCHANGED vars
  <2>1. call' = call /\ SameTokens /\ StaysRevoked
    BY <1>0, <1>4, RowSame
       DEF OutsideStep, UpdateStatus, ChangePermissions, ExpireAccess, vars, StaysRevoked,
           SessionTypeOK
  <2>2. \A b \in Browsers : jar'[b].refresh \in {jar[b].refresh, None}
    BY <1>0, <1>4 DEF OutsideStep, UpdateStatus, ChangePermissions, ExpireAccess, vars,
                      SessionTypeOK, Jar
  <2>3. \A u \in Tabs : Carries(u)'
    BY <2>1, CarriesKeeps DEF TokenInv
  <2> QED
    BY <1>0, <2>1, <2>2, <2>3, TokensStay DEF TokenInv, IssuesApart, At
<1> QED
  BY <1>1, <1>2, <1>3, <1>4 DEF SessionNext

LEMMA TokenInvHolds == SessionSpec => []TokenInv
<1>1. SessionInit => TokenInv
  <2> SUFFICES ASSUME SessionInit PROVE TokenInv
    OBVIOUS
  <2>1. Rows = {} /\ \A t \in Tabs : call[t] = Idle
    BY DEF SessionInit, Rows
  <2>2. \A t \in Tabs : Carries(t)
    BY <2>1 DEF Carries, Idle
  <2> QED
    BY <2>1, <2>2, SessionInvInit
       DEF TokenInv, ParentsAreRows, NewIsPrivate, IssuesApart, HeldByOne, At, Idle
<1> QED BY <1>1, TokenInvNext, PTL DEF SessionSpec

-----------------------------------------------------------------------------
(* A reuse detection that has revoked the tokens goes on to the session,   *)
(* or is cut off; a session is sound only if it was, or has just begun.    *)
LEMMA SoundBefore ==
    ASSUME TokenInv, [SessionNext]_vars, NEW s \in Sessions, Sound(s)'
    PROVE  Sound(s) \/ Family(s) = {}
<1> USE DEF Sound
<1>0. /\ SessionTypeOK /\ call \in [Tabs -> Call] /\ session \in SessionRowType
      /\ RowsOfSessions
  BY DEF TokenInv, SessionInv, SessionTypeOK, SessionRowType
<1>1. CASE session[s] = "none"
  BY <1>0, <1>1 DEF RowsOfSessions, Family
<1>2. CASE session[s] # "none"
  <2>1. session[s] = "active" /\ s \notin cut
    <3>1. cut \subseteq cut'
      BY DEF SessionNext, ServerStep, UserStep, OutsideStep, vars, IssueCreate, IssueResolve,
             IssueMint, RefreshMint, RefreshRead, RefreshRetire, RefreshResolve, KillTokens,
             KillSession, CloseTokens, Reply, Login, Ask, CloseSession, Vanish, UpdateStatus,
             ChangePermissions, ExpireAccess
    <3>2. session' # session =>
             \/ \E r \in Sessions : session[r] = "none" /\ session' = [session EXCEPT ![r] = "active"]
             \/ \E r \in Sessions \cup {None} : session' = [session EXCEPT ![r] = "revoked"]
             \/ session' = [r \in Sessions |-> IF session[r] = "active"
                                               THEN "revoked" ELSE session[r]]
      BY <1>0, CallFields
         DEF SessionNext, ServerStep, UserStep, OutsideStep, vars, IssueCreate, IssueResolve,
             IssueMint, RefreshMint, RefreshRead, RefreshRetire, RefreshResolve, KillTokens,
             KillSession, RevokeRow, CloseTokens, Reply, Login, Ask, CloseSession, Vanish,
             UpdateStatus, ChangePermissions, ExpireAccess
    <3> QED BY <1>0, <1>2, <3>1, <3>2 DEF SessionRowType
  <2>2. ASSUME NEW u \in Tabs, At(u, "killSession"), call[u].s = s PROVE FALSE
    <3>1. CASE KillSession(u)
      BY <1>0, <2>2, <3>1 DEF KillSession, RevokeRow, SessionRowType
    <3>2. CASE Vanish(u)
      BY <2>2, <3>2 DEF Vanish
    <3>3. CASE call'[u] = call[u]
      BY <2>2, <3>3 DEF Killing, At
    <3>4. ASSUME NEW t \in Tabs, ServerStep(t) \/ UserStep(t) \/ Vanish(t)
          PROVE  KillSession(u) \/ Vanish(u) \/ call'[u] = call[u]
      <4>1. CASE t = u
        BY <2>2, <3>4, <4>1
           DEF ServerStep, UserStep, At, IssueCreate, IssueResolve, IssueMint, RefreshMint,
               RefreshRead, RefreshRetire, RefreshResolve, KillTokens, CloseTokens, Reply,
               Login, Ask, CloseSession
      <4>2. CASE t # u
        BY <1>0, <3>4, <4>2
           DEF ServerStep, UserStep, IssueCreate, IssueResolve, IssueMint, RefreshMint,
               RefreshRead, RefreshRetire, RefreshResolve, KillTokens, KillSession,
               CloseTokens, Reply, Login, Ask, CloseSession, Vanish, Goto, Step, Done
      <4> QED BY <4>1, <4>2
    <3>5. CASE OutsideStep \/ UNCHANGED vars
      BY <3>3, <3>5 DEF OutsideStep, UpdateStatus, ChangePermissions, ExpireAccess, vars
    <3> QED BY <3>1, <3>2, <3>3, <3>4, <3>5 DEF SessionNext
  <2> QED BY <2>1, <2>2 DEF Killing
<1> QED BY <1>1, <1>2

(* Without a change of rows there is nothing to renew anew.                *)
LEMMA RenewableStays ==
    ASSUME TokenInv, NEW s \in Sessions, Renewable(s) \/ Family(s) = {},
           row' = row,
           \A t \in Tabs : At(t, "retire")' => call'[t] = call[t]
    PROVE  Renewable(s)'
<1>1. ASSUME NEW t \in Tabs, At(t, "retire")', call'[t].s = s
      PROVE  row'[call'[t].new].live
  <2>1. At(t, "retire") /\ call[t].s = s /\ call'[t] = call[t]
    BY <1>1 DEF At
  <2>2. Family(s) # {}
    BY <2>1 DEF TokenInv, SessionInv, CallOK, Carries, At, Family
  <2> QED BY <2>1, <2>2 DEF Renewable
<1> QED BY <1>1 DEF Renewable, Family, LiveTokens, Children, Rows

LEMMA RenewableMinted ==
    ASSUME TokenInv, NEW s \in Sessions, Renewable(s) \/ Family(s) = {},
           NEW t \in Tabs, NEW k \in Tokens, call[t].s \in Sessions,
           Insert(k, call[t].s, call[t].tok),
           \A u \in Tabs : At(u, "retire")' => call'[u] = call[u] \/ call'[u].new = k
    PROVE  Renewable(s)'
<1>1. /\ k \notin Rows /\ Rows' = Rows \cup {k}
      /\ row'[k].s = call[t].s /\ row'[k].live
      /\ \A j \in Rows : row'[j] = row[j]
  <2>1. call[t].tok \in Tokens \cup {None} /\ row \in RowType
    BY CallFields DEF TokenInv, SessionInv, SessionTypeOK, RowType
  <2>2. row'[k] = [s |-> call[t].s, live |-> TRUE, parent |-> call[t].tok]
    BY <2>1, InsertEffect
  <2> QED BY <2>1, <2>2, InsertEffect
<1>2. ASSUME NEW u \in Tabs, At(u, "retire")', call'[u].s = s
      PROVE  row'[call'[u].new].live
  <2>1. CASE call'[u].new = k
    BY <1>1, <2>1
  <2>2. CASE call'[u] = call[u]
    <3>1. At(u, "retire") /\ call[u].s = s /\ call[u].new \in Rows /\ Family(s) # {}
      BY <1>2, <2>2, SessionAssumption
         DEF TokenInv, SessionInv, CallOK, Carries, At, Family, Rows
    <3> QED BY <1>1, <2>2, <3>1 DEF Renewable
  <2> QED BY <1>2, <2>1, <2>2
<1>3. Family(s)' # {} => LiveTokens(s)' # {}
  BY <1>1 DEF Renewable, Family, LiveTokens
<1>4. ASSUME NEW j \in Family(s)', ~row'[j].live PROVE Children(j)' # {}
  <2>1. j \in Family(s) /\ ~row[j].live
    BY <1>1, <1>4 DEF Family
  <2> QED BY <1>1, <2>1 DEF Renewable, Children
<1> QED BY <1>2, <1>3, <1>4 DEF Renewable

LEMMA RenewableRetired ==
    ASSUME TokenInv, NEW s \in Sessions, Renewable(s) \/ Family(s) = {},
           NEW t \in Tabs, RefreshRetire(t)
    PROVE  Renewable(s)'
<1>0. /\ call[t].tok \in Rows /\ call[t].new \in Rows /\ call[t].new # call[t].tok
      /\ row[call[t].new].parent = call[t].tok /\ row[call[t].new].s = row[call[t].tok].s
      /\ call[t].s = row[call[t].tok].s /\ row \in RowType
  <2>1. call[t].tok \in Rows /\ call[t].new \in Rows /\ call[t].new # None
    BY SessionAssumption
       DEF TokenInv, SessionInv, CallOK, Carries, RefreshRetire, At, Rows
  <2>2. Uses(BrowserOf[t], call[t].tok)
    BY DEF Uses
  <2> QED
    BY <2>1, <2>2, CallFields DEF TokenInv, SessionInv, SessionTypeOK, RowType, NewIsPrivate,
       Carries, RefreshRetire, At
<1>1. /\ Rows' = Rows /\ ~row'[call[t].tok].live
      /\ row'[call[t].tok].s = row[call[t].tok].s
      /\ \A j \in Rows \ {call[t].tok} : row'[j] = row[j]
      /\ \A j \in Rows : row'[j].parent = row[j].parent
  BY <1>0, RetireEffect DEF RefreshRetire
<1>2. /\ ~At(t, "retire")' /\ \A u \in Tabs \ {t} : call'[u] = call[u]
  BY DEF TokenInv, SessionInv, SessionTypeOK, RefreshRetire, Step, Goto, At, Call
<1>3. \A u \in Tabs \ {t} : At(u, "retire") => call[u].new \in Rows \ {call[t].tok}
  <2> SUFFICES ASSUME NEW u \in Tabs \ {t}, At(u, "retire")
               PROVE  call[u].new \in Rows \ {call[t].tok}
    OBVIOUS
  <2>1. call[u].new \in Rows /\ call[u].new # None
    BY SessionAssumption DEF TokenInv, SessionInv, CallOK, At, Rows
  <2>2. Uses(BrowserOf[t], call[t].tok) /\ BrowserOf[t] \in Browsers
    BY CallFields DEF Uses, TokenInv, SessionInv
  <2> QED BY <2>1, <2>2 DEF TokenInv, NewIsPrivate
<1>4. CASE Family(s) = {}
  <2>1. Family(s)' = {}
    BY <1>0, <1>1, <1>4 DEF Family
  <2>2. \A u \in Tabs \ {t} : At(u, "retire") => call[u].s # s
    BY <1>3, <1>4 DEF TokenInv, Carries, Family, At
  <2> QED BY <1>2, <2>1, <2>2 DEF Renewable, At
<1>5. CASE Renewable(s)
  <2>1. \A u \in Tabs : At(u, "retire")' /\ call'[u].s = s => row'[call'[u].new].live
    BY <1>1, <1>2, <1>3, <1>5 DEF Renewable, At
  <2>2. call[t].s = s => row'[call[t].new].live
    BY <1>0, <1>1, <1>5 DEF Renewable, RefreshRetire
  <2>3. Family(s)' # {} => LiveTokens(s)' # {}
    BY <1>0, <1>1, <1>5, <2>2 DEF Renewable, Family, LiveTokens
  <2>4. ASSUME NEW j \in Family(s)', ~row'[j].live PROVE Children(j)' # {}
    <3>1. Children(j)' = Children(j)
      BY <1>1 DEF Children
    <3>2. CASE j = call[t].tok
      BY <1>0, <3>1, <3>2 DEF Children
    <3>3. CASE j # call[t].tok
      BY <1>1, <1>5, <2>4, <3>1, <3>3 DEF Renewable, Family
    <3> QED BY <3>2, <3>3
  <2> QED BY <2>1, <2>3, <2>4 DEF Renewable
<1> QED BY <1>4, <1>5

LEMMA ActiveInvNext == TokenInv /\ ActiveInv /\ [SessionNext]_vars => ActiveInv'
<1> SUFFICES ASSUME TokenInv, ActiveInv, [SessionNext]_vars, NEW s \in Sessions, Sound(s)'
             PROVE  Renewable(s)'
  BY DEF ActiveInv
<1>0. Renewable(s) \/ Family(s) = {}
  BY SoundBefore DEF ActiveInv
<1>1. /\ call \in [Tabs -> Call] /\ row \in RowType
      /\ \A t \in Tabs : call[t].s \in Sessions \cup {None} /\ CallOK(call[t], session, Rows)
                        /\ Carries(t)
  BY CallFields DEF TokenInv, SessionInv, SessionTypeOK, RowType
<1>2. ASSUME NEW t \in Tabs, ServerStep(t) PROVE Renewable(s)'
  <2>1. ASSUME NEW k \in Tokens, IssueMint(t, k) PROVE Renewable(s)'
    <3>1. call[t].s \in Sessions /\ Insert(k, call[t].s, call[t].tok)
      BY <1>1, <2>1 DEF IssueMint, Carries, At
    <3>2. \A u \in Tabs : At(u, "retire")' => call'[u] = call[u] \/ call'[u].new = k
      BY <1>1, <2>1 DEF IssueMint, Goto, At, Call
    <3> QED BY <1>0, <3>1, <3>2, RenewableMinted
  <2>2. ASSUME NEW k \in Tokens, RefreshMint(t, k) PROVE Renewable(s)'
    <3>1. call[t].s \in Sessions /\ Insert(k, call[t].s, call[t].tok)
      BY <1>1, <2>2 DEF RefreshMint, CallOK, At
    <3>2. \A u \in Tabs : At(u, "retire")' => call'[u] = call[u] \/ call'[u].new = k
      BY <1>1, <2>2 DEF RefreshMint, Goto, At, Call
    <3> QED BY <1>0, <3>1, <3>2, RenewableMinted
  <2>3. CASE RefreshRetire(t)
    BY <1>0, <2>3, RenewableRetired
  (* The session whose tokens are revoked is not sound.                    *)
  <2>4. CASE KillTokens(t) \/ CloseTokens(t)
    <3>1. call[t].s # s
      <4>1. CASE KillTokens(t)
        BY <1>1, <4>1 DEF KillTokens, Step, Goto, At, Sound, Killing, Call
      <4>2. CASE CloseTokens(t)
        BY <1>1, <4>2 DEF CloseTokens, Carries, At, Sound
      <4> QED BY <2>4, <4>1, <4>2
    <3>2. call[t].s \in Sessions /\ RevokeTokens(call[t].s)
      BY <1>1, <2>4 DEF KillTokens, CloseTokens, At, CallOK
    <3>3. /\ Rows' = Rows
          /\ \A j \in Rows : /\ row'[j].s = row[j].s /\ row'[j].parent = row[j].parent
                             /\ row'[j].live = (row[j].live /\ row[j].s # call[t].s)
      BY <1>1, <3>2, RevokeEffect
    <3>4. \A u \in Tabs : At(u, "retire")' => call'[u] = call[u]
      BY <1>1, <2>4 DEF KillTokens, CloseTokens, Step, Done, Goto, At, Call, Idle
    <3>5. ASSUME NEW u \in Tabs, At(u, "retire")', call'[u].s = s
          PROVE  row'[call'[u].new].live
      <4>1. /\ At(u, "retire") /\ call[u].s = s /\ call'[u] = call[u]
            /\ call[u].new \in Rows /\ row[call[u].new].s = s
        BY <1>1, <3>4, <3>5, SessionAssumption DEF At, CallOK, Carries, Rows
      <4> QED BY <1>0, <3>1, <3>3, <4>1, RowFields DEF Renewable, Family
    <3>6. Family(s)' = Family(s) /\ LiveTokens(s)' = LiveTokens(s)
      BY <3>1, <3>3 DEF Family, LiveTokens
    <3>7. \A j \in Family(s) : row'[j].live = row[j].live /\ Children(j)' = Children(j)
      BY <1>1, <3>1, <3>3, RowFields DEF Family, Children
    <3> QED BY <1>0, <3>5, <3>6, <3>7 DEF Renewable
  <2>5. CASE \/ \E r \in Sessions : IssueCreate(t, r)
             \/ IssueResolve(t) \/ RefreshRead(t) \/ RefreshResolve(t)
             \/ KillSession(t) \/ Reply(t)
    <3>1. row' = row
      BY <2>5 DEF IssueCreate, IssueResolve, RefreshRead, RefreshResolve, KillSession, Reply
    <3>2. (\A u \in Tabs \ {t} : call'[u] = call[u]) /\ ~At(t, "retire")'
      <4>1. CASE \E r \in Sessions : IssueCreate(t, r)
        BY <1>1, <4>1 DEF IssueCreate, Done, Goto, At, Call, Idle
      <4>2. CASE IssueResolve(t)
        BY <1>1, <4>2 DEF IssueResolve, Step, Done, Goto, At, Call, Idle
      <4>3. CASE RefreshRead(t)
        <5> DEFINE r == row[call[t].tok]
                   c == [call[t] EXCEPT !.pc = "killTokens", !.s = r.s]
                   d == [call[t] EXCEPT !.pc = "mint", !.s = r.s]
        <5>1. c.pc = "killTokens" /\ d.pc = "mint" /\ Idle.pc = "idle"
          BY <1>1 DEF Call, Idle
        <5>2. Goto(t, c) \/ Goto(t, d) \/ Goto(t, Idle)
          BY <4>3 DEF RefreshRead, Done
        <5> HIDE DEF c, d
        <5> QED BY <1>1, <5>1, <5>2 DEF Goto, At
      <4>4. CASE RefreshResolve(t)
        <5> DEFINE c == [call[t] EXCEPT !.pc = "reply", !.ver = NewClaims(t)]
        <5>1. c.pc = "reply" /\ Idle.pc = "idle"
          BY <1>1 DEF Call, Idle
        <5>2. Goto(t, c) \/ Goto(t, Idle)
          BY <4>4 DEF RefreshResolve, Done
        <5> HIDE DEF c
        <5> QED BY <1>1, <5>1, <5>2 DEF Goto, At
      <4>5. CASE KillSession(t) \/ Reply(t)
        BY <1>1, <4>5 DEF KillSession, Reply, Done, Goto, At, Idle
      <4> QED BY <2>5, <4>1, <4>2, <4>3, <4>4, <4>5
    <3>3. \A u \in Tabs : At(u, "retire")' => call'[u] = call[u]
      BY <3>2
    <3> QED BY <1>0, <3>1, <3>3, RenewableStays
  <2> QED BY <1>2, <2>1, <2>2, <2>3, <2>4, <2>5 DEF ServerStep
<1>3. CASE \/ \E t \in Tabs : UserStep(t) \/ Vanish(t)
           \/ OutsideStep \/ UNCHANGED vars
  <2>1. row' = row
    BY <1>3 DEF UserStep, Vanish, Login, Ask, CloseSession, OutsideStep, UpdateStatus,
                ChangePermissions, ExpireAccess, vars
  <2>2. CASE OutsideStep \/ UNCHANGED vars
    <3>1. call' = call
      BY <2>2 DEF OutsideStep, UpdateStatus, ChangePermissions, ExpireAccess, vars
    <3> QED BY <1>0, <2>1, <3>1, RenewableStays
  <2>3. CASE \E t \in Tabs : UserStep(t) \/ Vanish(t)
    <3>1. ASSUME NEW t \in Tabs, UserStep(t) \/ Vanish(t)
          PROVE  (\A u \in Tabs \ {t} : call'[u] = call[u]) /\ ~At(t, "retire")'
      <4>1. CASE Login(t) \/ Vanish(t)
        BY <1>1, <4>1 DEF Login, Vanish, Step, Done, Goto, At, Call, Idle
      <4>2. CASE Ask(t)
        BY <1>1, <4>2 DEF Ask, Goto, At, Idle
      <4>3. CASE \E r \in Sessions, pc \in {"logout", "revoke"} : CloseSession(t, r, pc)
        BY <1>1, <4>3 DEF CloseSession, Goto, At, Idle
      <4> QED BY <3>1, <4>1, <4>2, <4>3 DEF UserStep
    <3>2. \A u \in Tabs : At(u, "retire")' => call'[u] = call[u]
      BY <2>3, <3>1
    <3> QED BY <1>0, <2>1, <3>2, RenewableStays
  <2> QED BY <1>3, <2>2, <2>3
<1> QED BY <1>2, <1>3 DEF SessionNext

LEMMA ActiveInvHolds == SessionSpec => []ActiveInv
<1>1. SessionInit => ActiveInv
  BY DEF SessionInit, ActiveInv, Sound
<1> QED BY <1>1, ActiveInvNext, TokenInvHolds, PTL DEF SessionSpec

(* ActiveHasToken: nobody is left signed in without a token to renew with, *)
(* however many tabs of however many browsers refresh, log out and revoke  *)
(* at once, unless a call of the session was cut off.                      *)
THEOREM ActiveCanRenew == SessionSpec => []ActiveHasToken
<1>1. ActiveInv => ActiveHasToken
  <2> SUFFICES ASSUME ActiveInv, NEW s \in Sessions \ cut, session[s] = "active",
                      Family(s) # {}
               PROVE  LiveTokens(s) # {} \/ \E t \in Tabs : call[t].s = s
    BY DEF ActiveHasToken
  <2>1. CASE Killing(s)
    BY <2>1 DEF Killing
  <2>2. CASE ~Killing(s)
    BY <2>2 DEF ActiveInv, Sound, Renewable
  <2> QED BY <2>1, <2>2
<1> QED BY <1>1, ActiveInvHolds, PTL

-----------------------------------------------------------------------------
(* The steps that neither insert a token nor deliver one, and do not move  *)
(* a rotation on: whoever stops rotating was cut off.                      *)
Quiet ==
    /\ SameTokens /\ cut \subseteq cut'
    /\ \A b \in Browsers : jar'[b].refresh \in {jar[b].refresh, None}
    /\ \A u \in Tabs :
          \/ call'[u] = call[u]
          \/ /\ call'[u].pc \notin {"mint", "retire"}
             /\ At(u, "retire") => call[u].s \in cut'
             /\ call'[u].tok \in {call[u].tok, jar[BrowserOf[u]].refresh, None}

Rotation ==
    \E t \in Tabs :
        \/ RefreshRead(t) \/ RefreshRetire(t) \/ Reply(t)
        \/ \E k \in Tokens : IssueMint(t, k) \/ RefreshMint(t, k)

LEMMA QuietSteps ==
    ASSUME TokenInv, [SessionNext]_vars
    PROVE  Quiet \/ Rotation
<1>0. /\ call \in [Tabs -> Call] /\ row \in RowType /\ jar \in [Browsers -> Jar]
      /\ BrowserOf \in [Tabs -> Browsers]
      /\ \A t \in Tabs : CallOK(call[t], session, Rows) /\ call[t].s \in Sessions \cup {None}
  BY CallFields, SessionAssumption DEF TokenInv, SessionInv, SessionTypeOK, RowType
<1>1. ASSUME NEW t \in Tabs, NEW c, Goto(t, c), SameTokens, cut \subseteq cut',
             \A b \in Browsers : jar'[b].refresh \in {jar[b].refresh, None},
             c.pc \notin {"mint", "retire"}, At(t, "retire") => call[t].s \in cut',
             c.tok \in {call[t].tok, jar[BrowserOf[t]].refresh, None}
      PROVE  Quiet
  <2>1. call'[t] = c /\ \A u \in Tabs \ {t} : call'[u] = call[u]
    BY <1>0, <1>1 DEF Goto
  <2> QED BY <1>1, <2>1 DEF Quiet
<1>2. ASSUME NEW t \in Tabs, Done(t), SameTokens, cut \subseteq cut',
             \A b \in Browsers : jar'[b].refresh \in {jar[b].refresh, None},
             At(t, "retire") => call[t].s \in cut'
      PROVE  Quiet
  <2>1. Idle.pc = "idle" /\ Idle.tok = None
    BY DEF Idle
  <2> QED BY <1>1, <1>2, <2>1 DEF Done
<1>3. ASSUME NEW t \in Tabs, NEW pc, Step(t, pc), SameTokens, cut' = cut, jar' = jar,
             pc \notin {"mint", "retire"}, ~At(t, "retire")
      PROVE  Quiet
  <2> DEFINE c == [call[t] EXCEPT !.pc = pc]
  <2>1. c.pc = pc /\ c.tok = call[t].tok /\ Goto(t, c)
    BY <1>0, <1>3 DEF Step, Call
  <2> HIDE DEF c
  <2> QED BY <1>1, <1>3, <2>1
<1>4. ASSUME NEW t \in Tabs, ServerStep(t) PROVE Quiet \/ Rotation
  <2>1. ASSUME NEW s \in Sessions, IssueCreate(t, s) PROVE Quiet
    <3>1. SameTokens /\ cut' = cut /\ jar' = jar /\ ~At(t, "retire")
      BY <2>1, RowSame DEF IssueCreate, At
    <3>2. CASE Done(t)
      BY <1>2, <3>1, <3>2
    <3>3. CASE At(t, "issue") /\ Goto(t, [call[t] EXCEPT !.s = s])
      <4> DEFINE c == [call[t] EXCEPT !.s = s]
      <4>1. c.pc = "issue" /\ c.tok = call[t].tok /\ Goto(t, c)
        BY <1>0, <3>3 DEF At, Call
      <4> HIDE DEF c
      <4> QED BY <1>1, <3>1, <4>1
    <3> QED BY <2>1, <3>2, <3>3 DEF IssueCreate
  <2>2. CASE IssueResolve(t)
    <3>1. SameTokens /\ cut' = cut /\ jar' = jar /\ At(t, "issue")
      BY <2>2, RowSame DEF IssueResolve
    <3> DEFINE c == [call[t] EXCEPT !.ver = NewClaims(t)]
    <3>2. c.pc = "issue" /\ c.tok = call[t].tok
      BY <1>0, <3>1 DEF At, Call
    <3>3. Goto(t, c) \/ Step(t, "orphan") \/ Done(t)
      BY <2>2 DEF IssueResolve
    <3> HIDE DEF c
    <3> QED BY <1>1, <1>2, <1>3, <3>1, <3>2, <3>3 DEF At
  <2>3. CASE RefreshResolve(t)
    <3>1. SameTokens /\ cut' = cut /\ jar' = jar /\ At(t, "resolve")
      BY <2>3, RowSame DEF RefreshResolve
    <3> DEFINE c == [call[t] EXCEPT !.pc = "reply", !.ver = NewClaims(t)]
    <3>2. c.pc = "reply" /\ c.tok = call[t].tok
      BY <1>0 DEF Call
    <3>3. Goto(t, c) \/ Done(t)
      BY <2>3 DEF RefreshResolve
    <3> HIDE DEF c
    <3> QED BY <1>1, <1>2, <3>1, <3>2, <3>3 DEF At
  <2>4. CASE KillTokens(t)
    <3>1. SameTokens
      BY <1>0, <2>4, RevokeEffect DEF KillTokens, SameTokens
    <3> QED BY <1>3, <2>4, <3>1 DEF KillTokens, At
  <2>5. CASE KillSession(t)
    BY <1>2, <2>5, RowSame DEF KillSession, At
  <2>6. CASE CloseTokens(t)
    <3>1. SameTokens
      BY <1>0, <2>6, RevokeEffect DEF CloseTokens, SameTokens
    <3>2. \A b \in Browsers : jar'[b].refresh \in {jar[b].refresh, None}
      BY <1>0, <2>6 DEF CloseTokens, Jar
    <3> QED BY <1>2, <2>6, <3>1, <3>2 DEF CloseTokens, At
  <2> QED BY <1>4, <2>1, <2>2, <2>3, <2>4, <2>5, <2>6 DEF ServerStep, Rotation
<1>5. ASSUME NEW t \in Tabs, UserStep(t) PROVE Quiet
  <2>0. SameTokens /\ cut' = cut /\ jar' = jar /\ At(t, "idle")
    BY <1>5, RowSame DEF UserStep, Login, Ask, CloseSession
  <2>1. CASE Login(t)
    BY <1>3, <2>0, <2>1 DEF Login, At
  <2>2. CASE Ask(t)
    <3> DEFINE c == [Idle EXCEPT !.pc = "refresh", !.tok = jar[BrowserOf[t]].refresh]
    <3>1. c.pc = "refresh" /\ c.tok = jar[BrowserOf[t]].refresh /\ Goto(t, c)
      BY <2>2 DEF Ask, Idle
    <3> HIDE DEF c
    <3> QED BY <1>1, <2>0, <3>1 DEF At
  <2>3. ASSUME NEW s \in Sessions, NEW pc \in {"logout", "revoke"}, CloseSession(t, s, pc)
        PROVE  Quiet
    <3> DEFINE c == [Idle EXCEPT !.pc = pc, !.s = s]
    <3>1. c.pc = pc /\ c.tok = None /\ Goto(t, c)
      BY <2>3 DEF CloseSession, Idle
    <3> HIDE DEF c
    <3> QED BY <1>1, <2>0, <3>1 DEF At
  <2> QED BY <1>5, <2>1, <2>2, <2>3 DEF UserStep
<1>6. ASSUME NEW t \in Tabs, Vanish(t) PROVE Quiet
  <2>1. At(t, "retire") => call[t].s \in Sessions
    BY <1>0, SessionAssumption DEF At, CallOK
  <2> QED BY <1>2, <1>6, <2>1, RowSame DEF Vanish
<1>7. CASE OutsideStep \/ UNCHANGED vars
  <2>1. call' = call /\ SameTokens /\ cut' = cut
    BY <1>7, RowSame DEF OutsideStep, UpdateStatus, ChangePermissions, ExpireAccess, vars
  <2>2. \A b \in Browsers : jar'[b].refresh \in {jar[b].refresh, None}
    BY <1>0, <1>7 DEF OutsideStep, UpdateStatus, ChangePermissions, ExpireAccess, vars, Jar
  <2> QED BY <2>1, <2>2 DEF Quiet
<1> QED BY <1>4, <1>5, <1>6, <1>7 DEF SessionNext

(* Two calls that use tokens of one session are one call.                  *)
LEMMA OneCallInSession ==
    ASSUME TokenInv, OneCallEach, NEW t \in Tabs, NEW u \in Tabs,
           call[t].tok \in Rows, call[u].tok \in Rows,
           row[call[t].tok].s = row[call[u].tok].s
    PROVE  t = u
<1>1. Holds(BrowserOf[t], call[t].tok) /\ Holds(BrowserOf[u], call[u].tok)
  BY DEF Holds, Uses
<1>2. BrowserOf[t] \in Browsers /\ BrowserOf[u] \in Browsers
  BY SessionAssumption
<1>3. BrowserOf[t] = BrowserOf[u]
  BY <1>1, <1>2 DEF TokenInv, HeldByOne
<1> QED BY <1>3 DEF OneCallEach

LEMMA RotatesWithToken ==
    ASSUME TokenInv, NEW t \in Tabs,
           call[t].pc \in {"refresh", "mint", "retire", "killTokens", "killSession"}
    PROVE  /\ call[t].tok \in Rows
           /\ ~At(t, "refresh") => row[call[t].tok].s = call[t].s
BY DEF TokenInv, Carries, At

LEMMA UsedOnceNext ==
    ASSUME TokenInv, TokenInv', OneCallEach, UsedOnce, [SessionNext]_vars
    PROVE  UsedOnce'
<1> USE SessionAssumption
<1>0. /\ call \in [Tabs -> Call] /\ row \in RowType /\ jar \in [Browsers -> Jar]
      /\ BrowserOf \in [Tabs -> Browsers] /\ Rows \subseteq Tokens
      /\ ParentsAreRows /\ NewIsPrivate /\ HeldByOne
      /\ \A t \in Tabs : /\ call[t].tok \in Tokens \cup {None} /\ Carries(t)
                        /\ CallOK(call[t], session, Rows)
  BY CallFields DEF TokenInv, SessionInv, SessionTypeOK, RowType, Rows
(* Who uses no more than before, of the same tokens.                       *)
<1>1. ASSUME SameTokens, \A b \in Browsers, k \in Tokens : Uses(b, k)' => Uses(b, k)
      PROVE  UsedOnce'
  <2>1. Rows' = Rows /\ \A k \in Tokens : Children(k)' = Children(k)
    BY <1>1 DEF SameTokens, Children
  <2>2. \A k \in Rows : Children(k) \subseteq Tokens
    BY <1>0 DEF Children
  <2> QED BY <1>0, <1>1, <2>1, <2>2 DEF UsedOnce, Undelivered
<1>2. CASE Quiet
  <2>1. \A b \in Browsers, k \in Tokens : Uses(b, k)' => Uses(b, k)
    BY <1>2 DEF Quiet, Uses
  <2> QED BY <1>1, <1>2, <2>1 DEF Quiet
<1>3. ASSUME NEW t \in Tabs, RefreshRead(t) \/ RefreshRetire(t) PROVE UsedOnce'
  <2>1. SameTokens
    <3>1. CASE RefreshRead(t)
      BY <3>1, RowSame DEF RefreshRead
    <3>2. CASE RefreshRetire(t)
      BY <1>0, <3>2, RetireEffect DEF RefreshRetire, At, CallOK, SameTokens
    <3> QED BY <1>3, <3>1, <3>2
  <2>2. jar' = jar /\ (\A u \in Tabs \ {t} : call'[u] = call[u])
        /\ call'[t].tok \in {call[t].tok, None}
    <3>1. CASE RefreshRead(t)
      <4> DEFINE r == row[call[t].tok]
                 c == [call[t] EXCEPT !.pc = "killTokens", !.s = r.s]
                 d == [call[t] EXCEPT !.pc = "mint", !.s = r.s]
      <4>1. c.tok = call[t].tok /\ d.tok = call[t].tok /\ Idle.tok = None
        BY <1>0 DEF Call, Idle
      <4>2. Goto(t, c) \/ Goto(t, d) \/ Goto(t, Idle)
        BY <3>1 DEF RefreshRead, Done
      <4> HIDE DEF c, d
      <4> QED BY <1>0, <3>1, <4>1, <4>2 DEF Goto, RefreshRead
    <3>2. CASE RefreshRetire(t)
      BY <1>0, <3>2 DEF RefreshRetire, Step, Goto, Call
    <3> QED BY <1>3, <3>1, <3>2
  <2>3. \A b \in Browsers, k \in Tokens : Uses(b, k)' => Uses(b, k)
    BY <2>2 DEF Uses
  <2> QED BY <1>1, <2>1, <2>3
<1>4. ASSUME NEW t \in Tabs, NEW k \in Tokens, IssueMint(t, k) \/ RefreshMint(t, k)
      PROVE  UsedOnce'
  <2>1. /\ Insert(k, call[t].s, call[t].tok) /\ call[t].s \in Sessions /\ jar' = jar
    BY <1>0, <1>4, CallFields
       DEF IssueMint, RefreshMint, At, Carries, CallOK, TokenInv, SessionInv
  <2>2. /\ k \notin Rows /\ Rows' = Rows \cup {k} /\ row'[k].parent = call[t].tok
        /\ \A j \in Rows : row'[j] = row[j]
    <3>1. row'[k] = [s |-> call[t].s, live |-> TRUE, parent |-> call[t].tok]
      BY <1>0, <2>1, InsertEffect
    <3> QED BY <1>0, <2>1, <3>1, InsertEffect
  <2>3. /\ \A u \in Tabs \ {t} : call'[u] = call[u]
        /\ call'[t].tok = call[t].tok /\ call'[t].new = k
    <3>1. PICK pc \in {"reply", "retire"} : Goto(t, [call[t] EXCEPT !.pc = pc, !.new = k])
      BY <1>4 DEF IssueMint, RefreshMint
    <3> QED BY <1>0, <3>1 DEF Goto, Call
  (* Nobody uses the new token, and nothing was minted for it.             *)
  <2>4. \A b \in Browsers : ~Uses(b, k)'
    BY <2>3 DEF TokenInv, NewIsPrivate
  <2>5. Children(k)' = {}
    BY <1>0, <2>2 DEF Children, ParentsAreRows, Carries
  <2>6. \A b \in Browsers, j \in Tokens : Uses(b, j)' <=> Uses(b, j)
    BY <2>1, <2>3 DEF Uses
  <2>7. \A j \in Tokens : Children(j)' = IF j = call[t].tok THEN Children(j) \cup {k}
                                                         ELSE Children(j)
    BY <2>2 DEF Children
  <2> SUFFICES ASSUME NEW b \in Browsers, NEW i \in Rows', Uses(b, i)',
                      NEW j \in Children(i)'
               PROVE  Children(j)' = {} /\ \A d \in Browsers : ~Uses(d, j)'
    BY DEF UsedOnce, Undelivered
  <2>8. CASE j = k
    BY <2>4, <2>5, <2>8
  <2>9. CASE j # k
    <3>1. i \in Rows /\ i \in Tokens /\ Uses(b, i)
      BY <1>0, <2>2, <2>4, <2>6
    <3>2. j \in Children(i) /\ j \in Tokens
      BY <1>0, <2>7, <2>9, <3>1 DEF Children
    <3>3. Children(j) = {} /\ \A d \in Browsers : ~Uses(d, j)
      BY <3>1, <3>2 DEF UsedOnce, Undelivered
    <3>4. j # call[t].tok
      BY <1>0, <3>3 DEF Uses
    <3> QED BY <2>6, <2>7, <3>2, <3>3, <3>4
  <2> QED BY <2>8, <2>9
<1>5. ASSUME NEW t \in Tabs, Reply(t) PROVE UsedOnce'
  <2> DEFINE new == call[t].new
             old == call[t].tok
  <2>1. /\ new \in Rows /\ row[new].s = call[t].s /\ row[new].parent = old
        /\ Children(new) = {}
        /\ old # None => old \in Rows /\ row[old].s = call[t].s
    BY <1>0, <1>5 DEF Reply, At, CallOK, Carries
  <2>2. /\ row' = row /\ Rows' = Rows /\ \A k : Children(k)' = Children(k)
        /\ call'[t] = Idle /\ \A u \in Tabs \ {t} : call'[u] = call[u]
    BY <1>0, <1>5 DEF Reply, Rows, Children, Done, Goto
  <2>3. \A b \in Browsers : jar'[b].refresh = IF b = BrowserOf[t] THEN new ELSE jar[b].refresh
    BY <1>0, <1>5 DEF Reply
  <2>4. \A b \in Browsers, k \in Tokens :
            Uses(b, k)' => Uses(b, k) \/ (b = BrowserOf[t] /\ k = new)
    BY <2>2, <2>3 DEF Uses, Idle
  (* The browser has put the old token away, and no other has it.          *)
  <2>5. ASSUME NEW b \in Browsers, NEW k \in Rows, k = old, Uses(b, k)' PROVE FALSE
    <3>1. k # new
      BY <1>0, <2>1, <2>5, SessionAssumption DEF NewIsPrivate, Uses, Rows
    <3>2. Uses(b, k)
      BY <1>0, <2>4, <2>5, <3>1
    <3>3. b = BrowserOf[t]
      <4>1. Holds(b, k) /\ Holds(BrowserOf[t], k) /\ BrowserOf[t] \in Browsers
        BY <1>0, <2>5, <3>2 DEF Holds, Uses
      <4> QED BY <1>0, <2>5, <4>1 DEF HeldByOne
    <3>4. \A u \in Tabs : BrowserOf[u] = b => call'[u] = Idle
      BY <2>2, <3>3 DEF OneCallEach
    <3>5. Idle.tok = None /\ k # None /\ jar'[b].refresh # k
      BY <1>0, <2>3, <3>1, <3>3, SessionAssumption DEF Idle
    <3> QED BY <2>5, <3>4, <3>5 DEF Uses
  <2> SUFFICES ASSUME NEW b \in Browsers, NEW i \in Rows, Uses(b, i)', NEW j \in Children(i)
               PROVE  Children(j) = {} /\ \A d \in Browsers : ~Uses(d, j)'
    BY <2>2 DEF UsedOnce, Undelivered
  <2>6. i # new /\ i \in Tokens /\ j \in Tokens
    <3>1. i # new
      BY <2>1
    <3> QED BY <1>0, <3>1 DEF Children
  <2>7. Children(j) = {} /\ \A d \in Browsers : ~Uses(d, j)
    BY <2>4, <2>6 DEF UsedOnce, Undelivered
  <2>8. j # new
    <3>1. j = new => i = old
      BY <2>1 DEF Children
    <3> QED BY <2>5, <3>1
  <2> QED BY <2>4, <2>6, <2>7, <2>8
<1> QED BY <1>2, <1>3, <1>4, <1>5, QuietSteps DEF Rotation

(* ReuseWasLost: a browser that sends one call at a time never loses an    *)
(* active session to reuse detection over a token whose successor it got,  *)
(* for any number of browsers, sessions and tokens.                        *)
THEOREM ReplaysWereLost == OneCallEach => (SessionSpec => []ReuseWasLost)
<1> SUFFICES ASSUME OneCallEach PROVE SessionSpec => []ReuseWasLost
  OBVIOUS
<1>1. SessionInit => UsedOnce
  BY DEF SessionInit, UsedOnce, Rows
<1>2. TokenInv /\ ActiveInv /\ UsedOnce => ReuseWasLost
  <2> SUFFICES ASSUME TokenInv, ActiveInv, UsedOnce, NEW t \in Tabs, At(t, "killTokens"),
                      session[call[t].s] = "active", call[t].s \notin cut
               PROVE  /\ Children(call[t].tok) # {}
                      /\ \A k \in Children(call[t].tok) :
                            Children(k) = {} /\ \A b \in Browsers : jar[b].refresh # k
    BY DEF ReuseWasLost
  <2>1. /\ call[t].tok \in Rows /\ row[call[t].tok].s = call[t].s /\ ~row[call[t].tok].live
        /\ call[t].s \in Sessions
    BY RotatesWithToken, CallFields DEF TokenInv, SessionInv, Carries, At, CallOK
  <2>2. ~Killing(call[t].s)
    <3> SUFFICES ASSUME NEW u \in Tabs, At(u, "killSession"), call[u].s = call[t].s
                 PROVE  FALSE
      BY DEF Killing
    <3>1. call[u].tok \in Rows /\ row[call[u].tok].s = call[u].s
      BY RotatesWithToken DEF At
    <3>2. t = u
      BY <2>1, <3>1, OneCallInSession
    <3> QED BY <3>2 DEF At
  <2>3. Children(call[t].tok) # {}
    BY <2>1, <2>2 DEF ActiveInv, Sound, Renewable, Family
  <2>4. Uses(BrowserOf[t], call[t].tok) /\ BrowserOf[t] \in Browsers
    BY SessionAssumption DEF Uses
  <2> QED BY <2>1, <2>3, <2>4 DEF UsedOnce, Undelivered, Uses
<1>3. SessionSpec => []UsedOnce
  BY <1>1, UsedOnceNext, TokenInvHolds, PTL DEF SessionSpec
<1> QED BY <1>2, <1>3, TokenInvHolds, ActiveInvHolds, PTL

-----------------------------------------------------------------------------
(* Nobody starts or ends a rotation in the session, and it has no more     *)
(* live tokens than before.                                                *)
LEMMA OneAliveStays ==
    ASSUME NEW s \in Sessions, OneAlive(s),
           LiveTokens(s)' \subseteq LiveTokens(s),
           \A u \in Tabs : At(u, "mint")' \/ At(u, "retire")' =>
               call'[u] = call[u] \/ call'[u].s # s,
           \A u \in Tabs : At(u, "retire") /\ call[u].s = s => call'[u] = call[u]
    PROVE  OneAlive(s)'
<1>1. \A u \in Tabs : (At(u, "mint") /\ call[u].s = s)' => LiveTokens(s)' \subseteq {call'[u].tok}
  BY DEF OneAlive, At
<1>2. \A u \in Tabs : (At(u, "retire") /\ call[u].s = s)' =>
          LiveTokens(s)' \subseteq {call'[u].tok, call'[u].new}
  BY DEF OneAlive, At
<1>3. (\A j, k \in LiveTokens(s)' : j = k) \/ \E u \in Tabs : (At(u, "retire") /\ call[u].s = s)'
  BY DEF OneAlive, At
<1> QED BY <1>1, <1>2, <1>3 DEF OneAlive

LEMMA LiveInvNext ==
    ASSUME TokenInv, OneCallEach, LiveInv, [SessionNext]_vars
    PROVE  LiveInv'
<1> USE SessionAssumption
<1>0. /\ call \in [Tabs -> Call] /\ row \in RowType /\ Rows \subseteq Tokens
      /\ \A t \in Tabs : Carries(t) /\ CallOK(call[t], session, Rows)
      /\ \A t \in Tabs : call[t].s \in Sessions \cup {None}
  BY CallFields DEF TokenInv, SessionInv, SessionTypeOK, RowType, Rows
<1>1. CASE Quiet
  <2> SUFFICES ASSUME NEW s \in Sessions \ cut' PROVE OneAlive(s)'
    BY DEF LiveInv
  <2>1. s \in Sessions \ cut /\ OneAlive(s)
    BY <1>1 DEF Quiet, LiveInv
  <2>2. LiveTokens(s)' \subseteq LiveTokens(s)
    BY <1>1 DEF Quiet, SameTokens, LiveTokens, Family
  <2>3. /\ \A u \in Tabs : At(u, "mint")' \/ At(u, "retire")' => call'[u] = call[u]
        /\ \A u \in Tabs : At(u, "retire") /\ call[u].s = s => call'[u] = call[u]
    BY <1>1 DEF Quiet, At
  <2> QED BY <2>1, <2>2, <2>3, OneAliveStays
<1>2. ASSUME NEW t \in Tabs, NEW s \in Sessions \ cut,
             \/ RefreshRead(t) \/ RefreshRetire(t) \/ Reply(t)
             \/ \E k \in Tokens : IssueMint(t, k) \/ RefreshMint(t, k)
      PROVE  OneAlive(s)'
  <2>0. OneAlive(s)
    BY DEF LiveInv
  (* While a call of the session holds a token, no other rotates in it.    *)
  <2>1. ASSUME NEW u \in Tabs \ {t}, call[t].tok \in Rows, row[call[t].tok].s = s,
               At(u, "mint") \/ At(u, "retire"), call[u].s = s
        PROVE  FALSE
    <3>1. call[u].tok \in Rows /\ row[call[u].tok].s = s
      BY <2>1, RotatesWithToken DEF At
    <3> QED BY <2>1, <3>1, OneCallInSession
  <2>2. CASE RefreshRead(t)
    <3>1. /\ call[t].tok \in Rows /\ LiveTokens(s)' = LiveTokens(s) /\ At(t, "refresh")
          /\ \A u \in Tabs \ {t} : call'[u] = call[u]
      BY <1>0, <2>2, RotatesWithToken
         DEF RefreshRead, At, LiveTokens, Family, Rows, Goto, Done
    <3>2. /\ ~At(t, "retire")'
          /\ At(t, "mint")' => /\ row[call[t].tok].live /\ call'[t].tok = call[t].tok
                               /\ call'[t].s = row[call[t].tok].s
      <4> DEFINE r == row[call[t].tok]
                 c == [call[t] EXCEPT !.pc = "killTokens", !.s = r.s]
                 d == [call[t] EXCEPT !.pc = "mint", !.s = r.s]
      <4>1. /\ c.pc = "killTokens" /\ d.pc = "mint" /\ d.tok = call[t].tok /\ d.s = r.s
            /\ Idle.pc = "idle"
        BY <1>0 DEF Call, Idle
      <4>2. Goto(t, c) \/ (Goto(t, d) /\ row[call[t].tok].live) \/ Goto(t, Idle)
        BY <2>2 DEF RefreshRead, Done
      <4> HIDE DEF c, d
      <4> QED BY <1>0, <4>1, <4>2 DEF Goto, At
    <3>3. CASE ~(At(t, "mint")' /\ call'[t].s = s)
      BY <2>0, <3>1, <3>2, <3>3, OneAliveStays DEF At
    <3>4. CASE At(t, "mint")' /\ call'[t].s = s
      <4>1. call[t].tok \in LiveTokens(s) /\ row[call[t].tok].s = s
        BY <3>1, <3>2, <3>4 DEF LiveTokens, Family
      <4>2. \A u \in Tabs : ~(At(u, "retire") /\ call[u].s = s)
        BY <2>1, <3>1, <4>1 DEF At
      <4>3. LiveTokens(s) = {call[t].tok}
        BY <2>0, <4>1, <4>2 DEF OneAlive
      <4>4. \A u \in Tabs \ {t} : ~(At(u, "mint") /\ call[u].s = s)'
        BY <2>1, <3>1, <4>1 DEF At
      <4>5. \A u \in Tabs \ {t} : ~(At(u, "retire") /\ call[u].s = s)'
        BY <3>1, <4>2 DEF At
      <4> QED BY <3>1, <3>2, <4>3, <4>4, <4>5 DEF OneAlive
    <3> QED BY <3>3, <3>4
  <2>3. CASE RefreshRetire(t)
    <3>1. /\ call[t].tok \in Rows /\ call[t].new \in Rows /\ row[call[t].tok].s = call[t].s
          /\ At(t, "retire")
      BY <1>0, <2>3, RotatesWithToken DEF RefreshRetire, At, CallOK
    <3>2. LiveTokens(s)' = LiveTokens(s) \ {call[t].tok}
      BY <1>0, <2>3, <3>1, RetireEffect, RowFields DEF RefreshRetire, LiveTokens, Family
    <3>3. /\ \A u \in Tabs \ {t} : call'[u] = call[u]
          /\ ~At(t, "retire")' /\ ~At(t, "mint")'
      BY <1>0, <2>3 DEF RefreshRetire, Step, Goto, At, Call
    <3>4. CASE call[t].s # s
      BY <2>0, <3>2, <3>3, <3>4, OneAliveStays
    <3>5. CASE call[t].s = s
      <4>1. LiveTokens(s)' \subseteq {call[t].new}
        BY <2>0, <3>1, <3>2, <3>5 DEF OneAlive
      <4>2. \A u \in Tabs : ~(At(u, "mint") /\ call[u].s = s)'
                        /\ ~(At(u, "retire") /\ call[u].s = s)'
        BY <2>1, <3>1, <3>3, <3>5 DEF At
      <4> QED BY <4>1, <4>2 DEF OneAlive
    <3> QED BY <3>4, <3>5
  <2>4. CASE Reply(t)
    <3>1. /\ LiveTokens(s)' = LiveTokens(s) /\ At(t, "reply")
          /\ \A u \in Tabs \ {t} : call'[u] = call[u]
          /\ ~At(t, "retire")' /\ ~At(t, "mint")'
      BY <1>0, <2>4 DEF Reply, LiveTokens, Family, Rows, Done, Goto, At, Idle
    <3> QED BY <2>0, <3>1, OneAliveStays DEF At
  <2>5. ASSUME NEW k \in Tokens, IssueMint(t, k) \/ RefreshMint(t, k) PROVE OneAlive(s)'
    <3>1. call[t].s \in Sessions /\ Insert(k, call[t].s, call[t].tok)
          /\ call[t].tok \in Tokens \cup {None}
      BY <1>0, <2>5, CallFields
         DEF IssueMint, RefreshMint, At, Carries, CallOK, TokenInv, SessionInv
    <3>2. LiveTokens(s)' = IF call[t].s = s THEN LiveTokens(s) \cup {k} ELSE LiveTokens(s)
      <4>1. /\ k \notin Rows /\ Rows' = Rows \cup {k} /\ \A j \in Rows : row'[j] = row[j]
            /\ row'[k] = [s |-> call[t].s, live |-> TRUE, parent |-> call[t].tok]
        BY <1>0, <3>1, InsertEffect
      <4>2. row'[k].s = call[t].s /\ row'[k].live
        BY <4>1
      <4>3. \A j \in Rows : row'[j].s = row[j].s /\ row'[j].live = row[j].live
        BY <4>1
      <4> QED BY <4>1, <4>2, <4>3 DEF LiveTokens, Family
    <3>3. PICK pc \in {"reply", "retire"} :
             /\ Goto(t, [call[t] EXCEPT !.pc = pc, !.new = k])
             /\ pc = "reply" => At(t, "issue") /\ call[t].tok = None
             /\ pc = "retire" => At(t, "mint")
      BY <1>0, <2>5 DEF IssueMint, RefreshMint, Carries, At
    <3>4. /\ \A u \in Tabs \ {t} : call'[u] = call[u]
          /\ call'[t].pc = pc /\ call'[t].s = call[t].s
          /\ call'[t].tok = call[t].tok /\ call'[t].new = k
      BY <1>0, <3>3 DEF Goto, Call
    <3>5. ~At(t, "retire")
      BY <3>3 DEF At
    <3>6. CASE call[t].s # s
      BY <2>0, <3>2, <3>4, <3>5, <3>6, OneAliveStays
    <3>7. CASE call[t].s = s /\ pc = "reply"
      <4>1. Family(s) = {}
        BY <1>0, <3>3, <3>7 DEF Carries, At
      <4>2. LiveTokens(s)' = {k}
        BY <3>2, <3>7, <4>1 DEF LiveTokens
      <4>3. \A u \in Tabs : (At(u, "mint") \/ At(u, "retire")) => call[u].s # s
        BY <4>1, RotatesWithToken DEF Family, At
      <4>4. \A u \in Tabs : ~(At(u, "mint") /\ call[u].s = s)'
                        /\ ~(At(u, "retire") /\ call[u].s = s)'
        BY <3>4, <3>7, <4>3 DEF At
      <4> QED BY <4>2, <4>4 DEF OneAlive
    <3>8. CASE call[t].s = s /\ pc = "retire"
      <4>1. call[t].tok \in Rows /\ row[call[t].tok].s = s
        BY <3>3, <3>8, RotatesWithToken DEF At
      <4>2. LiveTokens(s)' \subseteq {call'[t].tok, call'[t].new}
        BY <2>0, <3>2, <3>3, <3>4, <3>8 DEF OneAlive
      <4>3. \A u \in Tabs \ {t} : ~(At(u, "mint") /\ call[u].s = s)'
                              /\ ~(At(u, "retire") /\ call[u].s = s)'
        BY <2>1, <3>4, <4>1 DEF At
      <4>4. (At(t, "retire") /\ call[t].s = s)' /\ ~At(t, "mint")'
        BY <3>4, <3>8 DEF At
      <4> QED BY <4>2, <4>3, <4>4 DEF OneAlive
    <3> QED BY <3>6, <3>7, <3>8
  <2> QED BY <1>2, <2>2, <2>3, <2>4, <2>5
<1>3. CASE Rotation
  <2>1. cut' = cut
    BY <1>3 DEF Rotation, RefreshRead, RefreshRetire, Reply, IssueMint, RefreshMint
  <2> QED BY <1>2, <1>3, <2>1 DEF Rotation, LiveInv
<1> QED BY <1>1, <1>3, QuietSteps

LEMMA PairSize ==
    ASSUME NEW x, NEW y, NEW S \in SUBSET {x, y}
    PROVE  /\ Cardinality(S) <= 2
           /\ (\A j, k \in S : j = k) => Cardinality(S) <= 1
           /\ Cardinality(S) \in Nat
<1>1. IsFiniteSet({x, y}) /\ Cardinality({x, y}) <= 2
  <2>1. IsFiniteSet({x}) /\ Cardinality({x}) = 1 /\ {x} \cup {y} = {x, y}
    BY FS_Singleton
  <2> QED BY <2>1, FS_AddElement
<1>2. IsFiniteSet(S) /\ Cardinality(S) <= Cardinality({x, y})
  BY <1>1, FS_Subset
<1>3. Cardinality(S) \in Nat /\ Cardinality({x, y}) \in Nat
  BY <1>1, <1>2, FS_CardinalityType
<1>4. ASSUME \A j, k \in S : j = k PROVE Cardinality(S) <= 1
  <2>1. CASE S = {}
    BY <2>1, FS_EmptySet
  <2>2. CASE S # {}
    <3>1. PICK j \in S : S = {j}
      BY <1>4, <2>2
    <3> QED BY <3>1, FS_Singleton
  <2> QED BY <2>1, <2>2
<1> QED BY <1>1, <1>2, <1>3, <1>4

(* OneLiveToken: browsers that send one call at a time never leave a       *)
(* session with two usable tokens, except between the insert and the       *)
(* update of one rotation, for any number of browsers, sessions, tokens.   *)
THEOREM RotationKeepsOne == OneCallEach => (SessionSpec => []OneLiveToken)
<1> SUFFICES ASSUME OneCallEach PROVE SessionSpec => []OneLiveToken
  OBVIOUS
<1>1. SessionInit => LiveInv
  <2> SUFFICES ASSUME SessionInit PROVE LiveInv
    OBVIOUS
  <2>1. Rows = {} /\ \A t \in Tabs : call[t].pc = "idle"
    BY DEF SessionInit, Rows, Idle
  <2> QED BY <2>1 DEF LiveInv, OneAlive, LiveTokens, Family, At
<1>2. LiveInv => OneLiveToken
  <2> SUFFICES ASSUME NEW s \in Sessions, OneAlive(s)
               PROVE  \/ Cardinality(LiveTokens(s)) <= 1
                      \/ /\ Cardinality(LiveTokens(s)) = 2
                         /\ \E t \in Tabs : At(t, "retire") /\ call[t].s = s
    BY DEF LiveInv, OneLiveToken
  <2>1. CASE \A j, k \in LiveTokens(s) : j = k
    <3>1. \E x : LiveTokens(s) \subseteq {x, x}
      BY <2>1
    <3> QED BY <2>1, <3>1, PairSize
  <2>2. ASSUME NEW t \in Tabs, At(t, "retire"), call[t].s = s
        PROVE  Cardinality(LiveTokens(s)) \in 0 .. 2
    <3>1. LiveTokens(s) \in SUBSET {call[t].tok, call[t].new}
      BY <2>2 DEF OneAlive
    <3>2. Cardinality(LiveTokens(s)) <= 2 /\ Cardinality(LiveTokens(s)) \in Nat
      BY <3>1, PairSize
    <3> QED BY <3>2
  <2> QED BY <2>1, <2>2 DEF OneAlive
<1> QED BY <1>1, <1>2, LiveInvNext, TokenInvHolds, PTL DEF SessionSpec
=============================================================================
