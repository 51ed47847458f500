--------------------------- MODULE RecordsProofs ---------------------------
(***************************************************************************)
(* Proofs about services that decide on rows they read before an await, or *)
(* that no one transaction covers, for any number of requests, jobs and    *)
(* connections at once.  First who gets in and to whose rows: the lock on  *)
(* the credential (LoginLockout), the links of invitations                 *)
(* (InvitationLinks) and the settings of pooled connections that the row   *)
(* policies read (TenantRows).  Then the files and their objects (Files),  *)
(* the token a listing holds (ShopToken), the vectors of products          *)
(* (Embeddings), the saved lists of recommendations (Recommendations), and *)
(* what storeStats counts in the lines of orders (Baskets).                *)
(*                                                                         *)
(* The lock survives a read before an await because what a login has read  *)
(* never counts more than the wrong passwords there were; logins that do   *)
(* not overlap have read the current row.  The links survive it because    *)
(* each is minted once, so a late commit can bring no link that another    *)
(* row has.                                                                *)
(***************************************************************************)
EXTENDS LoginLockout, InvitationLinks, TenantRows, Files, ShopToken, Embeddings,
        Recommendations, Baskets, FiniteSetTheorems, FunctionTheorems, TLAPS

LoginSpec == LoginInit /\ [][LoginNext]_loginVars
InvitationLinksSpec == InvitationLinksInit /\ [][InvitationLinksNext]_inviteVars
FilesSpec == FilesInit /\ [][FilesNext]_fileVars
ShopTokenSpec == TokenInit /\ [][TokenNext]_tokenVars
EmbeddingsSpec == EmbeddingsInit /\ [][EmbeddingsNext]_embedVars
RecommendationsSpec == RecommendationsInit /\ [][RecommendationsNext]_recVars
BasketsSpec == BasketsInit /\ [][BasketsNext]_basketVars

-----------------------------------------------------------------------------
(* The lock                                                                *)

LoginCalls == [step : {"idle", "verify", "fail", "reset"}, seen : Credential]

LoginInv ==
    /\ LoginTypeOK
    /\ LockIsEarned
    /\ streak <= wrong
    /\ \A l \in Logins : login[l].seen.failed <= wrong
    /\ apart => \A l \in InFlight : InFlight = {l} /\ login[l].seen = cred

LEMMA LoginInvInit == LoginInit => LoginInv
BY LoginAssumption
   DEF LoginInit, LoginInv, LoginTypeOK, LockIsEarned, NeverFailed, NoLogin, Credential,
       InFlight

LEMMA LoginInvNext == LoginInv /\ [LoginNext]_loginVars => LoginInv'
<1> SUFFICES ASSUME LoginInv, [LoginNext]_loginVars PROVE LoginInv'
  OBVIOUS
<1> USE LoginAssumption
<1>0. /\ login \in [Logins -> LoginCalls] /\ cred \in Credential
      /\ loginTime \in 1 .. LoginClock /\ wrong \in 0 .. MostWrong /\ streak <= wrong
      /\ streak \in 0 .. MostWrong /\ lastWrong \in 0 .. LoginClock /\ apart \in BOOLEAN
      /\ NoLogin \in LoginCalls /\ NeverFailed \in Credential /\ NoLogin.step = "idle"
      /\ NoLogin.seen.failed = 0 /\ NeverFailed.failed = 0 /\ NeverFailed.until = 0
  BY DEF LoginInv, LoginTypeOK, LoginCalls, NoLogin, NeverFailed, Credential
<1>1. CASE LoginTick
  BY <1>0, <1>1 DEF LoginTick, LoginInv, LoginTypeOK, LockIsEarned, InFlight
<1>2. ASSUME NEW l \in Logins, LoginRead(l) PROVE LoginInv'
  <2> DEFINE c == [step |-> "verify", seen |-> cred]
  <2>1. c \in LoginCalls /\ c.step = "verify" /\ c.seen = cred
    BY <1>0 DEF LoginCalls
  <2>2. /\ login' = [login EXCEPT ![l] = c] /\ login[l].step = "idle"
        /\ apart' = (apart /\ InFlight = {})
        /\ UNCHANGED <<cred, loginTime, wrong, streak, lastWrong>>
    BY <1>2 DEF LoginRead
  <2> HIDE DEF c
  <2>3. LoginTypeOK' /\ LockIsEarned'
    BY <1>0, <2>1, <2>2 DEF LoginInv, LoginTypeOK, LockIsEarned, LoginCalls
  <2>4. \A k \in Logins : login'[k].seen.failed <= wrong'
    BY <1>0, <2>1, <2>2 DEF LoginInv, LockIsEarned
  <2>5. apart' => InFlight' = {l} /\ login'[l].seen = cred'
    BY <1>0, <2>1, <2>2 DEF InFlight
  <2> QED BY <1>0, <2>2, <2>3, <2>4, <2>5 DEF LoginInv
<1>3. ASSUME NEW l \in Logins, LoginVerify(l) PROVE LoginInv'
  <2>1. PICK step \in {"fail", "reset"} : login' = [login EXCEPT ![l].step = step]
    BY <1>3 DEF LoginVerify
  <2>2. /\ login' \in [Logins -> LoginCalls]
        /\ \A k \in Logins : login'[k].seen = login[k].seen
        /\ InFlight' = InFlight
    BY <1>0, <1>3, <2>1 DEF LoginVerify, LoginCalls, InFlight
  <2> QED BY <1>0, <1>3, <2>2 DEF LoginVerify, LoginInv, LoginTypeOK, LockIsEarned, LoginCalls
(* A request that ends.                                                    *)
<1>4. ASSUME NEW l \in Logins, login' = [login EXCEPT ![l] = NoLogin]
      PROVE  /\ login' \in [Logins -> LoginCalls] /\ InFlight' = InFlight \ {l}
             /\ \A k \in Logins \ {l} : login'[k] = login[k]
             /\ login'[l].seen.failed = 0
  BY <1>0, <1>4 DEF InFlight
<1>5. ASSUME NEW l \in Logins, LoginFail(l) PROVE LoginInv'
  <2> DEFINE n == login[l].seen.failed + 1
  <2>1. /\ n \in 1 .. wrong + 1 /\ wrong + 1 \in 0 .. MostWrong
        /\ cred' = Failure(n) /\ login' = [login EXCEPT ![l] = NoLogin]
        /\ wrong' = wrong + 1 /\ streak' = streak + 1 /\ lastWrong' = loginTime
        /\ UNCHANGED <<loginTime, apart>>
    BY <1>0, <1>5 DEF LoginFail, LoginInv, LoginCalls, Credential
  <2>2. apart => n = streak + 1 /\ InFlight = {l}
    BY <1>0, <1>5 DEF LoginFail, LoginInv, LockIsEarned, InFlight
  <2> HIDE DEF n
  <2>3. /\ cred'.failed = n
        /\ cred'.until = IF n >= MaxFailedLogins THEN loginTime + LockTicks ELSE 0
        /\ cred' \in Credential
    BY <1>0, <2>1 DEF Failure, Credential
  <2>4. streak' <= wrong'
    BY <1>0, <2>1
  <2>5. LoginTypeOK'
    <3>1. streak + 1 \in 0 .. MostWrong
      BY <1>0, <2>1
    <3> QED BY <1>0, <1>4, <2>1, <2>3, <3>1 DEF LoginTypeOK, LoginCalls
  <2>6. LockIsEarned'
    BY <1>0, <2>1, <2>2, <2>3 DEF LockIsEarned
  <2>7. \A k \in Logins : login'[k].seen.failed <= wrong'
    BY <1>0, <1>4, <2>1 DEF LoginInv, LoginCalls, Credential
  <2>8. apart' => InFlight' = {}
    BY <1>4, <2>1, <2>2
  <2> QED BY <2>4, <2>5, <2>6, <2>7, <2>8 DEF LoginInv
<1>6. ASSUME NEW l \in Logins, LoginReset(l) PROVE LoginInv'
  <2>1. /\ cred' = NeverFailed /\ login' = [login EXCEPT ![l] = NoLogin]
        /\ streak' = 0 /\ lastWrong' = 0 /\ apart' = (InFlight = {l})
        /\ UNCHANGED <<loginTime, wrong>>
    BY <1>6 DEF LoginReset
  <2>2. LoginTypeOK'
    BY <1>0, <1>4, <2>1 DEF LoginTypeOK, LoginCalls
  <2>3. LockIsEarned'
    BY <1>0, <2>1 DEF LockIsEarned
  <2>4. \A k \in Logins : login'[k].seen.failed <= wrong'
    BY <1>0, <1>4, <2>1 DEF LoginInv
  <2>5. apart' => InFlight' = {}
    BY <1>4, <2>1
  <2> QED BY <1>0, <2>1, <2>2, <2>3, <2>4, <2>5 DEF LoginInv
<1>7. ASSUME NEW l \in Logins, LoginDies(l) PROVE LoginInv'
  <2>1. /\ login' = [login EXCEPT ![l] = NoLogin]
        /\ UNCHANGED <<cred, loginTime, wrong, streak, lastWrong, apart>>
    BY <1>7 DEF LoginDies
  <2>2. LoginTypeOK' /\ LockIsEarned'
    BY <1>0, <1>4, <2>1 DEF LoginInv, LoginTypeOK, LockIsEarned, LoginCalls
  <2>3. \A k \in Logins : login'[k].seen.failed <= wrong'
    BY <1>0, <1>4, <2>1 DEF LoginInv
  <2>4. apart' => \A k \in InFlight' : InFlight' = {k} /\ login'[k].seen = cred'
    BY <1>4, <2>1 DEF LoginInv, InFlight
  <2> QED BY <1>0, <2>1, <2>2, <2>3, <2>4 DEF LoginInv
<1>8. CASE UNCHANGED loginVars
  BY <1>8 DEF loginVars, LoginInv, LoginTypeOK, LockIsEarned, InFlight
<1> QED BY <1>1, <1>2, <1>3, <1>5, <1>6, <1>7, <1>8 DEF LoginNext

(* LockIsEarned: for any number of logins at once, any MAX_FAILED_LOGINS   *)
(* and any LOCK_MINUTES, the count never says more than the wrong          *)
(* passwords there were, a lock comes with a full count, and logins that   *)
(* do not overlap are all counted.                                         *)
THEOREM LocksAreEarned == LoginSpec => []LockIsEarned
<1>1. LoginInv => LockIsEarned
  BY DEF LoginInv
<1> QED BY <1>1, LoginInvInit, LoginInvNext, PTL DEF LoginSpec

-----------------------------------------------------------------------------
(* The links                                                               *)

Invitation == [status : {"none", "pending", "accepted", "revoked"}, link : Links \cup {0},
               expired : BOOLEAN]
InviteCall == [step : InviteSteps, i : InvitationRows, link : Links \cup {0},
               revokes : SUBSET InvitationRows]

Creating(x) == inviteCall[x].step \in {"creating", "created"}
Sending(x) == inviteCall[x].step \in {"created", "resent"}

(* Each link is in one place: in a row, or with the request that has mailed*)
(* it and has not committed.                                               *)
LinksApart ==
    /\ \A i, j \in InvitationRows :
          invitation[i].link # 0 /\ invitation[i].link = invitation[j].link => i = j
    /\ \A x \in InviteCalls : Sending(x) =>
          /\ inviteCall[x].link \in sent \ {0}
          /\ \A i \in InvitationRows : invitation[i].link # inviteCall[x].link
          /\ \A y \in InviteCalls : Sending(y) /\ inviteCall[y].link = inviteCall[x].link => x = y

LinksMinted ==
    /\ \A i \in InvitationRows : invitation[i].link <= minted
    /\ \A x \in InviteCalls : inviteCall[x].link <= minted

PendingWasSent == \A i \in PendingRows : invitation[i].link \in sent \ {0}

(* Until creates overlap, the one that is open revokes all that is pending.*)
OnePending ==
    ~crossed =>
        /\ \A i, j \in PendingRows : i = j
        /\ \A x \in InviteCalls : Creating(x) =>
              /\ PendingRows \subseteq inviteCall[x].revokes
              /\ \A y \in InviteCalls : Creating(y) => x = y

InviteInv ==
    /\ InvitationLinksTypeOK /\ LinksApart /\ LinksMinted /\ PendingWasSent /\ OnePending

LEMMA InviteTypes ==
    ASSUME InvitationLinksTypeOK
    PROVE  /\ invitation \in [InvitationRows -> Invitation]
           /\ inviteCall \in [InviteCalls -> InviteCall]
           /\ NoInviteCall \in InviteCall
           /\ NoInviteCall.step = "idle" /\ NoInviteCall.link = 0
           /\ minted \in 0 .. MostLinks /\ sent \in SUBSET Links /\ crossed \in BOOLEAN
           /\ PendingRows \in SUBSET InvitationRows /\ MostLinks \in Nat
<1>1. SomeRow \in InvitationRows
  BY InvitationLinksAssumption DEF SomeRow
<1> QED
  BY <1>1, InvitationLinksAssumption
     DEF InvitationLinksTypeOK, Invitation, InviteCall, NoInviteCall, InviteSteps, PendingRows,
         Links

LEMMA InviteInvInit == InvitationLinksInit => InviteInv
<1> SUFFICES ASSUME InvitationLinksInit PROVE InviteInv
  OBVIOUS
<1>1. SomeRow \in InvitationRows
  BY InvitationLinksAssumption DEF SomeRow
<1>2. InvitationLinksTypeOK
  BY <1>1, InvitationLinksAssumption
     DEF InvitationLinksInit, InvitationLinksTypeOK, NoInviteCall, InviteSteps, Links
<1>3. PendingRows = {} /\ \A x \in InviteCalls : inviteCall[x].step = "idle"
                                             /\ inviteCall[x].link = 0
  BY DEF InvitationLinksInit, PendingRows, IsPending, NoInviteCall
<1> QED
  BY <1>2, <1>3
     DEF InvitationLinksInit, InviteInv, LinksApart, LinksMinted, PendingWasSent, OnePending,
         Sending, Creating

(* A request that goes to step c with a link no newer than those minted;   *)
(* the rows stay.                                                          *)
LEMMA RequestMoves ==
    ASSUME InviteInv, NEW x \in InviteCalls, NEW c \in InviteCall,
           inviteCall' = [inviteCall EXCEPT ![x] = c], invitation' = invitation,
           sent' = sent, minted' = minted, crossed' \in BOOLEAN, crossed => crossed',
           c.step \notin {"created", "resent"}, c.link = 0,
           ~crossed' /\ c.step = "creating" =>
               /\ PendingRows \subseteq c.revokes
               /\ \A y \in InviteCalls \ {x} : ~Creating(y)
    PROVE  InviteInv'
<1>0. /\ inviteCall \in [InviteCalls -> InviteCall]
      /\ inviteCall'[x] = c /\ \A y \in InviteCalls \ {x} : inviteCall'[y] = inviteCall[y]
      /\ inviteCall' \in [InviteCalls -> InviteCall] /\ minted \in Nat
      /\ PendingRows' = PendingRows
  BY InviteTypes DEF InviteInv, PendingRows, IsPending
<1>1. InvitationLinksTypeOK'
  BY <1>0 DEF InviteInv, InvitationLinksTypeOK, InviteCall
<1>2. LinksApart' /\ LinksMinted' /\ PendingWasSent'
  BY <1>0 DEF InviteInv, LinksApart, LinksMinted, PendingWasSent, Sending
<1>3. OnePending'
  BY <1>0 DEF InviteInv, OnePending, Creating
<1> QED BY <1>1, <1>2, <1>3 DEF InviteInv

(* A request mints a link and mails it, in its transaction.                *)
LEMMA RequestMints ==
    ASSUME InviteInv, NEW x \in InviteCalls, NEW c \in InviteCall,
           inviteCall' = [inviteCall EXCEPT ![x] = c], UNCHANGED <<invitation, crossed>>,
           minted < MostLinks, minted' = minted + 1, sent' = sent \cup {minted + 1},
           c.link = minted + 1,
           \/ c.step = "created" /\ inviteCall[x].step = "creating"
              /\ c.revokes = inviteCall[x].revokes
           \/ c.step = "resent"
    PROVE  InviteInv'
<1>0. /\ inviteCall \in [InviteCalls -> InviteCall]
      /\ inviteCall'[x] = c /\ \A y \in InviteCalls \ {x} : inviteCall'[y] = inviteCall[y]
      /\ inviteCall' \in [InviteCalls -> InviteCall]
      /\ minted \in 0 .. MostLinks /\ sent \in SUBSET Links /\ MostLinks \in Nat
      /\ PendingRows' = PendingRows
      /\ \A i \in InvitationRows : invitation[i].link \in Links \cup {0}
      /\ \A y \in InviteCalls : inviteCall[y].link \in Links \cup {0}
  BY InviteTypes DEF InviteInv, PendingRows, IsPending, Invitation, InviteCall
<1>1. InvitationLinksTypeOK'
  BY <1>0 DEF InviteInv, InvitationLinksTypeOK, InviteCall, Links
<1>2. /\ \A i \in InvitationRows : invitation[i].link # minted + 1
      /\ \A y \in InviteCalls : inviteCall[y].link # minted + 1
  BY <1>0 DEF InviteInv, LinksMinted, Links
<1>3. LinksApart'
  BY <1>0, <1>2 DEF InviteInv, LinksApart, Sending
<1>4. LinksMinted'
  BY <1>0 DEF InviteInv, LinksMinted, Links
<1>5. PendingWasSent'
  BY <1>0 DEF InviteInv, PendingWasSent
<1>6. OnePending'
  BY <1>0 DEF InviteInv, OnePending, Creating
<1> QED BY <1>1, <1>3, <1>4, <1>5, <1>6 DEF InviteInv

(* A commit: a row takes the link of the request, others may be revoked,   *)
(* and the request is over.                                                *)
LEMMA RequestCommits ==
    ASSUME InviteInv, NEW x \in InviteCalls, NEW i \in InvitationRows, Sending(x),
           inviteCall' = [inviteCall EXCEPT ![x] = NoInviteCall],
           UNCHANGED <<minted, sent, crossed>>,
           invitation' \in [InvitationRows -> Invitation],
           invitation'[i].link = inviteCall[x].link,
           \A j \in InvitationRows \ {i} : invitation'[j].link = invitation[j].link,
           \/ PendingRows' \subseteq PendingRows
           \/ /\ Creating(x)
              /\ PendingRows' = {i} \cup (PendingRows \ inviteCall[x].revokes)
    PROVE  InviteInv'
<1>0. /\ inviteCall \in [InviteCalls -> InviteCall]
      /\ inviteCall'[x] = NoInviteCall
      /\ \A y \in InviteCalls \ {x} : inviteCall'[y] = inviteCall[y]
      /\ inviteCall' \in [InviteCalls -> InviteCall]
      /\ NoInviteCall.step = "idle" /\ NoInviteCall.link = 0 /\ minted \in Nat
      /\ PendingRows \in SUBSET InvitationRows
  BY InviteTypes DEF InviteInv
<1>1. InvitationLinksTypeOK'
  BY <1>0 DEF InviteInv, InvitationLinksTypeOK, Invitation, InviteCall
<1>2. LinksApart'
  BY <1>0 DEF InviteInv, LinksApart, Sending
<1>3. LinksMinted'
  BY <1>0 DEF InviteInv, LinksMinted
<1>4. PendingWasSent'
  BY <1>0 DEF InviteInv, LinksApart, PendingWasSent
<1>5. OnePending'
  BY <1>0 DEF InviteInv, OnePending, Creating
<1> QED BY <1>1, <1>2, <1>3, <1>4, <1>5 DEF InviteInv

(* Rows that change their status or expire, but not their link, and none   *)
(* that becomes pending.                                                   *)
LEMMA RowsFlip ==
    ASSUME InviteInv, UNCHANGED <<minted, sent, crossed>>,
           invitation' \in [InvitationRows -> Invitation],
           \A j \in InvitationRows : invitation'[j].link = invitation[j].link,
           PendingRows' \subseteq PendingRows,
           \/ inviteCall' = inviteCall
           \/ \E x \in InviteCalls : inviteCall' = [inviteCall EXCEPT ![x] = NoInviteCall]
    PROVE  InviteInv'
<1>0. /\ inviteCall' \in [InviteCalls -> InviteCall]
      /\ \A y \in InviteCalls : inviteCall'[y] \in {inviteCall[y], NoInviteCall}
      /\ NoInviteCall.step = "idle" /\ NoInviteCall.link = 0 /\ minted \in Nat
      /\ PendingRows \in SUBSET InvitationRows
  BY InviteTypes DEF InviteInv
<1>1. InvitationLinksTypeOK'
  BY <1>0 DEF InviteInv, InvitationLinksTypeOK, Invitation, InviteCall
<1>2. LinksApart'
  BY <1>0 DEF InviteInv, LinksApart, Sending
<1>3. LinksMinted'
  BY <1>0 DEF InviteInv, LinksMinted
<1>4. PendingWasSent'
  BY <1>0 DEF InviteInv, PendingWasSent
<1>5. OnePending'
  BY <1>0 DEF InviteInv, OnePending, Creating
<1> QED BY <1>1, <1>2, <1>3, <1>4, <1>5 DEF InviteInv

LEMMA InviteInvNext == InviteInv /\ [InvitationLinksNext]_inviteVars => InviteInv'
<1> SUFFICES ASSUME InviteInv, [InvitationLinksNext]_inviteVars PROVE InviteInv'
  OBVIOUS
<1>0. /\ invitation \in [InvitationRows -> Invitation]
      /\ inviteCall \in [InviteCalls -> InviteCall]
      /\ NoInviteCall \in InviteCall /\ crossed \in BOOLEAN
      /\ PendingRows \in SUBSET InvitationRows
      /\ \A x \in InviteCalls : inviteCall[x] \in InviteCall /\ inviteCall[x].i \in InvitationRows
      /\ minted \in 0 .. MostLinks /\ MostLinks \in Nat
  BY InviteTypes DEF InviteInv, InviteCall
<1>1. ASSUME NEW x \in InviteCalls, CreateRevokes(x) PROVE InviteInv'
  <2> DEFINE c == [NoInviteCall EXCEPT !.step = "creating", !.revokes = PendingRows]
  <2>1. c \in InviteCall /\ c.step = "creating" /\ c.link = 0 /\ c.revokes = PendingRows
    BY <1>0 DEF InviteCall, NoInviteCall, InviteSteps
  <2>2. /\ inviteCall' = [inviteCall EXCEPT ![x] = c]
        /\ crossed' = (crossed \/ \E y \in InviteCalls : Creating(y))
        /\ UNCHANGED <<invitation, minted, sent>>
    BY <1>1 DEF CreateRevokes, Creating
  <2> HIDE DEF c
  <2> QED BY <1>0, <2>1, <2>2, RequestMoves
<1>2. ASSUME NEW x \in InviteCalls, CreateSends(x) PROVE InviteInv'
  <2> DEFINE i == CHOOSE k \in FreshRows : TRUE
             c == [inviteCall[x] EXCEPT !.step = "created", !.link = minted + 1, !.i = i]
  <2>1. i \in InvitationRows
    BY <1>2 DEF CreateSends, FreshRows
  <2> HIDE DEF i
  <2>2. /\ c \in InviteCall /\ c.step = "created" /\ c.link = minted + 1
        /\ c.revokes = inviteCall[x].revokes
    <3>1. minted + 1 \in Links \cup {0}
      BY <1>0, <1>2 DEF CreateSends, Links
    <3> QED BY <1>0, <2>1, <3>1 DEF InviteCall, InviteSteps
  <2>3. inviteCall' = [inviteCall EXCEPT ![x] = c]
    BY <1>0, <1>2 DEF CreateSends, i, InviteCall
  <2> HIDE DEF c
  <2> QED BY <1>2, <2>2, <2>3, RequestMints DEF CreateSends
<1>3. ASSUME NEW x \in InviteCalls, CreateCommits(x) PROVE InviteInv'
  <2> DEFINE i == inviteCall[x].i
  <2>0. /\ i \in InvitationRows /\ Sending(x) /\ Creating(x)
        /\ inviteCall[x].link \in Links \cup {0}
        /\ inviteCall[x].revokes \subseteq InvitationRows
    BY <1>0, <1>3 DEF CreateCommits, Sending, Creating, InviteCall
  <2> DEFINE new == [status |-> "pending", link |-> inviteCall[x].link, expired |-> FALSE]
  <2>1. new \in Invitation /\ new.status = "pending" /\ new.link = inviteCall[x].link
    BY <2>0 DEF Invitation
  <2>2. \A j \in InvitationRows :
           LET gone == [invitation[j] EXCEPT !.status = "revoked"] IN
           gone \in Invitation /\ gone.status = "revoked" /\ gone.link = invitation[j].link
    BY <1>0 DEF Invitation
  <2>3. invitation' = [j \in InvitationRows |->
                         IF j = i THEN new
                         ELSE IF j \in inviteCall[x].revokes
                              THEN [invitation[j] EXCEPT !.status = "revoked"]
                         ELSE invitation[j]]
    BY <1>3 DEF CreateCommits
  <2> HIDE DEF new
  <2>4. /\ invitation' \in [InvitationRows -> Invitation]
        /\ invitation'[i].link = inviteCall[x].link
        /\ \A j \in InvitationRows \ {i} : invitation'[j].link = invitation[j].link
    BY <1>0, <2>0, <2>1, <2>2, <2>3
  <2>5. PendingRows' = {i} \cup (PendingRows \ inviteCall[x].revokes)
    BY <1>0, <2>0, <2>1, <2>2, <2>3 DEF PendingRows, IsPending
  <2> QED BY <1>3, <2>0, <2>4, <2>5, RequestCommits DEF CreateCommits
<1>4. ASSUME NEW x \in InviteCalls, NEW i \in InvitationRows, ResendFinds(x, i) PROVE InviteInv'
  <2> DEFINE c == [NoInviteCall EXCEPT !.step = "resending", !.i = i]
  <2>1. c \in InviteCall /\ c.step = "resending" /\ c.link = 0
    BY <1>0 DEF InviteCall, NoInviteCall, InviteSteps
  <2>2. inviteCall' = [inviteCall EXCEPT ![x] = c] /\ UNCHANGED <<invitation, minted, sent, crossed>>
    BY <1>4 DEF ResendFinds
  <2> HIDE DEF c
  <2> QED BY <1>0, <2>1, <2>2, RequestMoves
<1>5. ASSUME NEW x \in InviteCalls, ResendSends(x) PROVE InviteInv'
  <2> DEFINE c == [inviteCall[x] EXCEPT !.step = "resent", !.link = minted + 1]
  <2>1. c \in InviteCall /\ c.step = "resent" /\ c.link = minted + 1
    <3>1. minted + 1 \in Links \cup {0}
      BY <1>0, <1>5 DEF ResendSends, Links
    <3> QED BY <1>0, <3>1 DEF InviteCall, InviteSteps
  <2>2. inviteCall' = [inviteCall EXCEPT ![x] = c]
    BY <1>0, <1>5 DEF ResendSends, InviteCall
  <2> HIDE DEF c
  <2> QED BY <1>5, <2>1, <2>2, RequestMints DEF ResendSends
<1>6. ASSUME NEW x \in InviteCalls, ResendCommits(x) PROVE InviteInv'
  <2> DEFINE i == inviteCall[x].i
             new == [invitation[i] EXCEPT !.link = inviteCall[x].link, !.expired = FALSE]
  <2>0. i \in InvitationRows /\ Sending(x) /\ inviteCall[x].link \in Links \cup {0}
    BY <1>0, <1>6 DEF ResendCommits, Sending, InviteCall
  <2>1. /\ new \in Invitation /\ new.status = invitation[i].status
        /\ new.link = inviteCall[x].link
    <3>1. invitation[i] \in Invitation
      BY <1>0, <2>0
    <3> QED BY <2>0, <3>1 DEF Invitation
  <2>2. invitation' = [invitation EXCEPT ![i] = new]
    BY <1>6 DEF ResendCommits, Relinked
  <2> HIDE DEF new
  <2>3. /\ invitation' \in [InvitationRows -> Invitation]
        /\ invitation'[i].link = inviteCall[x].link
        /\ \A j \in InvitationRows \ {i} : invitation'[j].link = invitation[j].link
        /\ PendingRows' \subseteq PendingRows
    BY <1>0, <2>0, <2>1, <2>2 DEF PendingRows, IsPending
  <2> QED BY <1>6, <2>0, <2>3, RequestCommits DEF ResendCommits
<1>7. ASSUME NEW x \in InviteCalls, NEW link \in Links, AcceptFinds(x, link) PROVE InviteInv'
  <2>1. PICK i \in InvitationRows :
          inviteCall' = [inviteCall EXCEPT ![x] =
                           [NoInviteCall EXCEPT !.step = "accepting", !.i = i]]
    BY <1>7 DEF AcceptFinds
  <2> DEFINE c == [NoInviteCall EXCEPT !.step = "accepting", !.i = i]
  <2>2. c \in InviteCall /\ c.step = "accepting" /\ c.link = 0
    BY <1>0 DEF InviteCall, NoInviteCall, InviteSteps
  <2>3. inviteCall' = [inviteCall EXCEPT ![x] = c] /\ UNCHANGED <<invitation, minted, sent, crossed>>
    BY <1>7, <2>1 DEF AcceptFinds
  <2> HIDE DEF c
  <2> QED BY <1>0, <2>2, <2>3, RequestMoves
(* A row that keeps its link and does not become pending.                  *)
<1>8. ASSUME NEW i \in InvitationRows, NEW new \in Invitation, new.link = invitation[i].link,
             new.status = "pending" => IsPending(i),
             invitation' = [invitation EXCEPT ![i] = new]
      PROVE  /\ invitation' \in [InvitationRows -> Invitation]
             /\ \A j \in InvitationRows : invitation'[j].link = invitation[j].link
             /\ PendingRows' \subseteq PendingRows
  BY <1>0, <1>8 DEF PendingRows, IsPending
<1>9. ASSUME NEW i \in InvitationRows
      PROVE  \A status \in {"accepted", "revoked"} :
               LET new == [invitation[i] EXCEPT !.status = status]
               IN  /\ new \in Invitation /\ new.link = invitation[i].link
                   /\ new.status = status
  BY <1>0 DEF Invitation
<1>10. ASSUME NEW x \in InviteCalls, AcceptCommits(x) PROVE InviteInv'
  <2> DEFINE i == inviteCall[x].i
             new == [invitation[i] EXCEPT !.status = "accepted"]
  <2>1. i \in InvitationRows
    BY <1>0
  <2>2. new \in Invitation /\ new.link = invitation[i].link /\ new.status = "accepted"
    BY <1>9, <2>1
  <2>3. invitation' = [invitation EXCEPT ![i] = new]
    BY <1>10 DEF AcceptCommits
  <2> HIDE DEF new
  <2> QED BY <1>8, <1>10, <2>1, <2>2, <2>3, RowsFlip DEF AcceptCommits
<1>11. ASSUME NEW i \in InvitationRows, RevokeLink(i) PROVE InviteInv'
  <2> DEFINE new == [invitation[i] EXCEPT !.status = "revoked"]
  <2>1. new \in Invitation /\ new.link = invitation[i].link /\ new.status = "revoked"
    BY <1>9
  <2>2. invitation' = [invitation EXCEPT ![i] = new]
    BY <1>11 DEF RevokeLink
  <2> HIDE DEF new
  <2> QED BY <1>8, <1>11, <2>1, <2>2, RowsFlip DEF RevokeLink
<1>12. ASSUME NEW i \in InvitationRows, LinkExpires(i) PROVE InviteInv'
  <2> DEFINE new == [invitation[i] EXCEPT !.expired = TRUE]
  <2>1. new \in Invitation /\ new.link = invitation[i].link /\ IsPending(i)
    BY <1>0, <1>12 DEF Invitation, LinkExpires
  <2>2. invitation' = [invitation EXCEPT ![i] = new]
    BY <1>12 DEF LinkExpires
  <2> HIDE DEF new
  <2> QED BY <1>8, <1>12, <2>1, <2>2, RowsFlip DEF LinkExpires
<1>13. ASSUME NEW x \in InviteCalls, InviteRollsBack(x) PROVE InviteInv'
  <2>1. PendingRows' = PendingRows
    BY <1>13 DEF InviteRollsBack, PendingRows, IsPending
  <2> QED BY <1>0, <1>13, <2>1, RowsFlip DEF InviteRollsBack
<1>14. CASE UNCHANGED inviteVars
  <2>1. PendingRows' = PendingRows
    BY <1>14 DEF inviteVars, PendingRows, IsPending
  <2> QED BY <1>0, <1>14, <2>1, RowsFlip DEF inviteVars
<1> QED
  BY <1>1, <1>2, <1>3, <1>4, <1>5, <1>6, <1>7, <1>10, <1>11, <1>12, <1>13, <1>14
     DEF InvitationLinksNext

(* PendingIsReachable: whatever creates, resends, acceptances, revocations *)
(* and rollbacks do to each other, the link of a pending invitation has    *)
(* been mailed and is its own; and only creates that overlap leave more    *)
(* than one pending.                                                       *)
THEOREM LinksReachable == InvitationLinksSpec => []PendingIsReachable
<1>1. InviteInv => PendingIsReachable
  <2> SUFFICES ASSUME InviteInv PROVE PendingIsReachable
    OBVIOUS
  <2>1. PendingRows \in SUBSET InvitationRows
    BY InviteTypes DEF InviteInv
  <2>2. \A i \in PendingRows :
          /\ invitation[i].link \in sent
          /\ \A j \in InvitationRows \ {i} : invitation[j].link # invitation[i].link
    BY <2>1 DEF InviteInv, PendingWasSent, LinksApart
  <2>3. ASSUME ~crossed PROVE Cardinality(PendingRows) <= 1
    <3>1. CASE PendingRows = {}
      BY <3>1, FS_EmptySet
    <3>2. ASSUME NEW i \in PendingRows PROVE Cardinality(PendingRows) <= 1
      <4>1. PendingRows = {i}
        BY <2>3, <3>2 DEF InviteInv, OnePending
      <4> QED BY <4>1, FS_Singleton
    <3> QED BY <3>1, <3>2
  <2> QED BY <2>2, <2>3 DEF PendingIsReachable
<1> QED BY <1>1, InviteInvInit, InviteInvNext, PTL DEF InvitationLinksSpec

-----------------------------------------------------------------------------
(* TenantRows.  The argument is about the settings alone: what a           *)
(* connection keeps between transactions is null or empty, and what it has *)
(* within one comes from the request it serves.                            *)

Nothing == {Null, Empty}

(* The inductive invariant: NoRowOfOthers says nothing of a free           *)
(* connection, whose settings are those of the next request.               *)
SettingsOf(c) ==
    /\ settings[c].tenant \in Nothing /\ settings[c].user \in Nothing
    /\ inTx[c].tenant \in Nothing \cup {serves[c].tenant}
    /\ inTx[c].user \in Nothing \cup {serves[c].user}
    /\ serves[c] = Free => inTx[c] = settings[c]
PolicyInv == TenantRowsTypeOK /\ \A c \in Conns : SettingsOf(c)

-----------------------------------------------------------------------------
(* A context never names the empty tenant, and Free names nobody.          *)
LEMMA ContextShape ==
    ASSUME NEW ctx \in Contexts \cup {Free}
    PROVE  /\ ctx.tenant \in Tenants \cup {Null}
           /\ ctx.user \in Members \cup {Null, Empty}
           /\ ctx.kind = "tenant" => ctx.tenant \in Tenants
           /\ ctx.kind = "user" => ctx.tenant = Null /\ ctx.user \in Members
           /\ ctx.kind \in {"plain", "free"} => ctx.tenant = Null /\ ctx.user = Null
           /\ ctx.kind \in {"tenant", "user", "plain", "free"}
           /\ ctx # Free => ctx \in Contexts
BY DEF Contexts, Free

LEMMA PolicyInvInit == TenantRowsInit => PolicyInv
BY DEF TenantRowsInit, PolicyInv, TenantRowsTypeOK, SettingsOf, Settings, Unset, Free,
       Nothing

(* Each step keeps the invariant of the connection it works on.            *)
LEMMA PolicyInvStep == PolicyInv /\ [TenantRowsNext]_rowVars => PolicyInv'
<1> SUFFICES ASSUME PolicyInv, [TenantRowsNext]_rowVars PROVE PolicyInv'
    OBVIOUS
<1> USE DEF PolicyInv, TenantRowsTypeOK
<1>1. ASSUME NEW c \in Conns, NEW ctx \in Contexts, RowsBegin(c, ctx) PROVE PolicyInv'
  <2>1. ctx # Free
        BY DEF Contexts, Free
  <2> QED
        BY <1>1, <2>1 DEF RowsBegin, SettingsOf, Free, Nothing
<1>2. ASSUME NEW c \in Conns, SetConfig(c) PROVE PolicyInv'
  <2>1. ContextOf(c) \in Settings
        BY <1>2, ContextShape DEF SetConfig, ContextOf, Settings
  <2>2. ContextOf(c).user = serves[c].user
        BY <1>2 DEF SetConfig, ContextOf, Settings
  <2>3. ContextOf(c).tenant \in Nothing \cup {serves[c].tenant}
        BY <1>2 DEF SetConfig, ContextOf, Settings, SettingsOf
  <2>4. serves[c] # Free
        BY <1>2 DEF SetConfig, Free
  <2> QED
        BY <1>2, <2>1, <2>2, <2>3, <2>4 DEF SetConfig, SettingsOf
<1>3. ASSUME NEW c \in Conns, RowsEnd(c) PROVE PolicyInv'
  <2>1. /\ Reverted(c) \in Settings
        /\ Reverted(c).tenant \in Nothing /\ Reverted(c).user \in Nothing
        BY DEF Reverted, Settings, SettingsOf, Nothing
  <2> QED
        BY <1>3, <2>1 DEF RowsEnd, SettingsOf
<1>4. ASSUME NEW c \in Conns, Reconnect(c) PROVE PolicyInv'
        BY <1>4 DEF Reconnect, SettingsOf, Settings, Unset, Nothing
<1>5. CASE UNCHANGED rowVars
        BY <1>5 DEF rowVars, SettingsOf
<1> QED
        BY <1>1, <1>2, <1>3, <1>4, <1>5 DEF TenantRowsNext

LEMMA PolicyInvHolds == TenantRowsSpec => []PolicyInv
BY PolicyInvInit, PolicyInvStep, PTL DEF TenantRowsSpec

-----------------------------------------------------------------------------
(* NoRowOfOthers: a pooled connection carries nothing of one tenant or     *)
(* user over into the statements of another request.                       *)
THEOREM RequestsAreApart == TenantRowsSpec => []NoRowOfOthers
<1>1. PolicyInv => NoRowOfOthers
  <2> SUFFICES ASSUME PolicyInv, NEW c \in Conns, NEW r \in Row,
                      Finds(c, r) \/ MayStore(c, r)
               PROVE  MaySee(serves[c], r)
        BY DEF NoRowOfOthers
  <2>1. OfTenant(c, r) => r.tenant = serves[c].tenant
        BY DEF OfTenant, CurrentTenant, NullIf, PolicyInv, SettingsOf, Nothing
  <2>2. OfUser(c, r) => r.user # Null /\ r.user = serves[c].user
        BY DEF OfUser, CurrentUser, NullIf, PolicyInv, SettingsOf, Nothing
  <2> QED
        BY <2>1, <2>2 DEF Finds, MayStore, MaySee
<1> QED
        BY <1>1, PolicyInvHolds, PTL

(* PoliciesHideNothing: whatever the constants, a role that the policies   *)
(* bind finds and stores all that the services ask it to in a context.     *)
THEOREM BackstopIsTransparent == TenantRowsSpec => []PoliciesHideNothing
<1>1. PolicyInv => PoliciesHideNothing
  <2> SUFFICES ASSUME PolicyInv, NEW c \in Conns, NEW r \in Row, HasContext(c)
               PROVE  /\ Asks(serves[c], r) => Finds(c, r)
                      /\ Stores(serves[c], r) => MayStore(c, r)
        BY DEF PoliciesHideNothing
  <2>1. CASE serves[c].kind = "tenant"
    <3>1. CurrentTenant(c) = serves[c].tenant /\ CurrentTenant(c) # Null
          BY <2>1, ContextShape, TenantRowsAssumption
          DEF HasContext, CurrentTenant, NullIf, PolicyInv, TenantRowsTypeOK
    <3> QED
          BY <2>1, <3>1 DEF Asks, Stores, Finds, MayStore, OfTenant
  <2>2. CASE serves[c].kind = "user"
    <3>1. CurrentUser(c) = serves[c].user /\ CurrentUser(c) # Null
          BY <2>2, ContextShape, TenantRowsAssumption
          DEF HasContext, CurrentUser, NullIf, PolicyInv, TenantRowsTypeOK
    <3> QED
          BY <2>2, <3>1 DEF Asks, Stores, Finds, OfUser
  <2> QED
        BY <2>1, <2>2 DEF HasContext
<1> QED
        BY <1>1, PolicyInvHolds, PTL

-----------------------------------------------------------------------------
(* Files.  What a request has seen of the object, or done to it, stays     *)
(* true until it writes the row: an object goes only by a removal, and is  *)
(* written again only where one was.                                       *)

FileRow == [status : FileStatus, removed : BOOLEAN]
FileRequest == [step : FileSteps, f : FileIds]

Uploaded(f) == f \in object \cup erased
Removed(f) == f \in erased \cup spared /\ (f \in object => f \in spared)

FilesInv ==
    /\ FilesTypeOK
    /\ OfferedWasUploaded
    /\ \A f \in FileIds : fileRow[f].removed => Removed(f)
    /\ \A c \in FileCalls :
          /\ fileCall[c].step # "idle" => fileRow[fileCall[c].f].status # "none"
          /\ fileCall[c].step = "activate" => Uploaded(fileCall[c].f)
          /\ fileCall[c].step = "flag" => Removed(fileCall[c].f)

LEMMA FileTypes ==
    ASSUME FilesTypeOK
    PROVE  /\ fileRow \in [FileIds -> FileRow] /\ fileCall \in [FileCalls -> FileRequest]
           /\ object \in SUBSET FileIds /\ uploadUrl \in SUBSET FileIds
           /\ erased \in SUBSET FileIds /\ spared \in SUBSET FileIds
           /\ Idle \in FileRequest /\ Idle.step = "idle"
BY FilesAssumption DEF FilesTypeOK, FileRow, FileRequest, Idle, FileSteps

LEMMA FilesInvInit == FilesInit => FilesInv
<1> SUFFICES ASSUME FilesInit PROVE FilesInv
  OBVIOUS
<1>1. Idle \in FileRequest /\ Idle.step = "idle"
  BY FilesAssumption DEF Idle, FileRequest, FileSteps
<1>2. \A f \in FileIds : fileRow[f].status = "none" /\ fileRow[f].removed = FALSE
  BY DEF FilesInit
<1>3. \A c \in FileCalls : fileCall[c] = Idle
  BY DEF FilesInit
<1>4. fileRow \in [FileIds -> FileRow]
  BY DEF FilesInit, FileRow, FileStatus
<1>5. fileCall \in [FileCalls -> FileRequest]
  BY <1>1 DEF FilesInit
<1>6. FilesTypeOK
  BY <1>4, <1>5 DEF FilesInit, FilesTypeOK, FileRow, FileRequest
<1> QED
  BY <1>1, <1>2, <1>3, <1>6 DEF FilesInv, OfferedWasUploaded, Offered

(* A request that goes on or ends, and changes no row and no object.       *)
LEMMA FileRequestMoves ==
    ASSUME FilesInv, NEW c \in FileCalls, NEW r \in FileRequest,
           fileCall' = [fileCall EXCEPT ![c] = r],
           UNCHANGED <<fileRow, object, uploadUrl, erased, spared>>,
           r.step # "idle" => fileRow[r.f].status # "none",
           r.step = "activate" => Uploaded(r.f),
           r.step # "flag"
    PROVE  FilesInv'
BY FileTypes
   DEF FilesInv, FilesTypeOK, OfferedWasUploaded, Offered, Uploaded, Removed, FileRequest

LEMMA FilesInvNext == FilesInv /\ [FilesNext]_fileVars => FilesInv'
<1> SUFFICES ASSUME FilesInv, [FilesNext]_fileVars PROVE FilesInv'
  OBVIOUS
<1>0. /\ fileRow \in [FileIds -> FileRow] /\ fileCall \in [FileCalls -> FileRequest]
      /\ object \in SUBSET FileIds /\ uploadUrl \in SUBSET FileIds
      /\ erased \in SUBSET FileIds /\ spared \in SUBSET FileIds
      /\ Idle \in FileRequest /\ Idle.step = "idle"
      /\ \A c \in FileCalls : fileCall[c].f \in FileIds /\ fileCall[c].step \in FileSteps
  BY FileTypes DEF FilesInv, FileRequest
<1>1. ASSUME NEW f \in FileIds, CreateUploadUrl(f) PROVE FilesInv'
  <2> DEFINE r == [fileRow[f] EXCEPT !.status = "pending"]
  <2>1. r \in FileRow /\ r.status = "pending" /\ r.removed = fileRow[f].removed
    BY <1>0 DEF FileRow, FileStatus
  <2>2. fileRow' = [fileRow EXCEPT ![f] = r]
    BY <1>1 DEF CreateUploadUrl, Pending
  <2> HIDE DEF r
  <2>3. /\ fileRow' \in [FileIds -> FileRow]
        /\ \A g \in FileIds : /\ fileRow'[g].removed = fileRow[g].removed
                            /\ fileRow'[g].status = IF g = f THEN "pending" ELSE fileRow[g].status
    BY <1>0, <2>1, <2>2
  <2> QED
    BY <1>0, <1>1, <2>3
       DEF CreateUploadUrl, FilesInv, FilesTypeOK, OfferedWasUploaded, Offered, Uploaded,
           Removed, FileRow
<1>2. ASSUME NEW f \in FileIds, PutObject(f) \/ UrlExpires(f) PROVE FilesInv'
  BY <1>0, <1>2
     DEF PutObject, UrlExpires, FilesInv, FilesTypeOK, OfferedWasUploaded, Offered, Uploaded,
         Removed
<1>3. ASSUME NEW c \in FileCalls, NEW f \in FileIds, NEW step \in {"head", "erase"},
             FileFind(c, f, step)
      PROVE  FilesInv'
  <2>1. [step |-> step, f |-> f] \in FileRequest
    BY DEF FileRequest, FileSteps
  <2> QED BY <1>3, <2>1, FileRequestMoves DEF FileFind
<1>4. ASSUME NEW c \in FileCalls, CompleteHead(c) PROVE FilesInv'
  <2> DEFINE r == [fileCall[c] EXCEPT !.step = "activate"]
  <2>1. /\ r \in FileRequest /\ r.step = "activate" /\ r.f = fileCall[c].f
        /\ fileRow[r.f].status # "none"
    BY <1>0, <1>4 DEF FileRequest, FileSteps, CompleteHead, FilesInv
  <2>2. \/ fileCall' = [fileCall EXCEPT ![c] = r] /\ r.f \in object
        \/ fileCall' = [fileCall EXCEPT ![c] = Idle]
    BY <1>4, <2>1 DEF CompleteHead, SeenBy
  <2> HIDE DEF r
  <2> QED BY <1>0, <1>4, <2>1, <2>2, FileRequestMoves DEF CompleteHead, Uploaded
<1>5. ASSUME NEW c \in FileCalls, CompleteUpdate(c) PROVE FilesInv'
  <2> DEFINE f == fileCall[c].f
             r == [fileRow[f] EXCEPT !.status = "available"]
  <2>1. f \in FileIds /\ Uploaded(f) /\ fileRow[f] \in FileRow
    BY <1>0, <1>5 DEF CompleteUpdate, FilesInv
  <2>2. r \in FileRow /\ r.status = "available" /\ r.removed = fileRow[f].removed
    BY <2>1 DEF FileRow, FileStatus
  <2>3. fileRow' = [fileRow EXCEPT ![f] = r]
    BY <1>5 DEF CompleteUpdate
  <2> HIDE DEF r
  <2>4. /\ fileRow' \in [FileIds -> FileRow]
        /\ \A g \in FileIds : /\ fileRow'[g].removed = fileRow[g].removed
                            /\ fileRow'[g].status = IF g = f THEN "available" ELSE fileRow[g].status
    BY <1>0, <2>1, <2>2, <2>3
  <2> QED
    BY <1>0, <1>5, <2>1, <2>4
       DEF CompleteUpdate, FilesInv, FilesTypeOK, OfferedWasUploaded, Offered, Uploaded,
           Removed, FileRow, FileRequest
<1>6. ASSUME NEW c \in FileCalls, RemoveObject(c) PROVE FilesInv'
  <2> DEFINE r == [fileCall[c] EXCEPT !.step = "flag"]
  <2>1. /\ r \in FileRequest /\ r.step = "flag" /\ r.f = fileCall[c].f
        /\ fileRow[r.f].status # "none" /\ r.f \in FileIds
    BY <1>0, <1>6 DEF FileRequest, FileSteps, RemoveObject, FilesInv
  <2>2. /\ fileCall' = [fileCall EXCEPT ![c] = r] /\ UNCHANGED <<fileRow, uploadUrl>>
        /\ \/ /\ object' = object \ {r.f} /\ erased' = erased \cup {r.f}
              /\ spared' = spared \ {r.f}
           \/ object' = object /\ spared' = spared \cup {r.f} /\ UNCHANGED erased
    BY <1>6, <2>1 DEF RemoveObject, Without
  <2> HIDE DEF r
  <2> QED
    BY <1>0, <2>1, <2>2
       DEF FilesInv, FilesTypeOK, OfferedWasUploaded, Offered, Uploaded, Removed, FileRequest
<1>7. ASSUME NEW c \in FileCalls, RemoveUpdate(c) PROVE FilesInv'
  <2> DEFINE f == fileCall[c].f
             r == [status |-> "deleted", removed |-> TRUE]
  <2>1. f \in FileIds /\ Removed(f) /\ r \in FileRow
    BY <1>0, <1>7 DEF RemoveUpdate, FilesInv, FileRow, FileStatus
  <2>2. fileRow' = [fileRow EXCEPT ![f] = r]
    BY <1>7 DEF RemoveUpdate
  <2>3. /\ fileRow' \in [FileIds -> FileRow]
        /\ \A g \in FileIds \ {f} : fileRow'[g] = fileRow[g]
        /\ fileRow'[f].status = "deleted"
    BY <1>0, <2>1, <2>2
  <2> HIDE DEF r
  <2> QED
    BY <1>0, <1>7, <2>1, <2>3
       DEF RemoveUpdate, FilesInv, FilesTypeOK, OfferedWasUploaded, Offered, Uploaded,
           Removed, FileRow, FileRequest
<1>8. ASSUME NEW c \in FileCalls, FileCallDies(c) PROVE FilesInv'
  BY <1>0, <1>8, FileRequestMoves DEF FileCallDies
<1>9. CASE UNCHANGED fileVars
  BY <1>9 DEF fileVars, FilesInv, FilesTypeOK, OfferedWasUploaded, Offered, Uploaded, Removed
<1> QED
  BY <1>1, <1>2, <1>3, <1>4, <1>5, <1>6, <1>7, <1>8, <1>9 DEF FilesNext

(* OfferedWasUploaded: a file that is offered has its object, or a removal *)
(* has deleted it since, for any number of requests for it at once.        *)
THEOREM OffersHold == FilesSpec => []OfferedWasUploaded
<1>1. FilesInv => OfferedWasUploaded
  BY DEF FilesInv
<1> QED BY <1>1, FilesInvInit, FilesInvNext, PTL DEF FilesSpec

(* NoOrphanWithoutCause: a removed file has left no object behind but one  *)
(* the store refused to delete or the browser wrote again.                 *)
THEOREM RemovalsClean == FilesSpec => []NoOrphanWithoutCause
<1>1. FilesInv => NoOrphanWithoutCause
  BY DEF FilesInv, NoOrphanWithoutCause, Removed
<1> QED BY <1>1, FilesInvInit, FilesInvNext, PTL DEF FilesSpec
-----------------------------------------------------------------------------
(* ShopToken.  A token out of the cache is good for twice the time of a    *)
(* listing by the cache's clock, which may run one listing behind          *)
(* Shopify's: the grant that filled the cache took no longer than that.    *)

ListingRecord == [step : {"idle", "grant", "page"}, since : 0 .. ShopClock, expires : Nat]

TokenInv ==
    /\ TokenCacheTypeOK
    /\ cache.until <= cache.real + ListingLimit
    /\ \A l \in Listings :
          /\ listing[l].step # "idle" =>
                listing[l].since <= clock /\ clock <= listing[l].since + ListingLimit
          /\ listing[l].step = "page" => listing[l].expires > listing[l].since + ListingLimit
    /\ ~refused

LEMMA TokenTypes ==
    ASSUME TokenCacheTypeOK
    PROVE  /\ clock \in 0 .. ShopClock /\ clock \in Nat
           /\ ListingLimit \in Nat /\ ShopClock \in Nat /\ TokenMargin \in Nat
           /\ cache \in [until : Nat, real : Nat] /\ cache.until \in Nat /\ cache.real \in Nat
           /\ listing \in [Listings -> ListingRecord]
           /\ NoListing \in ListingRecord /\ NoListing.step = "idle"
BY ShopTokenAssumption DEF TokenCacheTypeOK, ListingRecord, NoListing

LEMMA TokenInvInit == TokenInit => TokenInv
<1> SUFFICES ASSUME TokenInit PROVE TokenInv
  OBVIOUS
<1>1. NoListing \in ListingRecord /\ NoListing.step = "idle"
  BY ShopTokenAssumption DEF NoListing, ListingRecord
<1>2. NoToken \in [until : Nat, real : Nat] /\ NoToken.until = 0 /\ NoToken.real = 0
  BY DEF NoToken
<1>3. \A l \in Listings : listing[l] = NoListing
  BY DEF TokenInit
<1>4. listing \in [Listings -> ListingRecord]
  BY <1>1 DEF TokenInit
<1>5. TokenCacheTypeOK
  <2>1. 0 \in 0 .. ShopClock /\ FALSE \in BOOLEAN
    BY ShopTokenAssumption
  <2>2. cache \in [until : Nat, real : Nat] /\ clock = 0 /\ refused = FALSE
    BY <1>2 DEF TokenInit
  <2> QED
    BY <1>1, <1>3, <1>4, <2>1, <2>2 DEF TokenCacheTypeOK, ListingRecord
<1> QED
  BY <1>1, <1>2, <1>3, <1>5, ShopTokenAssumption DEF TokenInv, TokenInit

(* One listing moves, and holds a token that outlives it; the cache may    *)
(* have a token that its own expiry misses by one listing at most.         *)
LEMMA ListingMoves ==
    ASSUME TokenInv, NEW l \in Listings, NEW r \in ListingRecord,
           listing' = [listing EXCEPT ![l] = r],
           UNCHANGED <<clock, refused>>,
           cache' \in [until : Nat, real : Nat],
           cache'.until <= cache'.real + ListingLimit,
           r.step # "idle" => r.since <= clock /\ clock <= r.since + ListingLimit,
           r.step = "page" => r.expires > r.since + ListingLimit
    PROVE  TokenInv'
<1>1. /\ listing' \in [Listings -> ListingRecord]
      /\ \A k \in Listings : listing'[k] = IF k = l THEN r ELSE listing[k]
  BY TokenTypes DEF TokenInv
<1> QED
  BY <1>1 DEF TokenInv, TokenCacheTypeOK, ListingRecord

LEMMA TokenInvNext == TokenInv /\ [TokenNext]_tokenVars => TokenInv'
<1> SUFFICES ASSUME TokenInv, [TokenNext]_tokenVars PROVE TokenInv'
  OBVIOUS
<1>0. /\ clock \in 0 .. ShopClock /\ clock \in Nat
      /\ ListingLimit \in Nat /\ ShopClock \in Nat /\ TokenMargin \in Nat
      /\ cache \in [until : Nat, real : Nat] /\ cache.until \in Nat /\ cache.real \in Nat
      /\ listing \in [Listings -> ListingRecord]
      /\ NoListing \in ListingRecord /\ NoListing.step = "idle"
      /\ cache.until <= cache.real + ListingLimit
  BY TokenTypes DEF TokenInv
<1>1. ASSUME ClockTick PROVE TokenInv'
  <2>1. /\ clock' = clock + 1 /\ clock' \in 0 .. ShopClock
        /\ UNCHANGED <<cache, refused>>
        /\ \A l \in Listings : listing'[l] = IF Overdue(l) THEN NoListing ELSE listing[l]
        /\ listing' \in [Listings -> ListingRecord]
    BY <1>0, <1>1 DEF ClockTick
  <2>2. ASSUME NEW l \in Listings, ~Overdue(l), listing[l].step # "idle"
        PROVE  listing[l].since <= clock + 1 /\ clock + 1 <= listing[l].since + ListingLimit
    BY <1>0, <2>2 DEF Overdue, TokenInv, ListingRecord
  <2>3. TokenCacheTypeOK'
    BY <1>0, <2>1, <2>2 DEF TokenInv, TokenCacheTypeOK, ListingRecord
  <2> QED BY <1>0, <2>1, <2>2, <2>3 DEF TokenInv
<1>2. ASSUME NEW l \in Listings, ListingStart(l) PROVE TokenInv'
  <2>1. CASE CacheGood
    <3> DEFINE r == [step |-> "page", since |-> clock, expires |-> cache.real]
    <3>1. r \in ListingRecord /\ r.step = "page" /\ r.since = clock /\ r.expires = cache.real
      BY <1>0 DEF ListingRecord
    <3>2. listing' = [listing EXCEPT ![l] = r]
      BY <1>2, <2>1 DEF ListingStart
    <3>3. cache.real > clock + ListingLimit
      BY <1>0, <2>1, ShopTokenAssumption DEF CacheGood
    <3>4. UNCHANGED <<clock, cache, refused>>
      BY <1>2 DEF ListingStart
    <3>5. /\ cache' \in [until : Nat, real : Nat] /\ cache'.until <= cache'.real + ListingLimit
          /\ r.since <= clock /\ clock <= r.since + ListingLimit
          /\ r.expires > r.since + ListingLimit
      BY <1>0, <3>1, <3>3, <3>4
    <3> HIDE DEF r
    <3> QED BY <3>1, <3>2, <3>4, <3>5, ListingMoves
  <2>2. CASE ~CacheGood
    <3> DEFINE r == [step |-> "grant", since |-> clock, expires |-> 0]
    <3>1. r \in ListingRecord /\ r.step = "grant" /\ r.since = clock
      BY <1>0 DEF ListingRecord
    <3>2. listing' = [listing EXCEPT ![l] = r]
      BY <1>2, <2>2 DEF ListingStart
    <3>3. UNCHANGED <<clock, cache, refused>>
      BY <1>2 DEF ListingStart
    <3>4. /\ cache' \in [until : Nat, real : Nat] /\ cache'.until <= cache'.real + ListingLimit
          /\ r.since <= clock /\ clock <= r.since + ListingLimit
      BY <1>0, <3>1, <3>3
    <3> HIDE DEF r
    <3> QED BY <3>1, <3>2, <3>3, <3>4, ListingMoves
  <2> QED BY <2>1, <2>2
<1>3. ASSUME NEW l \in Listings, TokenGranted(l) PROVE TokenInv'
  <2>1. PICK t \in Lifetimes, made \in listing[l].since .. clock :
           /\ cache' = [until |-> clock + t, real |-> made + t]
           /\ listing' = [listing EXCEPT ![l].step = "page", ![l].expires = made + t]
    BY <1>3 DEF TokenGranted
  <2>2. /\ listing[l] \in ListingRecord /\ listing[l].since \in 0 .. ShopClock
        /\ listing[l].since <= clock /\ clock <= listing[l].since + ListingLimit
    BY <1>0, <1>3 DEF TokenGranted, TokenInv, ListingRecord
  <2>3. /\ t \in Nat /\ t > ListingLimit
        /\ made \in Nat /\ listing[l].since <= made /\ made <= clock
    BY <1>0, <2>2, ShopTokenAssumption
  <2>4. /\ cache' \in [until : Nat, real : Nat]
        /\ cache'.until <= cache'.real + ListingLimit
    BY <1>0, <2>1, <2>2, <2>3
  <2> DEFINE r == [[listing[l] EXCEPT !.step = "page"] EXCEPT !.expires = made + t]
  <2>5. /\ r \in ListingRecord /\ r.step = "page" /\ r.since = listing[l].since
        /\ r.expires = made + t
    <3>1. made + t \in Nat
      BY <2>3
    <3> QED BY <2>2, <3>1 DEF ListingRecord
  <2>6. listing' = [listing EXCEPT ![l] = r]
    BY <1>0, <2>1
  <2>7. r.expires > r.since + ListingLimit
    BY <1>0, <2>2, <2>3, <2>5
  <2> HIDE DEF r
  <2> QED BY <1>3, <2>2, <2>4, <2>5, <2>6, <2>7, ListingMoves DEF TokenGranted
<1>4. ASSUME NEW l \in Listings, ListingEnds(l) PROVE TokenInv'
  BY <1>0, <1>4, ListingMoves DEF ListingEnds
<1>5. ASSUME NEW l \in Listings, LastPage(l) PROVE TokenInv'
  <2>1. listing[l] \in ListingRecord /\ listing[l].since \in Nat /\ listing[l].expires \in Nat
    BY <1>0 DEF ListingRecord
  <2>2. clock < listing[l].expires
    BY <1>0, <1>5, <2>1 DEF LastPage, TokenInv
  <2>3. refused' = refused
    <3>1. ~refused /\ refused \in BOOLEAN
      BY DEF TokenInv, TokenCacheTypeOK
    <3>2. ~(clock >= listing[l].expires)
      BY <1>0, <2>1, <2>2
    <3> QED BY <1>5, <3>1, <3>2 DEF LastPage
  <2> QED BY <1>0, <1>5, <2>3, ListingMoves DEF LastPage
<1>6. CASE UNCHANGED tokenVars
  BY <1>6 DEF tokenVars, TokenInv, TokenCacheTypeOK
<1> QED
  BY <1>1, <1>2, <1>3, <1>4, <1>5, <1>6 DEF TokenNext

(* However many listings share the cached token, none is refused a page    *)
(* for an expired one (ShopifyConnector.resolveAccessToken), as long as    *)
(* the margin before expiry is twice the time a listing may take.          *)
THEOREM TokensOutlive == ShopTokenSpec => []TokenOutlivesListing
<1>1. TokenInv => TokenOutlivesListing
  BY DEF TokenInv, TokenOutlivesListing
<1> QED
  BY <1>1, TokenInvInit, TokenInvNext, PTL DEF ShopTokenSpec

-----------------------------------------------------------------------------
(* Embeddings.  A job is alone only while no other job is active, so what  *)
(* it finds or writes in a product's row is there until it starts again.   *)

JobRecord == [read : [Products -> Texts \cup {NoText}], left : SUBSET Products,
              at : SUBSET Products, tries : 0 .. Attempts - 1, missed : SUBSET Products,
              alone : BOOLEAN]

EmbedJobOK(j) ==
    /\ \A p, q \in embed[j].at : p = q
    /\ embed[j].at \cap embed[j].left = {}
    /\ embed[j].alone => \A o \in EmbedJobs \ {j} : ~Active(o)

EmbedInv ==
    /\ text \in [Products -> Texts]
    /\ emb \in [Products -> Texts \cup {NoText}]
    /\ embed \in [EmbedJobs -> JobRecord]
    /\ \A j \in EmbedJobs : EmbedJobOK(j)
    /\ AloneJobIsExact

LEMMA NoJobIsOne ==
    NoJob \in JobRecord /\ NoJob.alone = FALSE /\ NoJob.left = {} /\ NoJob.at = {}
BY DEF NoJob, JobRecord, Attempts

LEMMA EmbedInvInit == EmbeddingsInit => EmbedInv
BY NoJobIsOne DEF EmbeddingsInit, EmbedInv, EmbedJobOK, AloneJobIsExact

(* An active job moves on: no other job is alone.                          *)
LEMMA EmbedJobMoves ==
    ASSUME EmbedInv, NEW j \in EmbedJobs, Active(j), NEW r \in JobRecord,
           embed' = [embed EXCEPT ![j] = r], UNCHANGED text,
           emb' \in [Products -> Texts \cup {NoText}],
           \A p, q \in r.at : p = q,
           r.at \cap r.left = {},
           r.alone => /\ embed[j].alone
                      /\ \A p \in Products \ (r.left \cup r.at \cup r.missed) :
                            emb'[p] = r.read[p]
    PROVE  EmbedInv'
<1>1. /\ embed' \in [EmbedJobs -> JobRecord]
      /\ \A k \in EmbedJobs : embed'[k] = IF k = j THEN r ELSE embed[k]
  BY DEF EmbedInv
<1>2. \A k \in EmbedJobs \ {j} : embed[k].alone = FALSE
  BY DEF EmbedInv, EmbedJobOK, JobRecord
<1>3. \A k \in EmbedJobs \ {j} : embed'[k] = embed[k] /\ embed'[k].alone = FALSE
  BY <1>1, <1>2
<1>4. embed'[j] = r
  BY <1>1
<1>5. \A k \in EmbedJobs : EmbedJobOK(k)'
  <2>1. ASSUME NEW k \in EmbedJobs \ {j} PROVE EmbedJobOK(k)'
    BY <1>3 DEF EmbedInv, EmbedJobOK
  <2>2. EmbedJobOK(j)'
    BY <1>3, <1>4 DEF EmbedInv, EmbedJobOK, Active
  <2> QED BY <2>1, <2>2
<1>6. AloneJobIsExact'
  BY <1>3, <1>4 DEF AloneJobIsExact
<1> QED
  BY <1>1, <1>5, <1>6 DEF EmbedInv

LEMMA EmbedInvNext == EmbedInv /\ [EmbeddingsNext]_embedVars => EmbedInv'
<1> SUFFICES ASSUME EmbedInv, [EmbeddingsNext]_embedVars PROVE EmbedInv'
  OBVIOUS
<1>0. /\ text \in [Products -> Texts] /\ emb \in [Products -> Texts \cup {NoText}]
      /\ embed \in [EmbedJobs -> JobRecord]
      /\ \A j \in EmbedJobs : embed[j] \in JobRecord /\ EmbedJobOK(j)
  BY DEF EmbedInv
<1>1. ASSUME NEW p \in Products, ProductChanges(p) PROVE EmbedInv'
  BY <1>0, <1>1 DEF ProductChanges, EmbedInv, EmbedJobOK, AloneJobIsExact, Active
<1>2. ASSUME NEW j \in EmbedJobs, EmbedRead(j) PROVE EmbedInv'
  <2> DEFINE a == \A o \in EmbedJobs : ~Active(o)
             r == [NoJob EXCEPT !.read = text, !.left = Products, !.alone = a]
             n(k) == [embed[k] EXCEPT !.alone = FALSE]
  <2>1. /\ r \in JobRecord /\ r.left = Products /\ r.at = {}
        /\ r.alone => \A o \in EmbedJobs : ~Active(o)
    <3>1. a \in BOOLEAN
      OBVIOUS
    <3> HIDE DEF a
    <3>2. /\ r \in JobRecord /\ r.left = Products /\ r.at = {} /\ r.alone = a
      BY <1>0, <3>1, NoJobIsOne DEF JobRecord
    <3> QED BY <3>2 DEF a
  <2>2. ASSUME NEW k \in EmbedJobs
        PROVE  n(k) \in JobRecord /\ n(k).alone = FALSE /\ n(k).left = embed[k].left
                 /\ n(k).at = embed[k].at
    BY <1>0 DEF JobRecord
  <2>3. embed' = [k \in EmbedJobs |-> IF k = j THEN r ELSE n(k)]
    BY <1>2 DEF EmbedRead
  <2>4. PICK s \in JobRecord : /\ s.left = Products /\ s.at = {}
                               /\ s.alone => \A o \in EmbedJobs : ~Active(o)
                               /\ embed'[j] = s
    BY <2>1, <2>3
  <2>5. \A k \in EmbedJobs \ {j} : /\ embed'[k] \in JobRecord /\ embed'[k].alone = FALSE
                                   /\ embed'[k].left = embed[k].left
                                   /\ embed'[k].at = embed[k].at
    BY <2>2, <2>3
  <2>6. embed' \in [EmbedJobs -> JobRecord]
    BY <2>1, <2>2, <2>3
  <2>7. \A k \in EmbedJobs \ {j} : EmbedJobOK(k)'
    BY <1>0, <2>5 DEF EmbedJobOK
  <2>8. EmbedJobOK(j)'
    BY <2>4, <2>5 DEF EmbedJobOK, Active
  <2>9. AloneJobIsExact'
    BY <2>4, <2>5 DEF AloneJobIsExact
  <2> QED BY <1>0, <1>2, <2>6, <2>7, <2>8, <2>9 DEF EmbedInv, EmbedRead
<1>3. ASSUME NEW j \in EmbedJobs, NEW p \in Products, EmbedLookup(j, p) PROVE EmbedInv'
  <2>1. embed[j] \in JobRecord /\ Active(j) /\ embed[j].at = {} /\ p \in embed[j].left
    BY <1>0, <1>3 DEF EmbedLookup, Active
  <2> DEFINE a == IF UpToDate(j, p) THEN {} ELSE {p}
             r == [[embed[j] EXCEPT !.left = embed[j].left \ {p}] EXCEPT !.at = a]
  <2>2. /\ r \in JobRecord /\ r.left = embed[j].left \ {p} /\ r.at = a
        /\ r.alone = embed[j].alone /\ r.read = embed[j].read /\ r.missed = embed[j].missed
    BY <2>1 DEF JobRecord
  <2>3. embed' = [embed EXCEPT ![j] = r]
    BY <1>0, <1>3 DEF EmbedLookup, Remaining
  <2>4. r.alone => \A q \in Products \ (r.left \cup r.at \cup r.missed) :
                      emb[q] = r.read[q]
    BY <2>1, <2>2 DEF UpToDate, EmbedInv, AloneJobIsExact
  <2>5. /\ \A q, s \in r.at : q = s
        /\ r.at \cap r.left = {}
    BY <2>2
  <2>6. UNCHANGED <<text, emb>>
    BY <1>3 DEF EmbedLookup
  <2> HIDE DEF r
  <2> QED BY <1>0, <2>1, <2>2, <2>3, <2>4, <2>5, <2>6, EmbedJobMoves
<1>4. ASSUME NEW j \in EmbedJobs, NEW p \in Products, EmbedUpsert(j, p) PROVE EmbedInv'
  <2>1. /\ embed[j] \in JobRecord /\ Active(j) /\ p \in embed[j].at
        /\ \A q \in embed[j].at : q = p
    BY <1>0, <1>4 DEF EmbedUpsert, Active, EmbedJobOK
  <2> DEFINE r == [[embed[j] EXCEPT !.at = {}] EXCEPT !.tries = 0]
  <2>2. /\ r \in JobRecord /\ r.left = embed[j].left /\ r.at = {}
        /\ r.alone = embed[j].alone /\ r.read = embed[j].read /\ r.missed = embed[j].missed
    <3>1. 0 \in 0 .. Attempts - 1
      BY DEF Attempts
    <3> QED BY <2>1, <3>1 DEF JobRecord
  <2>3. embed' = [embed EXCEPT ![j] = r]
    BY <1>0, <1>4 DEF EmbedUpsert
  <2>4. /\ emb' = [emb EXCEPT ![p] = embed[j].read[p]]
        /\ embed[j].read[p] \in Texts \cup {NoText}
        /\ UNCHANGED text
    BY <1>4, <2>1 DEF EmbedUpsert, Vector, JobRecord
  <2>5. emb' \in [Products -> Texts \cup {NoText}]
    BY <1>0, <2>4
  <2>6. r.alone => \A q \in Products \ (r.left \cup r.at \cup r.missed) :
                      emb'[q] = r.read[q]
    BY <1>0, <2>1, <2>2, <2>4 DEF EmbedInv, AloneJobIsExact
  <2>7. /\ \A q, s \in r.at : q = s
        /\ r.at \cap r.left = {}
    BY <2>2
  <2> HIDE DEF r
  <2> QED BY <2>1, <2>2, <2>3, <2>4, <2>5, <2>6, <2>7, EmbedJobMoves
<1>5. ASSUME NEW j \in EmbedJobs, NEW p \in Products, EmbedTriesAgain(j, p) PROVE EmbedInv'
  <2>1. /\ embed[j] \in JobRecord /\ Active(j) /\ embed[j].tries + 1 \in 0 .. Attempts - 1
    BY <1>0, <1>5 DEF EmbedTriesAgain, CallFails, Active, JobRecord, Attempts
  <2> DEFINE r == [embed[j] EXCEPT !.tries = @ + 1]
  <2>2. /\ r \in JobRecord /\ r.left = embed[j].left /\ r.at = embed[j].at
        /\ r.alone = embed[j].alone /\ r.read = embed[j].read /\ r.missed = embed[j].missed
    BY <2>1 DEF JobRecord
  <2>3. embed' = [embed EXCEPT ![j] = r]
    BY <1>0, <1>5 DEF EmbedTriesAgain
  <2>4. UNCHANGED <<text, emb>>
    BY <1>5 DEF EmbedTriesAgain, CallFails
  <2>5. r.alone => \A q \in Products \ (r.left \cup r.at \cup r.missed) :
                      emb[q] = r.read[q]
    BY <2>2 DEF EmbedInv, AloneJobIsExact
  <2>6. /\ \A q, s \in r.at : q = s
        /\ r.at \cap r.left = {}
    BY <1>0, <2>2 DEF EmbedJobOK
  <2> HIDE DEF r
  <2> QED BY <1>0, <2>1, <2>2, <2>3, <2>4, <2>5, <2>6, EmbedJobMoves
<1>6. ASSUME NEW j \in EmbedJobs, NEW p \in Products, EmbedRefused(j, p) PROVE EmbedInv'
  <2>1. /\ embed[j] \in JobRecord /\ Active(j) /\ p \in embed[j].at
        /\ \A q \in embed[j].at : q = p
    BY <1>0, <1>6 DEF EmbedRefused, CallFails, Active, EmbedJobOK
  <2> DEFINE r == [[[embed[j] EXCEPT !.at = {}] EXCEPT !.tries = 0] EXCEPT !.missed = @ \cup {p}]
  <2>2. /\ r \in JobRecord /\ r.left = embed[j].left /\ r.at = {}
        /\ r.alone = embed[j].alone /\ r.read = embed[j].read
        /\ r.missed = embed[j].missed \cup {p}
    <3>1. 0 \in 0 .. Attempts - 1
      BY DEF Attempts
    <3> QED BY <2>1, <3>1 DEF JobRecord
  <2>3. embed' = [embed EXCEPT ![j] = r]
    BY <1>0, <1>6 DEF EmbedRefused
  <2>4. UNCHANGED <<text, emb>>
    BY <1>6 DEF EmbedRefused, CallFails
  <2>5. r.alone => \A q \in Products \ (r.left \cup r.at \cup r.missed) :
                      emb[q] = r.read[q]
    BY <2>1, <2>2 DEF EmbedInv, AloneJobIsExact
  <2>6. /\ \A q, s \in r.at : q = s
        /\ r.at \cap r.left = {}
    BY <2>2
  <2> HIDE DEF r
  <2> QED BY <1>0, <2>1, <2>2, <2>3, <2>4, <2>5, <2>6, EmbedJobMoves
<1>7. ASSUME NEW j \in EmbedJobs, EmbedDies(j) PROVE EmbedInv'
  BY <1>0, <1>7, NoJobIsOne, EmbedJobMoves DEF EmbedDies
<1>8. CASE UNCHANGED embedVars
  BY <1>8 DEF embedVars, EmbedInv, EmbedJobOK, AloneJobIsExact, Active
<1> QED
  BY <1>1, <1>2, <1>3, <1>4, <1>5, <1>6, <1>7, <1>8 DEF EmbeddingsNext

(* For any number of jobs at once: one that no other overlaps leaves each  *)
(* product it has handled with the vector of the text it read for it,      *)
(* skipped or not, but for those the provider refused (embedProducts).     *)
THEOREM AloneJobsAreExact == EmbeddingsSpec => []AloneJobIsExact
<1>1. EmbedInv => AloneJobIsExact
  BY DEF EmbedInv
<1> QED
  BY <1>1, EmbedInvInit, EmbedInvNext, PTL DEF EmbeddingsSpec

(* A job has at most one product at the provider, and none that is left;   *)
(* jobs and rows keep their types (embedProducts).                         *)
THEOREM EmbeddingsTypeCorrect == EmbeddingsSpec => []EmbeddingsTypeOK
<1>1. EmbedInv => EmbeddingsTypeOK
  <2> SUFFICES ASSUME EmbedInv PROVE EmbeddingsTypeOK
    OBVIOUS
  <2>1. ASSUME NEW j \in EmbedJobs
        PROVE  /\ embed[j] \in JobRecord
               /\ embed[j].at \subseteq Products \ embed[j].left
               /\ Cardinality(embed[j].at) <= 1
    <3>1. embed[j] \in JobRecord /\ EmbedJobOK(j)
      BY DEF EmbedInv
    <3>2. CASE embed[j].at = {}
      BY <3>1, <3>2, FS_EmptySet
    <3>3. CASE embed[j].at # {}
      <4>1. PICK p \in embed[j].at : embed[j].at = {p}
        BY <3>1, <3>3 DEF EmbedJobOK
      <4>2. Cardinality(embed[j].at) = 1
        BY <4>1, FS_Singleton
      <4> QED BY <3>1, <4>2 DEF EmbedJobOK, JobRecord
    <3> QED BY <3>2, <3>3
  <2> QED BY <2>1 DEF EmbedInv, JobRecord, EmbeddingsTypeOK
<1> QED
  BY <1>1, EmbedInvInit, EmbedInvNext, PTL DEF EmbeddingsSpec

-----------------------------------------------------------------------------
(* Recommendations.  While the last delete was not between another run's   *)
(* two writes, at most one run is between its own, and then no row is left *)
(* of any list: the insert that follows finds none to mix with.            *)

(* What a run may save: products without a repetition, at most RecLimit.   *)
RankedList == {list \in UNION {[1 .. n -> Items] : n \in 1 .. RecLimit} : IsInjective(list)}
RunRecord == [step : {"idle", "score", "save", "insert"}, owned : SUBSET Items,
              list : RankedList \cup {<<>>}]

Saved(r, list) ==
    {[run |-> r, rank |-> i, product |-> list[i]] : i \in DOMAIN list}

Inserting(r) == rec[r].step = "insert"

RunsInv ==
    /\ embedded \in SUBSET Items
    /\ rec \in [RecRuns -> RunRecord]
    /\ \A r \in RecRuns : rec[r].step \in {"save", "insert"} => rec[r].list \in RankedList
    /\ overlap \in BOOLEAN /\ everSaved \in BOOLEAN /\ cutOff \in BOOLEAN

RowsInv ==
    ~overlap =>
        /\ \A r \in RecRuns : Inserting(r) =>
              recs = {} /\ \A q \in RecRuns : Inserting(q) => q = r
        /\ recs = {} \/ \E r \in RecRuns, list \in RankedList : recs = Saved(r, list)

RecInv == RunsInv /\ RowsInv /\ ListIsNotLost

(* A list at its ranks is a row at each of 1 .. n, and none elsewhere.     *)
LEMMA SavedList ==
    ASSUME NEW r, NEW n \in 1 .. RecLimit, NEW list \in [1 .. n -> Items], IsInjective(list),
           recs = Saved(r, list)
    PROVE  /\ \A x, y \in recs : x.run = y.run /\ (x.product = y.product => x = y)
           /\ Cardinality(recs) = n
           /\ \A k \in 1 .. RecLimit : Cardinality(ShownAt(k)) = IF k <= n THEN 1 ELSE 0
<1>0. n \in Nat /\ n >= 1 /\ DOMAIN list = 1 .. n /\ RecLimit \in Nat
  BY RecommendationsAssumption
<1> DEFINE row(i) == [run |-> r, rank |-> i, product |-> list[i]]
<1>1. recs = {row(i) : i \in 1 .. n}
  BY <1>0 DEF Saved
<1>2. \A i \in 1 .. n : row(i).run = r /\ row(i).rank = i /\ row(i).product = list[i]
  OBVIOUS
<1>3. \A i, j \in 1 .. n : list[i] = list[j] => i = j
  BY <1>0 DEF IsInjective
<1>4. \A i, j \in 1 .. n : row(i) = row(j) => i = j
  BY <1>2
<1> HIDE DEF row
<1>5. \A x, y \in recs : x.run = y.run /\ (x.product = y.product => x = y)
  BY <1>1, <1>2, <1>3
<1>6. Cardinality(recs) = n
  <2> DEFINE f == [i \in 1 .. n |-> row(i)]
  <2>1. f \in Bijection(1 .. n, recs)
    BY <1>1, <1>4 DEF Bijection, Injection, Surjection, IsInjective
  <2>2. IsFiniteSet(1 .. n) /\ Cardinality(1 .. n) = n
    BY <1>0, FS_Interval
  <2>3. ExistsBijection(1 .. n, recs)
    BY <2>1 DEF ExistsBijection
  <2> QED BY <2>2, <2>3, FS_Bijection
<1>7. ASSUME NEW k \in 1 .. RecLimit
      PROVE  Cardinality(ShownAt(k)) = IF k <= n THEN 1 ELSE 0
  <2>1. CASE k <= n
    <3>1. k \in 1 .. n
      BY <1>0, <2>1
    <3>2. ShownAt(k) = {row(k)}
      BY <1>1, <1>2, <3>1 DEF ShownAt
    <3> QED BY <2>1, <3>2, FS_Singleton
  <2>2. CASE ~(k <= n)
    <3>1. k \notin 1 .. n
      BY <1>0, <2>2
    <3>2. ShownAt(k) = {}
      BY <1>1, <1>2, <3>1 DEF ShownAt
    <3> QED BY <2>2, <3>2, FS_EmptySet
  <2> QED BY <2>1, <2>2
<1> QED
  BY <1>5, <1>6, <1>7

LEMMA RecInvIsWhole == RecInv => ListsAreWhole
<1> SUFFICES ASSUME RecInv PROVE ListsAreWhole
  OBVIOUS
<1>1. ListIsNotLost
  BY DEF RecInv
<1>2. ASSUME ~overlap
      PROVE  /\ \A x, y \in recs : x.run = y.run /\ (x.product = y.product => x = y)
             /\ \A k \in 1 .. RecLimit :
                   Cardinality(ShownAt(k)) = IF k <= Cardinality(recs) THEN 1 ELSE 0
  <2>1. CASE recs = {}
    <3>1. Cardinality(recs) = 0
      BY <2>1, FS_EmptySet
    <3>2. \A k : Cardinality(ShownAt(k)) = 0
      BY <2>1, FS_EmptySet DEF ShownAt
    <3>3. \A k \in 1 .. RecLimit : ~(k <= 0)
      BY RecommendationsAssumption
    <3> QED BY <2>1, <3>1, <3>2, <3>3
  <2>2. CASE \E r \in RecRuns, list \in RankedList : recs = Saved(r, list)
    <3>1. PICK r \in RecRuns, list \in RankedList : recs = Saved(r, list)
      BY <2>2
    <3>2. PICK n \in 1 .. RecLimit : list \in [1 .. n -> Items] /\ IsInjective(list)
      BY DEF RankedList
    <3> QED BY <3>1, <3>2, SavedList
  <2> QED BY <1>2, <2>1, <2>2 DEF RecInv, RowsInv
<1> QED
  BY <1>1, <1>2 DEF ListsAreWhole, ListIsOneRuns

LEMMA NoRunIsOne == NoRun \in RunRecord /\ NoRun.step = "idle"
BY DEF NoRun, RunRecord

LEMMA RecInvInit == RecommendationsInit => RecInv
BY NoRunIsOne
   DEF RecommendationsInit, RecInv, RunsInv, RowsInv, ListIsNotLost, Inserting

(* The rankings a run chooses from are lists it may save.                  *)
LEMMA RankingsAreLists ==
    ASSUME NEW S \in SUBSET Items, S # {}
    PROVE  Rankings(S) \subseteq RankedList
<1>1. /\ IsFiniteSet(S) /\ Cardinality(S) \in Nat /\ Cardinality(S) # 0
      /\ RecLimit \in Nat /\ RecLimit # 0
  BY FS_Subset, FS_CardinalityType, FS_EmptySet, RecommendationsAssumption
<1> DEFINE n == IF Cardinality(S) < RecLimit THEN Cardinality(S) ELSE RecLimit
<1>2. n \in 1 .. RecLimit
  BY <1>1
<1>3. Rankings(S) = Injection(1 .. n, S)
  BY DEF Rankings
<1> HIDE DEF n
<1> QED
  BY <1>2, <1>3 DEF Injection, RankedList

(* A run moves on where it neither begins nor ends its two writes.         *)
LEMMA RunMoves ==
    ASSUME RecInv, NEW r \in RecRuns, NEW m \in RunRecord,
           rec' = [rec EXCEPT ![r] = m], ~Inserting(r), m.step # "insert",
           m.step = "save" => m.list \in RankedList,
           UNCHANGED <<embedded, recs, overlap, everSaved, cutOff>>
    PROVE  RecInv'
<1>1. /\ rec' \in [RecRuns -> RunRecord]
      /\ \A q \in RecRuns : rec'[q] = IF q = r THEN m ELSE rec[q]
  BY DEF RecInv, RunsInv
<1>2. \A q \in RecRuns : Inserting(q)' <=> Inserting(q)
  BY <1>1 DEF Inserting
<1>3. RunsInv'
  BY <1>1 DEF RecInv, RunsInv
<1>4. RowsInv'
  BY <1>2 DEF RecInv, RowsInv
<1>5. ListIsNotLost'
  BY <1>2 DEF RecInv, ListIsNotLost, Inserting
<1> QED
  BY <1>3, <1>4, <1>5 DEF RecInv

LEMMA RecInvNext == RecInv /\ [RecommendationsNext]_recVars => RecInv'
<1> SUFFICES ASSUME RecInv, [RecommendationsNext]_recVars PROVE RecInv'
  OBVIOUS
<1>0. /\ embedded \in SUBSET Items /\ rec \in [RecRuns -> RunRecord]
      /\ \A r \in RecRuns : rec[r] \in RunRecord
  BY DEF RecInv, RunsInv
<1>1. ASSUME NEW i \in Items, ItemEmbedded(i) PROVE RecInv'
  BY <1>0, <1>1
     DEF ItemEmbedded, RecInv, RunsInv, RowsInv, ListIsNotLost, Inserting
<1>2. ASSUME NEW r \in RecRuns, RunRead(r) PROVE RecInv'
  <2>1. PICK owned \in SUBSET Items :
           rec' = [rec EXCEPT ![r] = [NoRun EXCEPT !.step = "score", !.owned = owned]]
    BY <1>2 DEF RunRead
  <2> DEFINE m == [NoRun EXCEPT !.step = "score", !.owned = owned]
  <2>2. m \in RunRecord /\ m.step = "score"
    BY NoRunIsOne DEF RunRecord
  <2>3. rec' = [rec EXCEPT ![r] = m]
    BY <2>1
  <2> HIDE DEF m
  <2> QED BY <1>2, <2>2, <2>3, RunMoves DEF RunRead, Inserting
<1>3. ASSUME NEW r \in RecRuns, RunScore(r) PROVE RecInv'
  <2>1. CASE WorthSaving(r)
    <3>1. PICK list \in Rankings(Candidates(r)) :
             rec' = [rec EXCEPT ![r] = [step |-> "save", owned |-> {}, list |-> list]]
      BY <1>3, <2>1 DEF RunScore
    <3>2. list \in RankedList
      BY <1>0, <2>1, <3>1, RankingsAreLists DEF WorthSaving, Candidates
    <3> DEFINE m == [step |-> "save", owned |-> {}, list |-> list]
    <3>3. m \in RunRecord /\ m.step = "save" /\ m.list = list
      BY <3>2 DEF RunRecord
    <3>4. rec' = [rec EXCEPT ![r] = m]
      BY <3>1
    <3> HIDE DEF m
    <3> QED BY <1>3, <3>2, <3>3, <3>4, RunMoves DEF RunScore, Inserting
  <2>2. CASE ~WorthSaving(r)
    BY <1>3, <2>2, NoRunIsOne, RunMoves DEF RunScore, Inserting
  <2> QED BY <2>1, <2>2
<1>4. ASSUME NEW r \in RecRuns, RunDelete(r) PROVE RecInv'
  <2> DEFINE m == [rec[r] EXCEPT !.step = "insert"]
  <2>1. m \in RunRecord /\ m.step = "insert" /\ m.list = rec[r].list
    BY <1>0 DEF RunRecord
  <2>2. rec' = [rec EXCEPT ![r] = m]
    BY <1>4 DEF RunDelete
  <2> HIDE DEF m
  <2>3. /\ rec' \in [RecRuns -> RunRecord]
        /\ \A q \in RecRuns : rec'[q] = IF q = r THEN m ELSE rec[q]
    BY <1>0, <2>1, <2>2
  <2>4. /\ recs' = {}
        /\ overlap' = (\E q \in RecRuns \ {r} : rec[q].step = "insert")
        /\ UNCHANGED <<embedded, everSaved, cutOff>>
    BY <1>4 DEF RunDelete, DeletedBy
  <2>5. RunsInv'
    BY <1>4, <2>1, <2>3, <2>4 DEF RecInv, RunsInv, RunDelete
  <2>6. RowsInv'
    BY <2>3, <2>4 DEF RowsInv, Inserting
  <2>7. ListIsNotLost'
    BY <2>1, <2>3 DEF ListIsNotLost
  <2> QED BY <2>5, <2>6, <2>7 DEF RecInv
<1>5. ASSUME NEW r \in RecRuns, RunInsert(r) PROVE RecInv'
  <2>1. /\ rec' \in [RecRuns -> RunRecord]
        /\ \A q \in RecRuns : rec'[q] = IF q = r THEN NoRun ELSE rec[q]
    BY <1>0, <1>5, NoRunIsOne DEF RunInsert
  <2>2. rec[r].list \in RankedList /\ Inserting(r)
    BY <1>5 DEF RunInsert, RecInv, RunsInv, Inserting
  <2>3. /\ recs' = recs \cup Saved(r, rec[r].list)
        /\ everSaved' = TRUE
        /\ UNCHANGED <<embedded, overlap, cutOff>>
    BY <1>5 DEF RunInsert, Saved, Rank
  <2>4. recs' # {}
    <3>1. PICK n \in 1 .. RecLimit : rec[r].list \in [1 .. n -> Items]
      BY <2>2 DEF RankedList
    <3>2. 1 \in DOMAIN rec[r].list
      BY <3>1, RecommendationsAssumption
    <3> QED BY <2>3, <3>2 DEF Saved
  <2>5. RunsInv'
    BY <2>1, <2>3, NoRunIsOne DEF RecInv, RunsInv
  <2>6. RowsInv'
    <3> SUFFICES ASSUME ~overlap'
                 PROVE  /\ \A q \in RecRuns : ~Inserting(q)'
                        /\ \E q \in RecRuns, list \in RankedList : recs' = Saved(q, list)
      BY DEF RowsInv, Saved
    <3>1. recs = {} /\ \A q \in RecRuns : Inserting(q) => q = r
      BY <2>2, <2>3 DEF RecInv, RowsInv
    <3> QED BY <2>1, <2>2, <2>3, <3>1, NoRunIsOne DEF Inserting
  <2>7. ListIsNotLost'
    BY <2>4 DEF ListIsNotLost
  <2> QED BY <2>5, <2>6, <2>7 DEF RecInv
<1>6. ASSUME NEW r \in RecRuns, RunEnds(r) PROVE RecInv'
  <2>1. /\ rec' \in [RecRuns -> RunRecord]
        /\ \A q \in RecRuns : rec'[q] = IF q = r THEN NoRun ELSE rec[q]
    BY <1>0, <1>6, NoRunIsOne DEF RunEnds
  <2>2. /\ cutOff' = (cutOff \/ Inserting(r))
        /\ UNCHANGED <<embedded, recs, overlap, everSaved>>
    BY <1>6 DEF RunEnds, Inserting
  <2>3. \A q \in RecRuns : /\ Inserting(q)' => Inserting(q)
                           /\ Inserting(q) => Inserting(q)' \/ q = r
    BY <2>1, NoRunIsOne DEF Inserting
  <2>4. RunsInv'
    BY <2>1, <2>2, NoRunIsOne DEF RecInv, RunsInv
  <2>5. RowsInv'
    BY <2>2, <2>3 DEF RecInv, RowsInv, Saved
  <2>6. ListIsNotLost'
    BY <2>2, <2>3 DEF RecInv, ListIsNotLost, Inserting
  <2> QED BY <2>4, <2>5, <2>6 DEF RecInv
<1>7. CASE UNCHANGED recVars
  BY <1>7 DEF recVars, RecInv, RunsInv, RowsInv, ListIsNotLost, Inserting
<1> QED
  BY <1>1, <1>2, <1>3, <1>4, <1>5, <1>6, <1>7 DEF RecommendationsNext

(* For any number of runs, products and ranks: a customer is shown the     *)
(* list of one run, unless two runs crossed between their writes, and      *)
(* loses a saved list only to a run that is or died between them           *)
(* (runCustomerRecommendations).                                           *)
THEOREM SavedListsAreWhole == RecommendationsSpec => []ListsAreWhole
BY RecInvIsWhole, RecInvInit, RecInvNext, PTL DEF RecommendationsSpec

(* The rows, also those of lists that runs have mixed, are at ranks up to  *)
(* the limit.                                                              *)
RankedRows == recs \in SUBSET [run : RecRuns, rank : 1 .. RecLimit, product : Items]

LEMMA RankedRowsNext ==
    RecInv /\ RankedRows /\ [RecommendationsNext]_recVars => RankedRows'
<1> SUFFICES ASSUME RecInv, RankedRows, [RecommendationsNext]_recVars PROVE RankedRows'
  OBVIOUS
<1>1. ASSUME NEW r \in RecRuns, RunInsert(r) PROVE RankedRows'
  <2>1. rec[r].list \in RankedList
    BY <1>1 DEF RunInsert, RecInv, RunsInv
  <2>2. PICK n \in 1 .. RecLimit : rec[r].list \in [1 .. n -> Items]
    BY <2>1 DEF RankedList
  <2>3. \A i \in DOMAIN rec[r].list : i \in 1 .. RecLimit /\ rec[r].list[i] \in Items
    BY <2>2, RecommendationsAssumption
  <2> QED BY <1>1, <2>3 DEF RunInsert, Rank, RankedRows
<1>2. ASSUME NEW r \in RecRuns, RunDelete(r) PROVE RankedRows'
  BY <1>2 DEF RunDelete, RankedRows
<1>3. CASE UNCHANGED recs
  BY <1>3 DEF RankedRows
<1> QED
  BY <1>1, <1>2, <1>3
     DEF RecommendationsNext, ItemEmbedded, RunRead, RunScore, RunEnds, recVars

(* Runs and rows keep their types: no list is longer than the limit, and   *)
(* no row has a rank beyond it (runCustomerRecommendations).               *)
THEOREM RecommendationsTypeCorrect == RecommendationsSpec => []RecommendationsTypeOK
<1>1. RecommendationsInit => RankedRows
  BY DEF RecommendationsInit, RankedRows
<1>2. RecInv /\ RankedRows => RecommendationsTypeOK
  <2> SUFFICES ASSUME RecInv, RankedRows PROVE RecommendationsTypeOK
    OBVIOUS
  <2>1. ASSUME NEW list \in RankedList \cup {<<>>}
        PROVE  list \in Seq(Items) /\ Len(list) <= RecLimit
    <3>1. CASE list = <<>>
      BY <3>1, RecommendationsAssumption
    <3>2. CASE list \in RankedList
      <4>1. PICK n \in 1 .. RecLimit : list \in [1 .. n -> Items]
        BY <3>2 DEF RankedList
      <4> QED BY <4>1, RecommendationsAssumption
    <3> QED BY <3>1, <3>2
  <2>2. \A r \in RecRuns : rec[r] \in RunRecord
    BY DEF RecInv, RunsInv
  <2>3. \A r \in RecRuns : rec[r].list \in RankedList \cup {<<>>}
    BY <2>2 DEF RunRecord
  <2> QED BY <2>1, <2>2, <2>3 DEF RecInv, RunsInv, RunRecord, RankedRows, RecommendationsTypeOK
<1> QED
  BY <1>1, <1>2, RecInvInit, RecInvNext, RankedRowsNext, PTL DEF RecommendationsSpec

-----------------------------------------------------------------------------
(* Baskets.  Each pair of lines is of one order that has both products, so *)
(* counting pairs counts every such order, and each once if no order has   *)
(* a product on two lines.                                                 *)

BasketsInv == lines \in Seq(Lines) /\ shopper \in [Baskets -> Shoppers \cup {Guest}]

Pairs(a, b) ==
    {p \in LineNos \X LineNos :
        /\ p[1] # p[2] /\ lines[p[1]].basket = lines[p[2]].basket
        /\ lines[p[1]].good = a /\ lines[p[2]].good = b}

LEMMA BasketsInvHolds == BasketsSpec => []BasketsInv
<1>1. BasketsInit => BasketsInv
  BY DEF BasketsInit, BasketsInv
<1>2. BasketsInv /\ [BasketsNext]_basketVars => BasketsInv'
  <2> SUFFICES ASSUME BasketsInv, [BasketsNext]_basketVars PROVE BasketsInv'
    OBVIOUS
  <2>1. ASSUME NEW l \in Lines, LineSynced(l) PROVE BasketsInv'
    <3>1. Append(lines, l) \in Seq(Lines)
      BY DEF BasketsInv
    <3> QED BY <2>1, <3>1 DEF LineSynced, BasketsInv
  <2>2. CASE UNCHANGED basketVars
    BY <2>2 DEF basketVars, BasketsInv
  <2> QED BY <2>1, <2>2 DEF BasketsNext
<1> QED
  BY <1>1, <1>2, PTL DEF BasketsSpec

LEMMA LineTypes ==
    ASSUME BasketsInv
    PROVE  /\ LineNos = 1 .. Len(lines) /\ Len(lines) \in Nat /\ IsFiniteSet(LineNos)
           /\ \A i \in LineNos : /\ lines[i] \in Lines /\ lines[i].basket \in Baskets
                                 /\ lines[i].good \in Goods
                                 /\ shopper[lines[i].basket] \in Shoppers \cup {Guest}
<1>1. LineNos = 1 .. Len(lines) /\ Len(lines) \in Nat
  BY DEF BasketsInv, LineNos
<1>2. IsFiniteSet(LineNos)
  BY <1>1, FS_Interval
<1>3. \A i \in LineNos : lines[i] \in Lines
  BY <1>1 DEF BasketsInv
<1> QED
  BY <1>1, <1>2, <1>3 DEF Lines, BasketsInv

LEMMA TogetherIs ==
    ASSUME BasketsInv, NEW a \in Goods, NEW b \in Goods
    PROVE  Together(a, b) = Cardinality(Pairs(a, b)) /\ IsFiniteSet(Pairs(a, b))
<1>1. ASSUME NEW i \in LineNos, NEW j \in LineNos
      PROVE  (lines[i] = [lines[j] EXCEPT !.good = a])
                <=> (lines[i].basket = lines[j].basket /\ lines[i].good = a)
  <2>1. lines[i] \in Lines /\ lines[j] \in Lines
    BY LineTypes
  <2> QED BY <2>1 DEF Lines
<1>2. {p \in LineNos \X LineNos :
        /\ EitherWay(p[1], p[2])
        /\ lines[p[1]] = [lines[p[2]] EXCEPT !.good = a]
        /\ lines[p[2]].good = b} = Pairs(a, b)
  BY <1>1 DEF Pairs, EitherWay
<1>3. IsFiniteSet(Pairs(a, b))
  <2>1. IsFiniteSet(LineNos \X LineNos)
    BY LineTypes, FS_Product
  <2>2. Pairs(a, b) \subseteq LineNos \X LineNos
    BY DEF Pairs
  <2> QED BY <2>1, <2>2, FS_Subset
<1> QED
  BY <1>2, <1>3 DEF Together

(* The pairs the other way round.                                          *)
LEMMA TogetherBothWays ==
    ASSUME BasketsInv, NEW a \in Goods, NEW b \in Goods
    PROVE  Together(a, b) = Together(b, a)
<1> DEFINE f == [p \in Pairs(a, b) |-> <<p[2], p[1]>>]
<1>1. f \in [Pairs(a, b) -> Pairs(b, a)]
  BY DEF Pairs
<1>2. \A p, q \in Pairs(a, b) : f[p] = f[q] => p = q
  BY DEF Pairs
<1>3. \A q \in Pairs(b, a) : \E p \in Pairs(a, b) : f[p] = q
  <2> SUFFICES ASSUME NEW q \in Pairs(b, a) PROVE \E p \in Pairs(a, b) : f[p] = q
    OBVIOUS
  <2>1. <<q[2], q[1]>> \in Pairs(a, b)
    BY DEF Pairs
  <2>2. f[<<q[2], q[1]>>] = q
    BY <2>1 DEF Pairs
  <2> QED BY <2>1, <2>2
<1> HIDE DEF f
<1>4. f \in Bijection(Pairs(a, b), Pairs(b, a))
  BY <1>1, <1>2, <1>3, Fun_IsBij
<1>5. ExistsBijection(Pairs(a, b), Pairs(b, a))
  BY <1>4 DEF ExistsBijection
<1> QED
  BY <1>5, TogetherIs, FS_Bijection

LEMMA PairsCoverOrders ==
    ASSUME BasketsInv, NEW a \in Goods, NEW b \in Goods, a # b
    PROVE  /\ Together(a, b) >= Cardinality(OrdersWith({a, b}))
           /\ (\A i, j \in DOMAIN lines : i # j => lines[i] # lines[j])
              => Together(a, b) = Cardinality(OrdersWith({a, b}))
<1> DEFINE S == Pairs(a, b)
           T == OrdersWith({a, b})
           f == [p \in S |-> lines[p[1]].basket]
<1>0. \A i \in LineNos : lines[i] \in [basket : Baskets, good : Goods]
  BY LineTypes DEF Lines
<1>1. f \in [S -> T]
  <2>1. ASSUME NEW p \in S PROVE lines[p[1]].basket \in T
    <3>1. /\ p[1] \in LineNos /\ p[2] \in LineNos
          /\ lines[p[1]].basket \in Baskets
          /\ lines[p[1]] = [basket |-> lines[p[1]].basket, good |-> a]
          /\ lines[p[2]] = [basket |-> lines[p[1]].basket, good |-> b]
      BY <1>0 DEF Pairs
    <3> QED BY <3>1 DEF OrdersWith, LineNos
  <2> QED BY <2>1
<1>2. ASSUME NEW o \in T PROVE \E p \in S : f[p] = o
  <2>1. PICK i \in LineNos : lines[i] = [basket |-> o, good |-> a]
    BY DEF OrdersWith, LineNos
  <2>2. PICK j \in LineNos : lines[j] = [basket |-> o, good |-> b]
    BY DEF OrdersWith, LineNos
  <2>3. <<i, j>> \in S
    BY <2>1, <2>2 DEF Pairs
  <2>4. f[<<i, j>>] = o
    BY <2>1, <2>3
  <2> QED BY <2>3, <2>4
<1>3. ASSUME \A i, j \in DOMAIN lines : i # j => lines[i] # lines[j]
      PROVE  \A p, q \in S : f[p] = f[q] => p = q
  <2> SUFFICES ASSUME NEW p \in S, NEW q \in S, f[p] = f[q] PROVE p = q
    OBVIOUS
  <2>1. /\ p = <<p[1], p[2]>> /\ q = <<q[1], q[2]>>
        /\ p[1] \in LineNos /\ p[2] \in LineNos /\ q[1] \in LineNos /\ q[2] \in LineNos
        /\ lines[p[1]] = lines[q[1]] /\ lines[p[2]] = lines[q[2]]
    BY <1>0 DEF Pairs
  <2> QED BY <1>3, <2>1 DEF LineNos
<1> HIDE DEF S, T, f
<1>4. f \in Surjection(S, T)
  BY <1>1, <1>2, Fun_IsSurj
<1>5. IsFiniteSet(S) /\ Together(a, b) = Cardinality(S)
  BY TogetherIs DEF S
<1>6. IsFiniteSet(T) /\ Cardinality(T) <= Cardinality(S)
      /\ (Cardinality(T) = Cardinality(S) <=> f \in Injection(S, T))
  BY <1>4, <1>5, FS_Surjection
<1>7. Cardinality(S) \in Nat /\ Cardinality(T) \in Nat
  BY <1>5, <1>6, FS_CardinalityType
<1>8. (\A p, q \in S : f[p] = f[q] => p = q) => f \in Injection(S, T)
  BY <1>1, Fun_IsInj
<1> QED
  BY <1>3, <1>5, <1>6, <1>7, <1>8 DEF T

LEMMA ComesBack ==
    ASSUME BasketsInv, NEW g \in Goods, NEW b \in OrdersWith({g}), NEW d \in OrdersWith({g}),
           b # d, shopper[b] = shopper[d], shopper[b] # Guest
    PROVE  g \in ReorderCandidates
<1> DEFINE c == shopper[b]
           W == {i \in DOMAIN lines : shopper[lines[i].basket] = c /\ lines[i].good = g}
<1>1. PICK i \in LineNos : lines[i] = [basket |-> b, good |-> g]
  BY DEF OrdersWith, LineNos
<1>2. PICK j \in LineNos : lines[j] = [basket |-> d, good |-> g]
  BY DEF OrdersWith, LineNos
<1>3. i # j /\ {i, j} \subseteq W
  BY <1>1, <1>2 DEF LineNos
<1>4. IsFiniteSet(W)
  <2>1. W \subseteq LineNos
    BY DEF LineNos
  <2> QED BY <2>1, LineTypes, FS_Subset
<1>5. Cardinality({i, j}) = 2
  <2>1. IsFiniteSet({j}) /\ Cardinality({j}) = 1
    BY FS_Singleton
  <2>2. Cardinality({j} \cup {i}) = Cardinality({j}) + 1
    BY <1>3, <2>1, FS_AddElement
  <2>3. {j} \cup {i} = {i, j}
    OBVIOUS
  <2> QED BY <2>1, <2>2, <2>3
<1>6. Cardinality(W) >= 2
  <2> HIDE DEF W
  <2>1. Cardinality({i, j}) <= Cardinality(W)
    BY <1>3, <1>4, FS_Subset
  <2>2. Cardinality(W) \in Nat
    BY <1>4, FS_CardinalityType
  <2> QED BY <1>5, <2>1, <2>2
<1>7. c \in Shoppers
  <2>1. c \in Shoppers \cup {Guest}
    BY <1>1, LineTypes
  <2> QED BY <2>1
<1>8. LinesOf(c, g) >= 2
  BY <1>6 DEF LinesOf
<1> QED
  BY <1>7, <1>8 DEF ReorderCandidates, RepeatedBy

LEMMA Percent ==
    ASSUME NEW n \in Nat, NEW k \in Nat, n >= 1, n <= k
    PROVE  LET q == (200 * n + k) \div (2 * k)
           IN  q \in 0 .. 100 /\ (q = 0 => 200 * n < k)
<1>1. PICK m \in Int : m = 200 * n + k
  OBVIOUS
<1>2. PICK e \in Nat \ {0} : e = 2 * k
  OBVIOUS
<1>3. PICK q \in Int : q = m \div e /\ q * e <= m /\ m < q * e + e
  OBVIOUS
<1>4. q <= 100
  <2>1. ASSUME q >= 101 PROVE FALSE
    <3>1. (q - 101) * e >= 0
      <4>1. q - 101 \in Nat
        BY <2>1
      <4> QED BY <4>1
    <3>2. (q - 101) * e = q * e - 101 * e /\ q * e \in Int
      OBVIOUS
    <3> QED BY <1>1, <1>2, <1>3, <3>1, <3>2
  <2> QED BY <2>1
<1>5. q >= 0
  <2>1. ASSUME q <= 0 - 1 PROVE FALSE
    <3>1. (0 - 1 - q) * e >= 0
      <4>1. 0 - 1 - q \in Nat
        BY <2>1
      <4> QED BY <4>1
    <3>2. (0 - 1 - q) * e = 0 - e - q * e /\ q * e \in Int
      OBVIOUS
    <3> QED BY <1>1, <1>2, <1>3, <3>1, <3>2
  <2> QED BY <2>1
<1>6. q = 0 => 200 * n < k
  BY <1>1, <1>2, <1>3
<1> QED
  BY <1>1, <1>2, <1>3, <1>4, <1>5, <1>6

LEMMA RatesAreFractions ==
    ASSUME BasketsInv, NEW g \in Goods, g \in ReorderCandidates
    PROVE  /\ RepeatRate(g) \in 0 .. 100
           /\ RepeatRate(g) = 0 =>
                 200 * Cardinality(RepeatedBy(g)) < Cardinality(BoughtBy(g))
<1> DEFINE m == [i \in LineNos |-> shopper[lines[i].basket]]
           T == {m[i] : i \in LineNos}
<1>1. IsFiniteSet(T)
  <2>1. m \in Surjection(LineNos, T)
    BY DEF Surjection
  <2> HIDE DEF m, T
  <2> QED BY <2>1, LineTypes, FS_Surjection
<1>2. ASSUME NEW c \in BoughtBy(g) PROVE c \in T
  <2> DEFINE W == {i \in DOMAIN lines : shopper[lines[i].basket] = c /\ lines[i].good = g}
  <2>1. Cardinality(W) > 0
    BY DEF BoughtBy, LinesOf
  <2>2. W # {}
    BY <2>1, FS_EmptySet
  <2> QED BY <2>2 DEF LineNos
<1>3. BoughtBy(g) \subseteq T
  BY <1>2
<1>4. RepeatedBy(g) \subseteq BoughtBy(g)
  <2>1. ASSUME NEW c \in RepeatedBy(g) PROVE LinesOf(c, g) \in Nat
    <3> DEFINE W == {i \in DOMAIN lines : shopper[lines[i].basket] = c /\ lines[i].good = g}
    <3>1. W \subseteq LineNos
      BY DEF LineNos
    <3>2. Cardinality(W) \in Nat
      BY <3>1, LineTypes, FS_Subset, FS_CardinalityType
    <3> QED BY <3>2 DEF LinesOf
  <2> QED BY <2>1 DEF RepeatedBy, BoughtBy
<1> HIDE DEF T
<1>5. PICK k \in Nat : k = Cardinality(BoughtBy(g))
  BY <1>1, <1>3, FS_Subset, FS_CardinalityType
<1>6. IsFiniteSet(BoughtBy(g)) /\ IsFiniteSet(RepeatedBy(g))
  BY <1>1, <1>3, <1>4, FS_Subset
<1>7. PICK n \in Nat : n = Cardinality(RepeatedBy(g)) /\ n <= k /\ n >= 1
  <2>1. RepeatedBy(g) # {}
    BY DEF ReorderCandidates
  <2>2. Cardinality(RepeatedBy(g)) # 0 /\ Cardinality(RepeatedBy(g)) \in Nat
    BY <1>6, <2>1, FS_EmptySet, FS_CardinalityType
  <2>3. Cardinality(RepeatedBy(g)) <= k
    BY <1>4, <1>5, <1>6, FS_Subset
  <2> QED BY <2>2, <2>3
<1>8. RepeatRate(g) = (200 * n + k) \div (2 * k)
  BY <1>5, <1>7 DEF RepeatRate
<1> QED
  BY <1>5, <1>7, <1>8, Percent

(* For any orders, products, customers and number of lines: the lines that *)
(* storeStats counts, instead of orders, never lose an order, and the      *)
(* repeat rate is a percentage.                                            *)
THEOREM PairsAreCounted == BasketsSpec => []OrdersAreCounted
<1>1. BasketsInv => TogetherCountsOrders
  BY TogetherBothWays, PairsCoverOrders DEF TogetherCountsOrders
<1>2. BasketsInv => ComingBackCounts
  BY ComesBack, RatesAreFractions DEF ComingBackCounts
<1> QED
  BY <1>1, <1>2, BasketsInvHolds, PTL DEF OrdersAreCounted

=============================================================================
