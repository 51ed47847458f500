--------------------------- MODULE InvitationLinks ---------------------------
(* The links of InvitationsService for one address in one tenant: the rows *)
(* of tenant_invitations with the token each accepts, and the mails, which *)
(* go out inside the transactions, before they commit.  What accepting     *)
(* does to members and roles is in Rbac.                                   *)
EXTENDS Naturals, FiniteSetsExt

CONSTANTS
    InvitationRows,     \* rows there may be
    InviteCalls,        \* requests at once
    MostLinks           \* bound: links that are minted

ASSUME InvitationLinksAssumption == InvitationRows # {} /\ MostLinks \in Nat

VARIABLES
    invitation,     \* tenant_invitations: status, current link, expired or not
    inviteCall,     \* of a request: its step, its row and link, and the rows
                    \* that it has revoked
    minted,         \* links minted so far: 1 .. minted
    sent,           \* links that have been mailed
    crossed         \* no program state: two creates have overlapped

inviteVars == <<invitation, inviteCall, minted, sent, crossed>>

Links == 1 .. MostLinks
InviteSteps == {"idle", "creating", "created", "resending", "resent", "accepting"}
SomeRow == CHOOSE i \in InvitationRows : TRUE
NoInviteCall == [step |-> "idle", i |-> SomeRow, link |-> 0, revokes |-> {}]

InvitationLinksTypeOK ==
    /\ invitation \in [InvitationRows ->
           [status : {"none", "pending", "accepted", "revoked"}, link : Links \cup {0},
            expired : BOOLEAN]]
    /\ inviteCall \in [InviteCalls ->
           [step : InviteSteps, i : InvitationRows, link : Links \cup {0},
            revokes : SUBSET InvitationRows]]
    /\ minted \in Links \cup {0} /\ sent \subseteq Links /\ crossed \in BOOLEAN

InvitationLinksInit ==
    /\ invitation = [i \in InvitationRows |-> [status |-> "none", link |-> 0, expired |-> FALSE]]
    /\ inviteCall = [x \in InviteCalls |-> NoInviteCall]
    /\ minted = 0 /\ sent = {} /\ crossed = FALSE

IsPending(i) == invitation[i].status = "pending"

(* The rows that an open transaction has written, others must wait for.    *)
WrittenBy(x) ==
    inviteCall[x].revokes \cup IF inviteCall[x].step = "resent" THEN {inviteCall[x].i} ELSE {}
Unlocked(i) == \A x \in InviteCalls : i \notin WrittenBy(x)
Inserted == {inviteCall[x].i : x \in {y \in InviteCalls : inviteCall[y].step = "created"}}
FreshRows == {i \in InvitationRows \ Inserted : invitation[i].status = "none"}

-----------------------------------------------------------------------------
(* create: all that is pending is revoked; a row that another create has   *)
(* not committed yet is not seen.                                          *)
PendingRows == {i \in InvitationRows : IsPending(i)}
CreateRevokes(x) ==
    /\ inviteCall[x].step = "idle"
    /\ \A i \in PendingRows : Unlocked(i)
    /\ inviteCall' = [inviteCall EXCEPT ![x] =
                         [NoInviteCall EXCEPT !.step = "creating", !.revokes = PendingRows]]
    /\ crossed' = (crossed \/ \E y \in InviteCalls : inviteCall[y].step \in {"creating", "created"})
    /\ UNCHANGED <<invitation, minted, sent>>

(* The row and the mail, still in the transaction.                         *)
CreateSends(x) ==
    /\ inviteCall[x].step = "creating"
    /\ minted < MostLinks
    /\ FreshRows # {}
    /\ inviteCall' = [inviteCall EXCEPT ![x].step = "created", ![x].link = minted + 1,
                                        ![x].i = CHOOSE i \in FreshRows : TRUE]
    /\ minted' = minted + 1
    /\ sent' = sent \cup {minted + 1}
    /\ UNCHANGED <<invitation, crossed>>

CreateCommits(x) ==
    /\ inviteCall[x].step = "created"
    /\ invitation' = [i \in InvitationRows |->
           IF i = inviteCall[x].i
           THEN [status |-> "pending", link |-> inviteCall[x].link, expired |-> FALSE]
           ELSE IF i \in inviteCall[x].revokes THEN [invitation[i] EXCEPT !.status = "revoked"]
           ELSE invitation[i]]
    /\ inviteCall' = [inviteCall EXCEPT ![x] = NoInviteCall]
    /\ UNCHANGED <<minted, sent, crossed>>

(* resend: the row was pending when it was found; the update does not ask  *)
(* again.                                                                  *)
ResendFinds(x, i) ==
    /\ inviteCall[x].step = "idle"
    /\ IsPending(i)
    /\ inviteCall' = [inviteCall EXCEPT ![x] = [NoInviteCall EXCEPT !.step = "resending", !.i = i]]
    /\ UNCHANGED <<invitation, minted, sent, crossed>>

ResendSends(x) ==
    /\ inviteCall[x].step = "resending"
    /\ Unlocked(inviteCall[x].i)
    /\ minted < MostLinks
    /\ inviteCall' = [inviteCall EXCEPT ![x].step = "resent", ![x].link = minted + 1]
    /\ minted' = minted + 1
    /\ sent' = sent \cup {minted + 1}
    /\ UNCHANGED <<invitation, crossed>>

Revived(x) == [status |-> "pending", link |-> inviteCall[x].link, expired |-> FALSE]
Relinked(x) ==
    [invitation[inviteCall[x].i] EXCEPT !.link = inviteCall[x].link, !.expired = FALSE]
ResendCommits(x) ==
    /\ inviteCall[x].step = "resent"
    /\ invitation' = [invitation EXCEPT ![inviteCall[x].i] = Relinked(x)]
    /\ inviteCall' = [inviteCall EXCEPT ![x] = NoInviteCall]
    /\ UNCHANGED <<minted, sent, crossed>>

(* accept: the row of the link's hash, pending and not expired; at the end *)
(* the row is updated by its id.                                           *)
AcceptFinds(x, link) ==
    /\ inviteCall[x].step = "idle"
    /\ link \in sent
    /\ \E i \in InvitationRows :
          /\ IsPending(i) /\ ~invitation[i].expired /\ invitation[i].link = link
          /\ inviteCall' = [inviteCall EXCEPT ![x] =
                               [NoInviteCall EXCEPT !.step = "accepting", !.i = i]]
    /\ UNCHANGED <<invitation, minted, sent, crossed>>

AcceptCommits(x) ==
    /\ inviteCall[x].step = "accepting"
    /\ Unlocked(inviteCall[x].i)
    /\ invitation' = [invitation EXCEPT ![inviteCall[x].i].status = "accepted"]
    /\ inviteCall' = [inviteCall EXCEPT ![x] = NoInviteCall]
    /\ UNCHANGED <<minted, sent, crossed>>

(* revoke is one updateMany.                                               *)
RevokeLink(i) ==
    /\ IsPending(i) /\ Unlocked(i)
    /\ invitation' = [invitation EXCEPT ![i].status = "revoked"]
    /\ UNCHANGED <<inviteCall, minted, sent, crossed>>

LinkExpires(i) ==
    /\ IsPending(i) /\ ~invitation[i].expired
    /\ invitation' = [invitation EXCEPT ![i].expired = TRUE]
    /\ UNCHANGED <<inviteCall, minted, sent, crossed>>

(* An error, the time limit of the transaction, which a slow mail server   *)
(* reaches after the mail has gone out, or the end of the process.         *)
InviteRollsBack(x) ==
    /\ inviteCall[x].step # "idle"
    /\ inviteCall' = [inviteCall EXCEPT ![x] = NoInviteCall]
    /\ UNCHANGED <<invitation, minted, sent, crossed>>

InvitationLinksNext ==
    \/ \E x \in InviteCalls :
          \/ CreateRevokes(x) \/ CreateSends(x) \/ CreateCommits(x)
          \/ ResendSends(x) \/ ResendCommits(x)
          \/ AcceptCommits(x) \/ InviteRollsBack(x)
          \/ \E i \in InvitationRows : ResendFinds(x, i)
          \/ \E link \in Links : AcceptFinds(x, link)
    \/ \E i \in InvitationRows : RevokeLink(i) \/ LinkExpires(i)

-----------------------------------------------------------------------------
(* Properties                                                              *)

(* An invitation that is pending can be accepted: its link has been mailed,*)
(* and no other row has the same.  And a tenant has one pending invitation *)
(* for an address, however creates, resends, revocations and acceptances   *)
(* follow or overlap each other; only two creates that overlap leave two.  *)
PendingIsReachable ==
    /\ \A i \in PendingRows :
          /\ invitation[i].link \in sent
          /\ \A j \in InvitationRows \ {i} : invitation[j].link # invitation[i].link
    /\ ~crossed => Cardinality(PendingRows) <= 1
=============================================================================
