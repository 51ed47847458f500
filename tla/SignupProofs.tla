---------------------------- MODULE SignupProofs ----------------------------
(***************************************************************************)
(* Proofs about Signup, for any number of addresses, overlapping calls and *)
(* codes: it keeps its types, every step is a step of AccountRegistry or   *)
(* leaves the registry alone, the limits are overshot by no more than the  *)
(* calls that overlap, and no row is lost.                                 *)
(*                                                                         *)
(* The argument: what was mailed with a code is never changed, so a call   *)
(* that compared a row keeps what the code was mailed for, whatever the    *)
(* row has become; and the transaction looks again at all that matters.    *)
(* The limits are checked on what a call has read, so only calls that were *)
(* in flight together can pass one: the invariant counts them.             *)
(***************************************************************************)
EXTENDS Signup, FiniteSetTheorems, TLAPS

CodesInOrder == \A n \in Codes : madeFor[n] # None <=> n <= codes

MadeFor(e, r) == madeFor[r.code] = [e |-> e, pw |-> r.pw]

RowsMailed == \A e \in Emails : pending[e] # None => MadeFor(e, pending[e])

Compares(c) == c.pc \in {"match", "slug", "create"}
CallsMailed == \A x \in Calls : Compares(call[x]) => MadeFor(call[x].e, call[x].row)
SlugsInRange ==
    \A x \in Calls : call[x].pc = "create" => call[x].slug \in 1 .. Cardinality(Emails) + 1

SignupInv == SignupTypeOK /\ CodesInOrder /\ RowsMailed /\ CallsMailed /\ SlugsInRange

-----------------------------------------------------------------------------
LEMMA CallFields ==
    ASSUME SignupInv, NEW x \in Calls
    PROVE  /\ call[x] \in Call
           /\ call[x].pc = "start" => call[x].e \in Emails /\ call[x].pw \in Passwords
           /\ call[x].pc \in {"resend", "drop", "miss"} => call[x].e \in Emails
           /\ Compares(call[x]) => call[x].e \in Emails /\ call[x].row \in Compared
           /\ call[x].pc = "create" => call[x].slug \in Nat
BY DEF SignupInv, SignupTypeOK, Call, Idle, Compares

LEMMA PendingFields ==
    ASSUME SignupInv, NEW e \in Emails, pending[e] # None
    PROVE  /\ pending[e] \in Pending
           /\ pending[e].pw \in Passwords /\ pending[e].code \in Codes
           /\ pending[e].attempts \in Nat /\ pending[e].resends \in Nat
           /\ madeFor[pending[e].code] = [e |-> e, pw |-> pending[e].pw]
BY DEF SignupInv, SignupTypeOK, RowsMailed, MadeFor, Pending

(* Nothing that was mailed is forgotten or changed.                        *)
LEMMA StoreCodeEffect ==
    ASSUME SignupInv, NEW e \in Emails, NEW r \in Pending, r.code = codes + 1, StoreCode(e, r)
    PROVE  /\ pending' \in [Emails -> Pending \cup {None}]
           /\ madeFor' \in [Codes -> Mailed \cup {None}]
           /\ codes' \in 0 .. MaxCodes
           /\ madeFor[r.code] = None /\ madeFor' = [madeFor EXCEPT ![r.code] = [e |-> e, pw |-> r.pw]]
           /\ CodesInOrder' /\ RowsMailed'
           /\ \A n \in Codes : madeFor[n] # None => madeFor'[n] = madeFor[n]
<1>1. [e |-> e, pw |-> r.pw] \in Mailed /\ r.code \in Codes /\ codes < MaxCodes
      /\ codes \in Nat /\ MaxCodes \in Nat
  BY SignupAssumption DEF Mailed, Pending, StoreCode, SignupInv, SignupTypeOK
<1>2. madeFor' = [madeFor EXCEPT ![r.code] = [e |-> e, pw |-> r.pw]]
      /\ codes' = codes + 1 /\ pending' = [pending EXCEPT ![e] = r]
  BY DEF StoreCode
<1>3. madeFor[r.code] = None
  BY <1>1 DEF SignupInv, CodesInOrder
<1>4. CodesInOrder'
  BY <1>1, <1>2, <1>3, SignupAssumption DEF SignupInv, SignupTypeOK, CodesInOrder, Codes
<1>5. RowsMailed'
  <2>1. ASSUME NEW d \in Emails, pending'[d] # None
        PROVE  madeFor'[pending'[d].code] = [e |-> d, pw |-> pending'[d].pw]
    <3>1. CASE d = e
      BY <1>1, <1>2, <3>1 DEF SignupInv, SignupTypeOK
    <3>2. CASE d # e
      <4>1. pending'[d] = pending[d]
        BY <1>2, <3>2 DEF SignupInv, SignupTypeOK
      <4>2. madeFor[pending[d].code] = [e |-> d, pw |-> pending[d].pw]
            /\ madeFor[pending[d].code] # None
        BY <2>1, <4>1, PendingFields, SignupAssumption DEF Mailed
      <4> QED BY <1>2, <1>3, <4>1, <4>2 DEF SignupInv, SignupTypeOK
    <3> QED BY <3>1, <3>2
  <2> QED BY <2>1 DEF RowsMailed, MadeFor
<1> QED BY <1>1, <1>2, <1>3, <1>4, <1>5 DEF SignupInv, SignupTypeOK

LEMMA CallMoves ==
    ASSUME SignupInv, NEW x \in Calls, NEW c \in Call, Goto(x, c),
           \A n \in Codes : madeFor[n] # None => madeFor'[n] = madeFor[n],
           Compares(c) => madeFor'[c.row.code] = [e |-> c.e, pw |-> c.row.pw],
           c.pc = "create" => c.slug \in 1 .. Cardinality(Emails) + 1
    PROVE  call' \in [Calls -> Call] /\ CallsMailed' /\ SlugsInRange'
<1>1. /\ call' \in [Calls -> Call] /\ call'[x] = c
      /\ \A y \in Calls \ {x} : call'[y] = call[y]
  BY DEF Goto, SignupInv, SignupTypeOK
<1>2. ASSUME NEW y \in Calls \ {x}, Compares(call[y])
      PROVE  madeFor'[call[y].row.code] = [e |-> call[y].e, pw |-> call[y].row.pw]
  <2>1. call[y].e \in Emails /\ call[y].row \in Compared
    BY <1>2, CallFields
  <2>2. [e |-> call[y].e, pw |-> call[y].row.pw] # None /\ call[y].row.code \in Codes
    BY <2>1, SignupAssumption DEF Mailed, Compared
  <2> QED BY <1>2, <2>2 DEF SignupInv, CallsMailed, MadeFor
<1>3. CallsMailed'
  BY <1>1, <1>2 DEF CallsMailed, MadeFor, Compares
<1> QED BY <1>1, <1>3 DEF SlugsInRange, SignupInv

LEMMA IdleCall == Idle \in Call /\ ~Compares(Idle) /\ Idle.pc # "create"
BY DEF Idle, Call, Compares

LEMMA SignupInvInit == SignupInit => SignupInv
BY SignupAssumption, IdleCall
   DEF SignupInit, SignupInv, SignupTypeOK, CodesInOrder, RowsMailed, CallsMailed,
       SlugsInRange, Compares, Idle, Codes

(* A step that mails nothing and moves one call at most.                   *)
LEMMA QuietStep ==
    ASSUME SignupInv, codes' = codes, madeFor' = madeFor,
           pending' \in [Emails -> Pending \cup {None}],
           account' \in [Emails -> Account \cup {None}],
           \A e \in Emails : pending'[e] # None =>
               /\ pending[e] # None
               /\ pending'[e].code = pending[e].code /\ pending'[e].pw = pending[e].pw,
           call' \in [Calls -> Call] /\ CallsMailed' /\ SlugsInRange'
    PROVE  SignupInv'
<1>1. RowsMailed'
  BY DEF SignupInv, RowsMailed, MadeFor
<1>2. CodesInOrder'
  BY DEF SignupInv, CodesInOrder
<1> QED BY <1>1, <1>2 DEF SignupInv, SignupTypeOK

LEMMA SignupInvNext == SignupInv /\ [SignupNext]_vars => SignupInv'
<1> SUFFICES ASSUME SignupInv, [SignupNext]_vars PROVE SignupInv'
  OBVIOUS
<1>0. /\ pending \in [Emails -> Pending \cup {None}]
      /\ account \in [Emails -> Account \cup {None}]
      /\ codes \in 0 .. MaxCodes /\ MaxCodes \in Nat
      /\ CallsMailed /\ SlugsInRange /\ call \in [Calls -> Call]
  BY SignupAssumption DEF SignupInv, SignupTypeOK
<1>1. ASSUME NEW x \in Calls, NEW e \in Emails, NEW pw \in Passwords, StartCheck(x, e, pw)
      PROVE  SignupInv'
  <2> DEFINE c == [pc |-> "start", e |-> e, pw |-> pw]
  <2>1. c \in Call /\ ~Compares(c) /\ c.pc # "create"
    BY DEF Call, Compares
  <2>2. call' \in [Calls -> Call] /\ CallsMailed' /\ SlugsInRange'
    BY <1>1, <2>1, CallMoves DEF StartCheck
  <2> QED BY <1>0, <1>1, <2>2, QuietStep DEF StartCheck
<1>2. ASSUME NEW x \in Calls, NEW e \in Emails, ResendRead(x, e) PROVE SignupInv'
  <2> DEFINE c == [pc |-> "resend", e |-> e]
  <2>1. c \in Call /\ ~Compares(c) /\ c.pc # "create"
    BY DEF Call, Compares
  <2>2. call' \in [Calls -> Call] /\ CallsMailed' /\ SlugsInRange'
    BY <1>2, <2>1, CallMoves DEF ResendRead
  <2> QED BY <1>0, <1>2, <2>2, QuietStep DEF ResendRead
<1>3. ASSUME NEW x \in Calls, NEW e \in Emails, NEW n \in Codes \cup {NoCode},
             VerifyRead(x, e, n)
      PROVE  SignupInv'
  <2> DEFINE drop == [pc |-> "drop", e |-> e]
             miss == [pc |-> "miss", e |-> e]
             match == [pc |-> "match", e |-> e,
                       row |-> [pw |-> pending[e].pw, code |-> pending[e].code]]
  <2>1. /\ drop \in Call /\ ~Compares(drop) /\ drop.pc # "create"
        /\ miss \in Call /\ ~Compares(miss) /\ miss.pc # "create"
    BY DEF Call, Compares
  <2>2. /\ match \in Call /\ match.pc # "create"
        /\ madeFor[match.row.code] = [e |-> match.e, pw |-> match.row.pw]
    BY <1>3, PendingFields DEF VerifyRead, Call, Compared
  <2>3. Goto(x, drop) \/ Goto(x, miss) \/ Goto(x, match)
    BY <1>3 DEF VerifyRead
  <2>4. call' \in [Calls -> Call] /\ CallsMailed' /\ SlugsInRange'
    BY <1>3, <2>1, <2>2, <2>3, CallMoves DEF VerifyRead
  <2> QED BY <1>0, <1>3, <2>4, QuietStep DEF VerifyRead
<1>4. ASSUME NEW x \in Calls, StartUpsert(x) PROVE SignupInv'
  <2> DEFINE r == [pw |-> call[x].pw, code |-> codes + 1, attempts |-> 0,
                   resends |-> 0, expired |-> FALSE, cool |-> TRUE]
  <2>1. call[x].e \in Emails /\ r \in Pending /\ r.code = codes + 1
        /\ StoreCode(call[x].e, r)
    BY <1>0, <1>4, CallFields DEF StartUpsert, StoreCode, At, Pending, Codes
  <2> HIDE DEF r
  <2>2. call' \in [Calls -> Call] /\ CallsMailed' /\ SlugsInRange'
    BY <1>4, <2>1, StoreCodeEffect, IdleCall, CallMoves DEF StartUpsert
  <2> QED
    BY <1>0, <1>4, <2>1, <2>2, StoreCodeEffect DEF StartUpsert, SignupInv, SignupTypeOK
<1>5. ASSUME NEW x \in Calls, ResendUpdate(x) PROVE SignupInv'
  <2>0. call[x].e \in Emails
    BY <1>5, CallFields DEF ResendUpdate, At
  <2>1. CASE pending[call[x].e] = None
    <3>1. call' \in [Calls -> Call] /\ CallsMailed' /\ SlugsInRange'
      BY <1>5, <2>1, IdleCall, CallMoves DEF ResendUpdate
    <3> QED BY <1>0, <1>5, <2>1, <3>1, QuietStep DEF ResendUpdate
  <2>2. CASE pending[call[x].e] # None
    <3> DEFINE r == [pending[call[x].e] EXCEPT !.code = codes + 1, !.attempts = 0,
                        !.resends = @ + 1, !.expired = FALSE, !.cool = TRUE]
    <3>1. r \in Pending /\ r.code = codes + 1 /\ StoreCode(call[x].e, r)
      <4>1. StoreCode(call[x].e, r)
        BY <1>5, <2>2 DEF ResendUpdate
      <4>2. codes + 1 \in Codes
        BY <1>0, <4>1 DEF StoreCode, Codes
      <4>3. pending[call[x].e] \in Pending
        BY <2>0, <2>2, PendingFields
      <4>4. ASSUME NEW p \in Pending
            PROVE  LET q == [p EXCEPT !.code = codes + 1, !.attempts = 0,
                                      !.resends = @ + 1, !.expired = FALSE, !.cool = TRUE]
                   IN  q \in Pending /\ q.code = codes + 1
        <5>1. p.resends + 1 \in Nat /\ 0 \in Nat
          BY DEF Pending
        <5> QED BY <4>2, <5>1 DEF Pending
      <4> QED BY <4>1, <4>3, <4>4
    <3> HIDE DEF r
    <3>2. call' \in [Calls -> Call] /\ CallsMailed' /\ SlugsInRange'
      BY <1>5, <2>0, <3>1, StoreCodeEffect, IdleCall, CallMoves DEF ResendUpdate
    <3> QED
      BY <1>0, <1>5, <2>0, <3>1, <3>2, StoreCodeEffect
         DEF ResendUpdate, SignupInv, SignupTypeOK
  <2> QED BY <2>1, <2>2
<1>6. ASSUME NEW x \in Calls, Drop(x) \/ Miss(x) \/ CreateAccount(x) PROVE SignupInv'
  <2>1. call' \in [Calls -> Call] /\ CallsMailed' /\ SlugsInRange'
    BY <1>6, IdleCall, CallMoves DEF Drop, Miss, CreateAccount
  <2>2. call[x].e \in Emails
    BY <1>6, CallFields DEF Drop, Miss, CreateAccount, At, Compares
  <2>3. /\ pending' \in [Emails -> Pending \cup {None}]
        /\ \A e \in Emails : pending'[e] # None =>
               /\ pending[e] # None
               /\ pending'[e].code = pending[e].code /\ pending'[e].pw = pending[e].pw
    <3>1. CASE Drop(x) \/ CreateAccount(x)
      BY <1>0, <2>2, <3>1 DEF Drop, CreateAccount
    <3>2. CASE Miss(x) /\ pending[call[x].e] # None
      <4>1. /\ [pending[call[x].e] EXCEPT !.attempts = @ + 1] \in Pending
            /\ [pending[call[x].e] EXCEPT !.attempts = @ + 1].code = pending[call[x].e].code
            /\ [pending[call[x].e] EXCEPT !.attempts = @ + 1].pw = pending[call[x].e].pw
        <5>1. pending[call[x].e] \in Pending
          BY <2>2, <3>2, PendingFields
        <5> QED BY <5>1 DEF Pending
      <4>2. pending' = [pending EXCEPT ![call[x].e] =
                           [pending[call[x].e] EXCEPT !.attempts = @ + 1]]
        BY <3>2 DEF Miss, CountMiss
      <4> QED BY <1>0, <2>2, <3>2, <4>1, <4>2
    <3>3. CASE Miss(x) /\ pending[call[x].e] = None
      BY <1>0, <3>3 DEF Miss
    <3> QED BY <1>6, <3>1, <3>2, <3>3
  <2>4. account' \in [Emails -> Account \cup {None}]
    <3>1. CASE CreateAccount(x)
      <4>1. [pw |-> call[x].row.pw, code |-> call[x].row.code, slug |-> call[x].slug]
              \in Account
        BY <3>1, CallFields DEF CreateAccount, At, Compares, Compared, Account
      <4> QED BY <1>0, <2>2, <3>1, <4>1 DEF CreateAccount, PasswordRead
    <3> QED BY <1>0, <1>6, <3>1 DEF Drop, Miss
  <2>5. codes' = codes /\ madeFor' = madeFor
    BY <1>6 DEF Drop, Miss, CreateAccount
  <2> QED BY <2>1, <2>3, <2>4, <2>5, QuietStep
<1>7. ASSUME NEW x \in Calls, MatchCheck(x) PROVE SignupInv'
  <2> DEFINE drop == [pc |-> "drop", e |-> call[x].e]
             slug == [call[x] EXCEPT !.pc = "slug"]
  <2>1. call[x].e \in Emails /\ call[x].row \in Compared /\ Compares(call[x])
    BY <1>7, CallFields DEF MatchCheck, At, Compares
  <2>2. drop \in Call /\ ~Compares(drop) /\ drop.pc # "create"
    BY <2>1 DEF Call, Compares
  <2>3. /\ slug \in Call /\ slug.pc = "slug" /\ slug.e = call[x].e /\ slug.row = call[x].row
    BY <1>7, CallFields DEF MatchCheck, At, Call, Idle
  <2>4. madeFor[slug.row.code] = [e |-> slug.e, pw |-> slug.row.pw]
    BY <1>0, <2>1, <2>3 DEF CallsMailed, MadeFor
  <2>5. Goto(x, drop) \/ Goto(x, slug)
    BY <1>7 DEF MatchCheck
  <2> HIDE DEF drop, slug
  <2>6. call' \in [Calls -> Call] /\ CallsMailed' /\ SlugsInRange'
    BY <1>7, <2>2, <2>3, <2>4, <2>5, CallMoves DEF MatchCheck
  <2> QED BY <1>0, <1>7, <2>6, QuietStep DEF MatchCheck
<1>8. ASSUME NEW x \in Calls, PickSlug(x) PROVE SignupInv'
  <2>1. call[x].e \in Emails /\ call[x].row \in Compared /\ Compares(call[x])
    BY <1>8, CallFields DEF PickSlug, At, Compares
  <2>2. PICK n \in 1 .. Cardinality(Emails) + 1 :
          Goto(x, [pc |-> "create", e |-> call[x].e, row |-> call[x].row, slug |-> n])
    BY <1>8 DEF PickSlug
  <2> DEFINE c == [pc |-> "create", e |-> call[x].e, row |-> call[x].row, slug |-> n]
  <2>3. c \in Call /\ c.slug \in 1 .. Cardinality(Emails) + 1
    BY <2>1 DEF Call
  <2>4. madeFor[c.row.code] = [e |-> c.e, pw |-> c.row.pw]
    BY <1>0, <2>1 DEF CallsMailed, MadeFor
  <2>5. call' \in [Calls -> Call] /\ CallsMailed' /\ SlugsInRange'
    BY <1>8, <2>2, <2>3, <2>4, CallMoves DEF PickSlug
  <2> QED BY <1>0, <1>8, <2>5, QuietStep DEF PickSlug
<1>9. ASSUME NEW e \in Emails, ExpireCode(e) \/ CoolDown(e) PROVE SignupInv'
  <2>1. /\ pending[e] # None
        /\ \/ pending' = [pending EXCEPT ![e] = [pending[e] EXCEPT !.expired = TRUE]]
           \/ pending' = [pending EXCEPT ![e] = [pending[e] EXCEPT !.cool = FALSE]]
    BY <1>9 DEF ExpireCode, CoolDown
  <2>2. /\ [pending[e] EXCEPT !.expired = TRUE] \in Pending
        /\ [pending[e] EXCEPT !.cool = FALSE] \in Pending
    BY <2>1, PendingFields DEF Pending
  <2>3. /\ pending' \in [Emails -> Pending \cup {None}]
        /\ \A d \in Emails : pending'[d] # None =>
               /\ pending[d] # None
               /\ pending'[d].code = pending[d].code /\ pending'[d].pw = pending[d].pw
    <3>1. \A d \in Emails \ {e} : pending'[d] = pending[d]
      BY <1>0, <2>1
    <3>2. pending'[e] \in Pending /\ pending'[e].code = pending[e].code
          /\ pending'[e].pw = pending[e].pw
      BY <1>0, <2>1, <2>2, PendingFields DEF Pending
    <3>3. pending' = [d \in Emails |-> pending'[d]]
      BY <1>0, <2>1
    <3> QED BY <1>0, <2>1, <3>1, <3>2, <3>3
  <2>4. call' = call /\ CallsMailed' /\ SlugsInRange'
    BY <1>0, <1>9 DEF ExpireCode, CoolDown, CallsMailed, MadeFor, SlugsInRange
  <2> QED BY <1>0, <1>9, <2>3, <2>4, QuietStep DEF ExpireCode, CoolDown
<1>10. ASSUME NEW e \in Emails, NEW pw \in Passwords, AcceptInvitation(e, pw)
       PROVE  SignupInv'
  <2>1. [pw |-> pw, code |-> NoCode, slug |-> 0] \in Account
    BY DEF Account
  <2>2. account' \in [Emails -> Account \cup {None}]
    BY <1>0, <1>10, <2>1 DEF AcceptInvitation
  <2>3. call' = call /\ CallsMailed' /\ SlugsInRange'
    BY <1>0, <1>10 DEF AcceptInvitation, CallsMailed, MadeFor, SlugsInRange
  <2> QED BY <1>0, <1>10, <2>2, <2>3, QuietStep DEF AcceptInvitation
<1>11. CASE UNCHANGED vars
  <2>1. call' = call /\ CallsMailed' /\ SlugsInRange'
    BY <1>0, <1>11 DEF vars, CallsMailed, MadeFor, SlugsInRange
  <2> QED BY <1>0, <1>11, <2>1, QuietStep DEF vars
<1> QED
  BY <1>1, <1>2, <1>3, <1>4, <1>5, <1>6, <1>7, <1>8, <1>9, <1>10, <1>11 DEF SignupNext

LEMMA SignupInvHolds == SignupSpec => []SignupInv
BY SignupInvInit, SignupInvNext, PTL DEF SignupSpec

(* Signing up keeps its tables and calls well formed.                      *)
THEOREM SignupTypeCorrect == SignupSpec => []SignupTypeOK
<1>1. SignupInv => SignupTypeOK
  BY DEF SignupInv
<1> QED BY <1>1, SignupInvHolds, PTL

-----------------------------------------------------------------------------
(* Every step is a step of the registry, or leaves it alone.               *)
LEMMA StoreCodeMails ==
    ASSUME SignupInv, NEW e \in Emails, NEW r \in Pending, r.code = codes + 1,
           StoreCode(e, r), account' = account
    PROVE  Registry!RegistryNext
<1>1. r.code \in Codes /\ r.pw \in Passwords
  BY DEF Pending
<1>2. madeFor[r.code] = None /\ madeFor' = [madeFor EXCEPT ![r.code] = [e |-> e, pw |-> r.pw]]
  BY StoreCodeEffect
<1> QED BY <1>1, <1>2 DEF Registry!RegistryNext, Registry!Mail

LEMMA RegistryStep ==
    ASSUME SignupInv, [SignupNext]_vars
    PROVE  [Registry!RegistryNext]_(Registry!registryVars)
<1>0. ASSUME account' = account, madeFor' = madeFor
      PROVE  [Registry!RegistryNext]_(Registry!registryVars)
  BY <1>0 DEF Registry!registryVars
<1>1. ASSUME NEW x \in Calls, StartUpsert(x) PROVE Registry!RegistryNext
  <2> DEFINE r == [pw |-> call[x].pw, code |-> codes + 1, attempts |-> 0,
                   resends |-> 0, expired |-> FALSE, cool |-> TRUE]
  <2>1. call[x].e \in Emails /\ r \in Pending /\ r.code = codes + 1
        /\ StoreCode(call[x].e, r)
    BY <1>1, CallFields, SignupAssumption
       DEF StartUpsert, StoreCode, At, Pending, Codes, SignupInv, SignupTypeOK
  <2> HIDE DEF r
  <2> QED BY <1>1, <2>1, StoreCodeMails DEF StartUpsert
<1>2. ASSUME NEW x \in Calls, ResendUpdate(x)
      PROVE  [Registry!RegistryNext]_(Registry!registryVars)
  <2>1. CASE pending[call[x].e] = None
    BY <1>0, <1>2, <2>1 DEF ResendUpdate
  <2>2. CASE pending[call[x].e] # None
    <3> DEFINE r == [pending[call[x].e] EXCEPT !.code = codes + 1, !.attempts = 0,
                        !.resends = @ + 1, !.expired = FALSE, !.cool = TRUE]
    <3>1. call[x].e \in Emails /\ pending[call[x].e] \in Pending
      BY <1>2, <2>2, CallFields, PendingFields DEF ResendUpdate, At
    <3>2. StoreCode(call[x].e, r)
      BY <1>2, <2>2 DEF ResendUpdate
    <3>3. codes + 1 \in Codes
      BY <3>2, SignupAssumption DEF StoreCode, Codes, SignupInv, SignupTypeOK
    <3>4. pending[call[x].e].resends + 1 \in Nat /\ 0 \in Nat
      BY <3>1 DEF Pending
    <3>5. r \in Pending /\ r.code = codes + 1
      BY <3>1, <3>3, <3>4 DEF Pending
    <3> HIDE DEF r
    <3> QED BY <1>2, <3>1, <3>2, <3>5, StoreCodeMails DEF ResendUpdate
  <2> QED BY <2>1, <2>2
<1>3. ASSUME NEW x \in Calls, CreateAccount(x)
      PROVE  [Registry!RegistryNext]_(Registry!registryVars)
  <2> DEFINE e == call[x].e
             a == [pw |-> call[x].row.pw, code |-> call[x].row.code, slug |-> call[x].slug]
  <2>1. /\ e \in Emails /\ call[x].row.code \in Codes /\ call[x].row.pw \in Passwords
        /\ call[x].slug \in 1 .. Cardinality(Emails) + 1
        /\ madeFor[call[x].row.code] = [e |-> e, pw |-> call[x].row.pw]
    BY <1>3, CallFields
       DEF CreateAccount, At, Compares, Compared, SignupInv, SlugsInRange, CallsMailed, MadeFor
  <2>2. CASE account[e] = None /\ SlugFree(call[x].slug) /\ pending[e] # None
    <3>1. account' = [account EXCEPT ![e] = a] /\ madeFor' = madeFor
      BY <1>3, <2>2 DEF CreateAccount, PasswordRead
    <3>2. ~Registry!SlugTaken(call[x].slug)
      BY <2>2 DEF SlugFree, SlugsUsed, Registry!SlugTaken
    <3>3. /\ madeFor[call[x].row.code] # None
          /\ madeFor[call[x].row.code].e = e
          /\ madeFor[call[x].row.code].pw = call[x].row.pw
      BY <2>1, SignupAssumption DEF Mailed
    <3>4. Registry!Register(e, call[x].row.code)
      <4>1. Registry!Add(e, [pw |-> madeFor[call[x].row.code].pw,
                             code |-> call[x].row.code, slug |-> call[x].slug])
        BY <3>1, <3>3 DEF Registry!Add
      <4> QED BY <2>1, <3>2, <3>3, <4>1 DEF Registry!Register
    <3> QED BY <2>1, <2>2, <3>1, <3>4 DEF Registry!RegistryNext, Registry!NewAccount
  <2>3. CASE ~(account[e] = None /\ SlugFree(call[x].slug) /\ pending[e] # None)
    BY <1>0, <1>3, <2>3 DEF CreateAccount
  <2> QED BY <2>2, <2>3
<1>4. ASSUME NEW e \in Emails, NEW pw \in Passwords, AcceptInvitation(e, pw)
      PROVE  Registry!RegistryNext
  BY <1>4 DEF AcceptInvitation, Registry!RegistryNext, Registry!NewAccount, Registry!Invite,
       Registry!Add
<1>5. CASE \/ \E x \in Calls, e \in Emails :
                 \/ \E pw \in Passwords : StartCheck(x, e, pw)
                 \/ ResendRead(x, e)
                 \/ \E n \in Codes \cup {NoCode} : VerifyRead(x, e, n)
           \/ \E x \in Calls : Drop(x) \/ Miss(x) \/ MatchCheck(x) \/ PickSlug(x)
           \/ \E e \in Emails : ExpireCode(e) \/ CoolDown(e)
           \/ UNCHANGED vars
  BY <1>0, <1>5 DEF StartCheck, ResendRead, VerifyRead, Drop, Miss, MatchCheck, PickSlug,
       ExpireCode, CoolDown, vars
<1> QED
  BY <1>1, <1>2, <1>3, <1>4, <1>5 DEF SignupNext

(* However requests for any number of addresses overlap, signing up is     *)
(* one step: an account comes from a code that was mailed to its address,  *)
(* with the password and a slug of its own, once and for all.              *)
THEOREM SignupKeepsRegistry == SignupSpec => KeepsRegistry
<1>1. SignupInit => Registry!RegistryInit
  BY DEF SignupInit, Registry!RegistryInit
<1> QED
  BY <1>1, RegistryStep, SignupInvHolds, PTL
     DEF SignupSpec, KeepsRegistry, Registry!RegistrySpec

-----------------------------------------------------------------------------
(* The counters are compared when a row is read and written later.  What   *)
(* bounds them is the value plus the calls of the address that have passed *)
(* the comparison and have not written yet: a call that passes it moves    *)
(* one unit into the second, its write moves it into the first, and a new  *)
(* code sets the value to 0 while the call that stores it counts nothing.  *)
Doing(pc, e) == {x \in Calls : call[x] = [pc |-> pc, e |-> e]}

LimitInv ==
    \A e \in Emails :
        pending[e] # None =>
            /\ pending[e].attempts + Cardinality(Doing("miss", e))
                 < MAX_OTP_ATTEMPTS + Cardinality(Calls)
            /\ pending[e].resends + Cardinality(Doing("resend", e))
                 < MAX_RESENDS + Cardinality(Calls)

LEMMA DoingBounded ==
    ASSUME NEW pc, NEW e
    PROVE  /\ IsFiniteSet(Doing(pc, e))
           /\ Cardinality(Doing(pc, e)) \in Nat /\ Cardinality(Calls) \in Nat
           /\ Cardinality(Doing(pc, e)) <= Cardinality(Calls)
           /\ Doing(pc, e) # Calls => Cardinality(Doing(pc, e)) < Cardinality(Calls)
<1>1. Doing(pc, e) \in SUBSET Calls /\ IsFiniteSet(Calls)
  BY SignupAssumption DEF Doing
<1>2. /\ IsFiniteSet(Doing(pc, e)) /\ Cardinality(Doing(pc, e)) <= Cardinality(Calls)
      /\ Cardinality(Calls) = Cardinality(Doing(pc, e)) => Calls = Doing(pc, e)
  BY <1>1, FS_Subset
<1>3. Cardinality(Doing(pc, e)) \in Nat /\ Cardinality(Calls) \in Nat
  BY <1>1, <1>2, FS_CardinalityType
<1> QED BY <1>2, <1>3

LEMMA DoingMoves ==
    ASSUME SignupInv, NEW x \in Calls, NEW c, Goto(x, c), NEW pc, NEW e
    PROVE  /\ c # [pc |-> pc, e |-> e] =>
                  /\ Cardinality(Doing(pc, e)') <= Cardinality(Doing(pc, e))
                  /\ x \in Doing(pc, e) =>
                        Cardinality(Doing(pc, e)') = Cardinality(Doing(pc, e)) - 1
           /\ Cardinality(Doing(pc, e)') \in Nat
           /\ Cardinality(Doing(pc, e)') <= Cardinality(Calls)
<1>1. call'[x] = c /\ \A y \in Calls \ {x} : call'[y] = call[y]
  BY DEF Goto, SignupInv, SignupTypeOK
<1>2. Doing(pc, e)' \in SUBSET Calls /\ IsFiniteSet(Calls)
  BY SignupAssumption DEF Doing
<1>3. /\ IsFiniteSet(Doing(pc, e)') /\ Cardinality(Doing(pc, e)') <= Cardinality(Calls)
      /\ Cardinality(Doing(pc, e)') \in Nat
  BY <1>2, FS_Subset, FS_CardinalityType
<1>4. ASSUME c # [pc |-> pc, e |-> e]
      PROVE  /\ Cardinality(Doing(pc, e)') <= Cardinality(Doing(pc, e))
             /\ x \in Doing(pc, e) =>
                   Cardinality(Doing(pc, e)') = Cardinality(Doing(pc, e)) - 1
  <2>1. Doing(pc, e)' = Doing(pc, e) \ {x}
    BY <1>1, <1>4 DEF Doing
  <2>2. /\ Cardinality(Doing(pc, e) \ {x}) = IF x \in Doing(pc, e)
                                              THEN Cardinality(Doing(pc, e)) - 1
                                              ELSE Cardinality(Doing(pc, e))
        /\ Cardinality(Doing(pc, e)) \in Nat
    BY DoingBounded, FS_RemoveElement
  <2> QED BY <2>1, <2>2
<1> QED BY <1>3, <1>4

(* A call that counts nothing afterwards, and rows with the old counters.  *)
LEMMA LimitStays ==
    ASSUME SignupInv, LimitInv, NEW x \in Calls, NEW c, Goto(x, c),
           c.pc \notin {"miss", "resend"},
           \A e \in Emails : pending'[e] # None =>
               /\ pending[e] # None
               /\ pending'[e].attempts = pending[e].attempts
               /\ pending'[e].resends = pending[e].resends
    PROVE  LimitInv'
<1> SUFFICES ASSUME NEW e \in Emails, pending'[e] # None
             PROVE  /\ pending[e].attempts + Cardinality(Doing("miss", e)')
                          < MAX_OTP_ATTEMPTS + Cardinality(Calls)
                    /\ pending[e].resends + Cardinality(Doing("resend", e)')
                          < MAX_RESENDS + Cardinality(Calls)
  BY DEF LimitInv
<1>1. c # [pc |-> "miss", e |-> e] /\ c # [pc |-> "resend", e |-> e]
  OBVIOUS
<1>2. /\ Cardinality(Doing("miss", e)') <= Cardinality(Doing("miss", e))
      /\ Cardinality(Doing("resend", e)') <= Cardinality(Doing("resend", e))
      /\ Cardinality(Doing("miss", e)') \in Nat /\ Cardinality(Doing("resend", e)') \in Nat
  BY <1>1, DoingMoves
<1>3. pending[e].attempts \in Nat /\ pending[e].resends \in Nat
  BY PendingFields
<1> QED BY <1>2, <1>3, DoingBounded, SignupAssumption DEF LimitInv

LEMMA LimitInvNext == SignupInv /\ LimitInv /\ [SignupNext]_vars => LimitInv'
<1> SUFFICES ASSUME SignupInv, LimitInv, [SignupNext]_vars PROVE LimitInv'
  OBVIOUS
<1>0. /\ pending \in [Emails -> Pending \cup {None}] /\ call \in [Calls -> Call]
      /\ MAX_OTP_ATTEMPTS \in Nat /\ MAX_RESENDS \in Nat
      /\ Idle.pc = "idle"
  BY SignupAssumption DEF SignupInv, SignupTypeOK, Idle
<1>1. ASSUME NEW x \in Calls, NEW e \in Emails, NEW pw \in Passwords, StartCheck(x, e, pw)
      PROVE  LimitInv'
  BY <1>1, LimitStays DEF StartCheck
<1>2. ASSUME NEW x \in Calls, NEW e \in Emails, ResendRead(x, e) PROVE LimitInv'
  <2> DEFINE c == [pc |-> "resend", e |-> e]
  <2> SUFFICES ASSUME NEW d \in Emails, pending[d] # None
               PROVE  /\ pending[d].attempts + Cardinality(Doing("miss", d)')
                            < MAX_OTP_ATTEMPTS + Cardinality(Calls)
                      /\ pending[d].resends + Cardinality(Doing("resend", d)')
                            < MAX_RESENDS + Cardinality(Calls)
    BY <1>2 DEF LimitInv, ResendRead
  <2>1. pending[d].attempts \in Nat /\ pending[d].resends \in Nat
    BY PendingFields
  <2>2. /\ Cardinality(Doing("miss", d)') <= Cardinality(Doing("miss", d))
        /\ d # e => Cardinality(Doing("resend", d)') <= Cardinality(Doing("resend", d))
        /\ Cardinality(Doing("miss", d)') \in Nat
        /\ Cardinality(Doing("resend", d)') \in Nat
        /\ Cardinality(Doing("resend", d)') <= Cardinality(Calls)
    <3>1. c # [pc |-> "miss", e |-> d] /\ (d # e => c # [pc |-> "resend", e |-> d])
      OBVIOUS
    <3> QED BY <1>2, <3>1, DoingMoves DEF ResendRead
  <2>3. d = e => pending[d].resends < MAX_RESENDS
    BY <1>2 DEF ResendRead
  <2> QED BY <1>0, <2>1, <2>2, <2>3, DoingBounded DEF LimitInv
<1>3. ASSUME NEW x \in Calls, NEW e \in Emails, NEW n \in Codes \cup {NoCode},
             VerifyRead(x, e, n)
      PROVE  LimitInv'
  <2> DEFINE c == [pc |-> "miss", e |-> e]
             drop == [pc |-> "drop", e |-> e]
             match == [pc |-> "match", e |-> e,
                       row |-> [pw |-> pending[e].pw, code |-> pending[e].code]]
  <2>1. CASE Goto(x, drop) \/ Goto(x, match)
    BY <1>3, <2>1, LimitStays DEF VerifyRead
  <2>2. CASE Goto(x, c) /\ ~UsedUp(pending[e])
    <3> SUFFICES ASSUME NEW d \in Emails, pending[d] # None
                 PROVE  /\ pending[d].attempts + Cardinality(Doing("miss", d)')
                              < MAX_OTP_ATTEMPTS + Cardinality(Calls)
                        /\ pending[d].resends + Cardinality(Doing("resend", d)')
                              < MAX_RESENDS + Cardinality(Calls)
      BY <1>3 DEF LimitInv, VerifyRead
    <3>1. pending[d].attempts \in Nat /\ pending[d].resends \in Nat
      BY PendingFields
    <3>2. /\ Cardinality(Doing("resend", d)') <= Cardinality(Doing("resend", d))
          /\ d # e => Cardinality(Doing("miss", d)') <= Cardinality(Doing("miss", d))
          /\ Cardinality(Doing("miss", d)') \in Nat
          /\ Cardinality(Doing("resend", d)') \in Nat
          /\ Cardinality(Doing("miss", d)') <= Cardinality(Calls)
      <4>1. c # [pc |-> "resend", e |-> d] /\ (d # e => c # [pc |-> "miss", e |-> d])
        OBVIOUS
      <4> QED BY <2>2, <4>1, DoingMoves
    <3>3. d = e => pending[d].attempts < MAX_OTP_ATTEMPTS
      BY <1>0, <2>2, <3>1 DEF UsedUp
    <3> QED BY <1>0, <3>1, <3>2, <3>3, DoingBounded DEF LimitInv
  <2> QED BY <1>3, <2>1, <2>2 DEF VerifyRead
(* The call that stores a new code is not one that counts.                 *)
<1>4. ASSUME NEW x \in Calls, NEW e \in Emails, NEW r \in Nat, ~At(x, "miss"),
             Goto(x, Idle), pending' = [pending EXCEPT ![e] = pending'[e]],
             pending'[e].attempts = 0, pending'[e].resends = r,
             r + Cardinality(Doing("resend", e)') < MAX_RESENDS + Cardinality(Calls)
      PROVE  LimitInv'
  <2> SUFFICES ASSUME NEW d \in Emails, pending'[d] # None
               PROVE  /\ pending'[d].attempts + Cardinality(Doing("miss", d)')
                            < MAX_OTP_ATTEMPTS + Cardinality(Calls)
                      /\ pending'[d].resends + Cardinality(Doing("resend", d)')
                            < MAX_RESENDS + Cardinality(Calls)
    BY DEF LimitInv
  <2>1. /\ Cardinality(Doing("miss", d)') <= Cardinality(Doing("miss", d))
        /\ Cardinality(Doing("resend", d)') <= Cardinality(Doing("resend", d))
        /\ Cardinality(Doing("miss", d)') \in Nat
        /\ Cardinality(Doing("resend", d)') \in Nat
    <3>1. Idle # [pc |-> "miss", e |-> d] /\ Idle # [pc |-> "resend", e |-> d]
      BY <1>0
    <3> QED BY <1>4, <3>1, DoingMoves
  <2>2. CASE d = e
    <3>1. Doing("miss", e) # Calls
      BY <1>4 DEF Doing, At
    <3> QED BY <1>0, <1>4, <2>1, <2>2, <3>1, DoingBounded
  <2>3. CASE d # e
    <3>1. pending'[d] = pending[d]
      BY <1>0, <1>4, <2>3
    <3>2. pending[d].attempts \in Nat /\ pending[d].resends \in Nat
      BY <3>1, PendingFields
    <3> QED BY <1>0, <2>1, <3>1, <3>2, DoingBounded DEF LimitInv
  <2> QED BY <2>2, <2>3
<1>5. ASSUME NEW x \in Calls, StartUpsert(x) PROVE LimitInv'
  <2> DEFINE r == [pw |-> call[x].pw, code |-> codes + 1, attempts |-> 0,
                   resends |-> 0, expired |-> FALSE, cool |-> TRUE]
  <2>1. PICK e \in Emails : e = call[x].e
    BY <1>5, CallFields DEF StartUpsert, At
  <2>2. At(x, "start") /\ Goto(x, Idle) /\ pending' = [pending EXCEPT ![e] = r]
    BY <1>5, <2>1 DEF StartUpsert, StoreCode
  <2>3. Cardinality(Doing("resend", e)') \in Nat
        /\ Cardinality(Doing("resend", e)') < Cardinality(Calls)
    <3>1. Doing("resend", e) # Calls
      BY <2>2 DEF Doing, At
    <3>2. Idle # [pc |-> "resend", e |-> e]
      BY <1>0
    <3> HIDE DEF r
    <3>3. /\ Cardinality(Doing("resend", e)') <= Cardinality(Doing("resend", e))
          /\ Cardinality(Doing("resend", e)') \in Nat
      BY <2>2, <3>2, DoingMoves
    <3> QED BY <3>1, <3>3, DoingBounded
  <2>4. pending'[e] = r /\ r.attempts = 0 /\ r.resends = 0
    BY <1>0, <2>2
  <2> HIDE DEF r
  <2>5. pending' = [pending EXCEPT ![e] = pending'[e]] /\ ~At(x, "miss")
    BY <2>2, <2>4 DEF At
  <2>6. 0 + Cardinality(Doing("resend", e)') < MAX_RESENDS + Cardinality(Calls)
    BY <1>0, <2>3, DoingBounded
  <2> QED BY <1>4, <2>2, <2>4, <2>5, <2>6
<1>6. ASSUME NEW x \in Calls, ResendUpdate(x) PROVE LimitInv'
  <2>3. PICK e \in Emails : e = call[x].e
    BY <1>6, CallFields DEF ResendUpdate, At
  <2>0. At(x, "resend") /\ Goto(x, Idle) /\ call[x] = [pc |-> "resend", e |-> e]
    BY <1>0, <1>6, <2>3, CallFields DEF ResendUpdate, At, Call, Idle
  <2>1. CASE pending[e] = None
    BY <1>0, <1>6, <2>3, <2>0, <2>1, LimitStays DEF ResendUpdate
  <2>2. CASE pending[e] # None
    <3> DEFINE r == [pending[e] EXCEPT !.code = codes + 1, !.attempts = 0,
                        !.resends = @ + 1, !.expired = FALSE, !.cool = TRUE]
    <3>1. pending' = [pending EXCEPT ![e] = r]
      BY <1>6, <2>3, <2>2 DEF ResendUpdate, StoreCode
    <3>2. pending[e] \in Pending /\ pending[e].resends \in Nat
      BY <2>0, <2>2, PendingFields
    <3>3. r.attempts = 0 /\ r.resends = pending[e].resends + 1
      BY <3>2 DEF Pending
    <3> HIDE DEF r
    <3>4. Cardinality(Doing("resend", e)') = Cardinality(Doing("resend", e)) - 1
      <4>1. x \in Doing("resend", e) /\ Idle # [pc |-> "resend", e |-> e]
        BY <1>0, <2>0 DEF Doing
      <4> QED BY <2>0, <4>1, DoingMoves
    <3>5. /\ pending[e].resends + 1 + Cardinality(Doing("resend", e)')
               < MAX_RESENDS + Cardinality(Calls)
          /\ pending[e].resends + 1 \in Nat
      BY <1>0, <2>2, <3>2, <3>4, DoingBounded DEF LimitInv
    <3>6. /\ pending' = [pending EXCEPT ![e] = pending'[e]] /\ ~At(x, "miss")
          /\ pending'[e].attempts = 0 /\ pending'[e].resends = pending[e].resends + 1
      BY <1>0, <2>0, <3>1, <3>3 DEF At
    <3> QED BY <1>4, <2>0, <3>5, <3>6
  <2> QED BY <2>1, <2>2
<1>7. ASSUME NEW x \in Calls, Miss(x) PROVE LimitInv'
  <2> DEFINE e == call[x].e
  <2>0. /\ e \in Emails /\ At(x, "miss") /\ Goto(x, Idle)
        /\ call[x] = [pc |-> "miss", e |-> e]
    BY <1>0, <1>7, CallFields DEF Miss, At, Call, Idle
  <2>1. CASE pending[e] = None
    BY <1>0, <1>7, <2>0, <2>1, LimitStays DEF Miss
  <2>2. CASE pending[e] # None
    <3>1. pending' = [pending EXCEPT ![e] = [pending[e] EXCEPT !.attempts = @ + 1]]
      BY <1>7, <2>2 DEF Miss, CountMiss
    <3> SUFFICES ASSUME NEW d \in Emails, pending'[d] # None
                 PROVE  /\ pending'[d].attempts + Cardinality(Doing("miss", d)')
                              < MAX_OTP_ATTEMPTS + Cardinality(Calls)
                        /\ pending'[d].resends + Cardinality(Doing("resend", d)')
                              < MAX_RESENDS + Cardinality(Calls)
      BY DEF LimitInv
    <3>2. pending[e] \in Pending
      BY <2>0, <2>2, PendingFields
    <3>3. /\ pending[d] # None /\ pending'[d].resends = pending[d].resends
          /\ pending'[d].attempts = IF d = e THEN pending[d].attempts + 1
                                             ELSE pending[d].attempts
      BY <1>0, <2>0, <2>2, <3>1, <3>2 DEF Pending
    <3>4. pending[d].attempts \in Nat /\ pending[d].resends \in Nat
      BY <3>3, PendingFields
    <3>5. /\ Cardinality(Doing("resend", d)') <= Cardinality(Doing("resend", d))
          /\ Cardinality(Doing("miss", d)') <= Cardinality(Doing("miss", d))
          /\ d = e => Cardinality(Doing("miss", d)') = Cardinality(Doing("miss", d)) - 1
          /\ Cardinality(Doing("miss", d)') \in Nat
          /\ Cardinality(Doing("resend", d)') \in Nat
      <4>1. Idle # [pc |-> "resend", e |-> d] /\ Idle # [pc |-> "miss", e |-> d]
        BY <1>0
      <4>2. x \in Doing("miss", e)
        BY <2>0 DEF Doing
      <4> QED BY <2>0, <4>1, <4>2, DoingMoves
    <3> QED BY <1>0, <3>3, <3>4, <3>5, DoingBounded DEF LimitInv
  <2> QED BY <2>1, <2>2
<1>8. ASSUME NEW x \in Calls, Drop(x) \/ CreateAccount(x) PROVE LimitInv'
  <2>1. Goto(x, Idle) /\ call[x].e \in Emails
    BY <1>8, CallFields DEF Drop, CreateAccount, At, Compares
  <2>2. \A e \in Emails : pending'[e] \in {pending[e], None}
    BY <1>0, <1>8, <2>1 DEF Drop, CreateAccount
  <2> QED BY <1>0, <2>1, <2>2, LimitStays
<1>9. ASSUME NEW x \in Calls, MatchCheck(x) \/ PickSlug(x) PROVE LimitInv'
  <2>1. pending' = pending
    BY <1>9 DEF MatchCheck, PickSlug
  <2>2. CASE MatchCheck(x)
    <3> DEFINE drop == [pc |-> "drop", e |-> call[x].e]
               slug == [call[x] EXCEPT !.pc = "slug"]
    <3>1. drop.pc = "drop" /\ slug.pc = "slug"
      BY <2>2, CallFields DEF MatchCheck, At, Call, Idle
    <3>2. Goto(x, drop) \/ Goto(x, slug)
      BY <2>2 DEF MatchCheck
    <3> HIDE DEF drop, slug
    <3> QED BY <2>1, <3>1, <3>2, LimitStays
  <2>3. CASE PickSlug(x)
    BY <2>1, <2>3, LimitStays DEF PickSlug
  <2> QED BY <1>9, <2>2, <2>3
<1>10. ASSUME call' = call,
              \A e \in Emails : pending'[e] # None =>
                  /\ pending[e] # None
                  /\ pending'[e].attempts = pending[e].attempts
                  /\ pending'[e].resends = pending[e].resends
       PROVE  LimitInv'
  BY <1>10 DEF LimitInv, Doing
<1>11. ASSUME NEW e \in Emails, ExpireCode(e) \/ CoolDown(e) PROVE LimitInv'
  <2>1. pending[e] # None /\ pending[e] \in Pending
    BY <1>11, PendingFields DEF ExpireCode, CoolDown
  <2>2. \A d \in Emails \ {e} : pending'[d] = pending[d]
    BY <1>0, <1>11 DEF ExpireCode, CoolDown
  <2>3. /\ pending'[e].attempts = pending[e].attempts
        /\ pending'[e].resends = pending[e].resends
    BY <1>0, <1>11, <2>1 DEF ExpireCode, CoolDown, Pending
  <2> QED BY <1>10, <1>11, <2>1, <2>2, <2>3 DEF ExpireCode, CoolDown
<1>12. CASE UNCHANGED vars \/ \E e \in Emails, pw \in Passwords : AcceptInvitation(e, pw)
  BY <1>10, <1>12 DEF vars, AcceptInvitation
<1> QED
  BY <1>1, <1>2, <1>3, <1>5, <1>6, <1>7, <1>8, <1>9, <1>11, <1>12 DEF SignupNext

(* LimitsOvershoot: however many calls check a counter before one of them  *)
(* writes it, it passes its limit by less than the calls that can overlap. *)
THEOREM LimitsHold == SignupSpec => []LimitsOvershoot
<1>1. SignupInit => LimitInv
  BY DEF SignupInit, LimitInv
<1>2. SignupInv /\ LimitInv => LimitsOvershoot
  <2> SUFFICES ASSUME SignupInv, LimitInv, NEW e \in Emails, pending[e] # None
               PROVE  /\ pending[e].attempts < MAX_OTP_ATTEMPTS + Cardinality(Calls)
                      /\ pending[e].resends < MAX_RESENDS + Cardinality(Calls)
    BY DEF LimitsOvershoot
  <2>1. pending[e].attempts \in Nat /\ pending[e].resends \in Nat
    BY PendingFields
  <2> QED BY <2>1, DoingBounded, SignupAssumption DEF LimitInv
<1> QED BY <1>1, <1>2, LimitInvNext, SignupInvHolds, PTL DEF SignupSpec

-----------------------------------------------------------------------------
(* RowNotLost: the row of a signup goes with the account that is made, or  *)
(* by a call that is told to drop it; no other step of any call, nor a     *)
(* transaction that is rolled back, takes it away.                         *)
THEOREM RowsAreKept == SignupSpec => RowNotLost
<1>1. ASSUME SignupInv, [SignupNext]_vars, NEW e \in Emails,
             pending[e] # None, pending'[e] = None
      PROVE  \/ account'[e] # account[e]
             \/ \E x \in Calls : call[x] = [pc |-> "drop", e |-> e] /\ call'[x] = Idle
  <2>0. /\ pending \in [Emails -> Pending \cup {None}] /\ call \in [Calls -> Call]
        /\ account \in [Emails -> Account \cup {None}]
    BY <1>1 DEF SignupInv, SignupTypeOK
  <2>1. ASSUME NEW x \in Calls, Drop(x) PROVE call[x] = [pc |-> "drop", e |-> e] /\ call'[x] = Idle
    <3>1. call[x].e \in Emails /\ call[x] = [pc |-> "drop", e |-> call[x].e]
      BY <1>1, <2>0, <2>1, CallFields DEF Drop, At, Call, Idle
    <3>2. call[x].e = e
      BY <1>1, <2>0, <2>1, <3>1 DEF Drop
    <3> QED BY <2>0, <2>1, <3>1, <3>2 DEF Drop, Goto
  <2>2. ASSUME NEW x \in Calls, CreateAccount(x) PROVE account'[e] # account[e]
    <3> DEFINE a == [pw |-> call[x].row.pw, code |-> call[x].row.code, slug |-> call[x].slug]
    <3>1. a \in Account /\ call[x].e \in Emails
      BY <1>1, <2>2, CallFields DEF CreateAccount, At, Compares, Compared, Account
    <3>2. e = call[x].e /\ account[e] = None /\ account' = [account EXCEPT ![e] = a]
      BY <1>1, <2>0, <2>2, <3>1 DEF CreateAccount, PasswordRead
    <3> HIDE DEF a
    <3> QED BY <2>0, <3>1, <3>2, SignupAssumption
  <2>3. ASSUME NEW d \in Emails, NEW r \in Pending, pending' = [pending EXCEPT ![d] = r]
        PROVE  FALSE
    BY <1>1, <2>0, <2>3, SignupAssumption
  <2>4. ASSUME NEW x \in Calls, StartUpsert(x) PROVE FALSE
    <3> DEFINE r == [pw |-> call[x].pw, code |-> codes + 1, attempts |-> 0,
                     resends |-> 0, expired |-> FALSE, cool |-> TRUE]
    <3>1. call[x].e \in Emails /\ r \in Pending /\ StoreCode(call[x].e, r)
      BY <1>1, <2>4, CallFields, SignupAssumption
         DEF StartUpsert, StoreCode, At, Pending, Codes, SignupInv, SignupTypeOK
    <3> HIDE DEF r
    <3> QED BY <2>3, <3>1 DEF StoreCode
  <2>5. ASSUME NEW x \in Calls, ResendUpdate(x), pending[call[x].e] # None PROVE FALSE
    <3> DEFINE r == [pending[call[x].e] EXCEPT !.code = codes + 1, !.attempts = 0,
                        !.resends = @ + 1, !.expired = FALSE, !.cool = TRUE]
    <3>1. call[x].e \in Emails /\ pending[call[x].e] \in Pending
      BY <1>1, <2>5, CallFields, PendingFields DEF ResendUpdate, At
    <3>2. StoreCode(call[x].e, r)
      BY <2>5 DEF ResendUpdate
    <3>3. codes + 1 \in Codes /\ pending[call[x].e].resends + 1 \in Nat /\ 0 \in Nat
      BY <1>1, <3>1, <3>2, SignupAssumption
         DEF StoreCode, Codes, Pending, SignupInv, SignupTypeOK
    <3>4. r \in Pending
      BY <3>1, <3>3 DEF Pending
    <3> HIDE DEF r
    <3> QED BY <2>3, <3>1, <3>2, <3>4 DEF StoreCode
  <2>6. ASSUME NEW x \in Calls, Miss(x), pending[call[x].e] # None PROVE FALSE
    <3> DEFINE r == [pending[call[x].e] EXCEPT !.attempts = @ + 1]
    <3>1. call[x].e \in Emails /\ pending[call[x].e] \in Pending
      BY <1>1, <2>6, CallFields, PendingFields DEF Miss, At
    <3>2. pending' = [pending EXCEPT ![call[x].e] = r]
      BY <2>6 DEF Miss, CountMiss
    <3>3. r \in Pending
      BY <3>1 DEF Pending
    <3> HIDE DEF r
    <3> QED BY <2>3, <3>1, <3>2, <3>3
  <2>7. ASSUME NEW d \in Emails, ExpireCode(d) \/ CoolDown(d) PROVE FALSE
    <3>1. /\ pending[d] \in Pending
          /\ \/ pending' = [pending EXCEPT ![d] = [pending[d] EXCEPT !.expired = TRUE]]
             \/ pending' = [pending EXCEPT ![d] = [pending[d] EXCEPT !.cool = FALSE]]
      BY <1>1, <2>7, PendingFields DEF ExpireCode, CoolDown
    <3>2. /\ [pending[d] EXCEPT !.expired = TRUE] \in Pending
          /\ [pending[d] EXCEPT !.cool = FALSE] \in Pending
      BY <3>1 DEF Pending
    <3> QED BY <2>3, <3>1, <3>2
  <2>8. pending' # pending
    BY <1>1
  <2> QED
    BY <1>1, <2>1, <2>2, <2>4, <2>5, <2>6, <2>7, <2>8
       DEF SignupNext, vars, StartCheck, ResendRead, ResendUpdate, VerifyRead, Miss,
           MatchCheck, PickSlug, AcceptInvitation
<1>2. SignupInv /\ [SignupNext]_vars =>
        [\A e \in Emails :
           pending[e] # None /\ pending'[e] = None =>
               \/ account'[e] # account[e]
               \/ \E x \in Calls : call[x] = [pc |-> "drop", e |-> e]
                                   /\ call'[x] = Idle]_vars
  BY <1>1
<1> QED BY <1>2, SignupInvHolds, PTL DEF SignupSpec, RowNotLost
=============================================================================
