--------------------------- MODULE AccountRegistry ---------------------------
(***************************************************************************)
(* What signing up promises, in single steps: a code is mailed to one      *)
(* address with one password behind it, and an account is made once, from  *)
(* a code of its own address and with that password and a slug nobody has, *)
(* or by an invitation.  An account is never changed or taken away.        *)
(***************************************************************************)
EXTENDS Naturals

CONSTANTS Emails, Passwords, Codes, Slugs, NoCode, None

VARIABLES
    accounts,   \* by email; None, or the password, the code and the slug
    mailed      \* by code; None, or the address and the password

registryVars == <<accounts, mailed>>

RegistryInit ==
    /\ accounts = [e \in Emails |-> None]
    /\ mailed = [n \in Codes |-> None]

Mail(n) ==
    /\ mailed[n] = None
    /\ UNCHANGED accounts
    /\ \E e \in Emails, pw \in Passwords :
         mailed' = [mailed EXCEPT ![n] = [e |-> e, pw |-> pw]]

Add(e, a) == accounts' = [accounts EXCEPT ![e] = a]

SlugTaken(slug) == \E d \in Emails : accounts[d] # None /\ accounts[d].slug = slug

Register(e, n) ==
    /\ mailed[n] # None /\ mailed[n].e = e
    /\ \E slug \in Slugs :
         /\ ~SlugTaken(slug)
         /\ Add(e, [pw |-> mailed[n].pw, code |-> n, slug |-> slug])

Invite(e) == \E pw \in Passwords : Add(e, [pw |-> pw, code |-> NoCode, slug |-> 0])

NewAccount(e) ==
    /\ accounts[e] = None
    /\ UNCHANGED mailed
    /\ Invite(e) \/ \E n \in Codes : Register(e, n)

RegistryNext == (\E n \in Codes : Mail(n)) \/ (\E e \in Emails : NewAccount(e))

RegistrySpec == RegistryInit /\ [][RegistryNext]_registryVars
=============================================================================
