------------------------------- MODULE ShopToken ----------------------------
(* ShopifyConnector's access token: granted for client credentials, cached *)
(* for the process, and used for every page of one listing.                *)
(*                                                                         *)
(* Time is in units of the 30 seconds after which the transaction around a *)
(* sync is aborted; a listing that goes on after that writes nothing and   *)
(* is dropped here.                                                        *)
EXTENDS Naturals

CONSTANTS
    Listings,       \* fetchAllItems calls that may run at once
    Lifetimes,      \* values of expires_in
    TokenMargin,    \* the 60 seconds before expiry, in units
    ListingLimit,   \* the transaction's limit, in units
    ShopClock       \* bound: the clock stops here

(* The 60 seconds are twice the 30 of the transaction; a token that Shopify *)
(* grants lives longer than one (24 hours).                                 *)
ASSUME ShopTokenAssumption ==
    /\ ListingLimit \in Nat /\ ShopClock \in Nat
    /\ TokenMargin \in Nat /\ TokenMargin >= 2 * ListingLimit
    /\ Lifetimes \subseteq {t \in Nat : t > ListingLimit}

VARIABLES
    clock,
    cache,          \* tokenCache: when the cached token is taken to expire (0
                    \* without one), and when Shopify lets it expire
    listing,        \* of a listing: its step, when it began, and when the
                    \* token it holds expires
    refused         \* ghost: Shopify has refused a page for an expired token

tokenVars == <<clock, cache, listing, refused>>

NoToken == [until |-> 0, real |-> 0]
NoListing == [step |-> "idle", since |-> 0, expires |-> 0]

(* Types; and no listing outlasts the transaction it is part of.           *)
TokenCacheTypeOK ==
    /\ clock \in 0 .. ShopClock
    /\ cache \in [until : Nat, real : Nat]
    /\ listing \in [Listings -> [step : {"idle", "grant", "page"}, since : 0 .. ShopClock,
                                 expires : Nat]]
    /\ refused \in BOOLEAN
    /\ \A l \in Listings : listing[l].step # "idle" => clock <= listing[l].since + ListingLimit

TokenInit ==
    /\ clock = 0
    /\ cache = NoToken
    /\ listing = [l \in Listings |-> NoListing]
    /\ refused = FALSE

-----------------------------------------------------------------------------
Overdue(l) == listing[l].step # "idle" /\ clock + 1 > listing[l].since + ListingLimit

ClockTick ==
    /\ clock < ShopClock
    /\ clock' = clock + 1
    /\ listing' = [l \in Listings |-> IF Overdue(l) THEN NoListing ELSE listing[l]]
    /\ UNCHANGED <<cache, refused>>

(* resolveAccessToken: the cached token until just before it expires, a    *)
(* new one otherwise.                                                      *)
CacheAlive == clock < cache.until
CacheGood == clock + TokenMargin < cache.until

ListingStart(l) ==
    /\ listing[l].step = "idle"
    /\ listing' = [listing EXCEPT ![l] =
                     IF CacheGood
                     THEN [step |-> "page", since |-> clock, expires |-> cache.real]
                     ELSE [step |-> "grant", since |-> clock, expires |-> 0]]
    /\ UNCHANGED <<clock, cache, refused>>

(* The grant answers.  expires_in counts from when Shopify made the token, *)
(* the cache from when the answer is there; the last answer stays cached.  *)
TokenGranted(l) ==
    /\ listing[l].step = "grant"
    /\ \E t \in Lifetimes, made \in listing[l].since .. clock :
          /\ cache' = [until |-> clock + t, real |-> made + t]
          /\ listing' = [listing EXCEPT ![l].step = "page", ![l].expires = made + t]
    /\ UNCHANGED <<clock, refused>>

(* The grant or a page fails, and the listing with it.                     *)
ListingEnds(l) ==
    /\ listing[l].step # "idle"
    /\ listing' = [listing EXCEPT ![l] = NoListing]
    /\ UNCHANGED <<clock, cache, refused>>

(* The last page is asked for; the pages before it change nothing here,    *)
(* and were asked for earlier with the same token.                         *)
LastPage(l) ==
    /\ listing[l].step = "page"
    /\ listing' = [listing EXCEPT ![l] = NoListing]
    /\ refused' = (refused \/ clock >= listing[l].expires)
    /\ UNCHANGED <<clock, cache>>

TokenNext ==
    \/ ClockTick
    \/ \E l \in Listings :
          ListingStart(l) \/ TokenGranted(l) \/ ListingEnds(l) \/ LastPage(l)

-----------------------------------------------------------------------------
(* Properties                                                              *)

(* "caches the result until just before expiry": no page is refused for an *)
(* expired token, however listings share the cache, if a new token lives   *)
(* longer than a listing may last; the margin covers the cached ones.      *)
TokenOutlivesListing == ~refused
=============================================================================
