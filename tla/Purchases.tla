----------------------------- MODULE Purchases -----------------------------
(***************************************************************************)
(* PaymentsService (src/src/payments/payments.service.ts): accounts of     *)
(* sellers at Stripe, checkouts, and the webhook; and what a purchase      *)
(* opens (censorAndInjectPurchases of PostsService, and its like in        *)
(* StoriesService).                                                        *)
(*                                                                         *)
(* Stripe is modelled by what this code relies on: a session is paid at    *)
(* most once, and its event is delivered, perhaps more than once, until    *)
(* the webhook has answered.                                               *)
(***************************************************************************)
EXTENDS Requests

CONSTANTS
    Priced,        \* the posts and stories with isPremium and a price
    Monetized,     \* users with isMonetizationEnabled, which no code sets
    SeedAccounts   \* [Users -> Accounts \cup {None}]

Items == Posts \cup Stories
Sales == Users \X Items

ASSUME PurchasesAssumption ==
    /\ Priced \subseteq Items /\ Monetized \subseteq Users
    /\ SeedAccounts \in [Users -> Accounts \cup {None}]
    /\ \A u, v \in Users : SeedAccounts[u] = SeedAccounts[v] => u = v \/ SeedAccounts[u] = None

VARIABLES
    stripeAccountId,  \* [Users -> Accounts \cup {None}], the column of the user
    madeFor,          \* [Accounts -> Users \cup {None}], at Stripe
    purchase,         \* [Sales -> the status of the row]
    session,          \* [Calls -> the checkout session that a call made]
    delivered         \* paid sessions whose event was answered

purchaseVars == <<stripeAccountId, madeFor, purchase, session, delivered>>

PurchasesTypeOK ==
    /\ stripeAccountId \in [Users -> Accounts \cup {None}]
    /\ madeFor \in [Accounts -> Users \cup {None}]
    /\ purchase \in [Sales -> {"none", "PENDING", "COMPLETED"}]
    /\ session \in [Calls -> {"none", "open", "paid", "expired"}]
    /\ delivered \subseteq Calls

PurchasesInit ==
    /\ stripeAccountId = SeedAccounts
    /\ madeFor = [a \in Accounts |-> IF \E u \in Users : SeedAccounts[u] = a
                                     THEN CHOOSE u \in Users : SeedAccounts[u] = a ELSE None]
    /\ purchase = [s \in Sales |-> "none"]
    /\ session = [c \in Calls |-> "none"]
    /\ delivered = {}

Sale(c) == <<call[c].user, call[c].on>>
Stays == UNCHANGED <<contentVars, notice>>

----------------------------------------------------------------------------
(* createConnectAccount.                                                   *)
(***************************************************************************)
\* Mutant: the account that the user has is not looked at.
ConnectFind_Always(c) ==
    /\ \E u \in Actors : Begin(c, "connect", u, None, None, {}, 0, "write")
    /\ Stays /\ UNCHANGED purchaseVars
ConnectFind(c) ==
    /\ \E u \in Actors : Begin(c, "connect", u, None, stripeAccountId[u], {}, 0,
                               IF stripeAccountId[u] = None THEN "write" ELSE "link")
    /\ Stays /\ UNCHANGED purchaseVars

ConnectCreate(c) ==
    /\ At(c, "connect", "write")
    /\ \E a \in Accounts :
           /\ madeFor[a] = None
           /\ madeFor' = [madeFor EXCEPT ![a] = call[c].user]
           /\ call' = [call EXCEPT ![c].with = a, ![c].step = "store"]
    /\ Stays /\ UNCHANGED <<stripeAccountId, purchase, session, delivered>>

ConnectStore(c) ==
    /\ At(c, "connect", "store")
    /\ stripeAccountId' = [stripeAccountId EXCEPT ![call[c].user] = call[c].with]
    /\ Goto(c, "link")
    /\ Stays /\ UNCHANGED <<madeFor, purchase, session, delivered>>

ConnectLink(c) ==
    /\ At(c, "connect", "link")
    /\ Goto(c, "ended")
    /\ Stays /\ UNCHANGED purchaseVars

----------------------------------------------------------------------------
(* createCheckoutSession.                                                  *)
(***************************************************************************)
CheckoutFind(c) ==
    /\ \E u \in Actors, x \in Items \cap used :
           Begin(c, "checkout", u, x, None, {}, 0,
                 IF x \in rows \cap Priced THEN "seller" ELSE "refused")
    /\ Stays /\ UNCHANGED purchaseVars

CheckoutSeller(c) ==
    LET seller == owner[call[c].on]
        account == stripeAccountId[seller] IN
    /\ At(c, "checkout", "seller")
    /\ call' = [call EXCEPT ![c].with = account,
           ![c].step = IF account # None /\ seller \in Monetized THEN "write" ELSE "refused"]
    /\ Stays /\ UNCHANGED purchaseVars

\* Mutant: an upsert, so that a checkout can be repeated.
CheckoutCreate_Upsert(c) ==
    /\ At(c, "checkout", "write")
    /\ purchase' = [purchase EXCEPT ![Sale(c)] = "PENDING"]
    /\ Goto(c, "session")
    /\ Stays /\ UNCHANGED <<stripeAccountId, madeFor, session, delivered>>
\* One row for a buyer and an item, for ever: an abandoned one is in the way too.
CheckoutCreate(c) ==
    /\ At(c, "checkout", "write")
    /\ IF purchase[Sale(c)] = "none"
       THEN purchase' = [purchase EXCEPT ![Sale(c)] = "PENDING"] /\ Goto(c, "session")
       ELSE Goto(c, "failed") /\ UNCHANGED purchase
    /\ Stays /\ UNCHANGED <<stripeAccountId, madeFor, session, delivered>>

CheckoutSession(c) ==
    /\ At(c, "checkout", "session")
    /\ session' = [session EXCEPT ![c] = "open"]
    /\ Goto(c, "store")
    /\ Stays /\ UNCHANGED <<stripeAccountId, madeFor, purchase, delivered>>

\* The row is there to be updated with the id of the session.
CheckoutStore(c) ==
    /\ At(c, "checkout", "store")
    /\ Wrote(c, "created", {})
    /\ Stays /\ UNCHANGED purchaseVars

----------------------------------------------------------------------------
(* Stripe and the webhook.                                                 *)
(***************************************************************************)
\* The buyer, who has the address of the session once the call answered, pays;
\* or the session expires, which the webhook ignores.
Pay(c) ==
    /\ session[c] = "open" /\ call[c].step = "ended"
    /\ session' = [session EXCEPT ![c] = "paid"]
    /\ UNCHANGED <<requestVars, stripeAccountId, madeFor, purchase, delivered>>
SessionExpires(c) ==
    /\ session[c] = "open"
    /\ session' = [session EXCEPT ![c] = "expired"]
    /\ UNCHANGED <<requestVars, stripeAccountId, madeFor, purchase, delivered>>

\* By the id of the purchase, which the session carries.
HandleWebhook(c) ==
    /\ session[c] = "paid"
    /\ purchase' = [purchase EXCEPT ![Sale(c)] = "COMPLETED"]
    /\ delivered' = delivered \cup {c}
    /\ UNCHANGED <<requestVars, stripeAccountId, madeFor, session>>

----------------------------------------------------------------------------
(* What a reader is shown: the media of a post or of a story.              *)
(***************************************************************************)
IsPurchased(u, x) == purchase[<<u, x>>] = "COMPLETED"
Uncensored(u, x) == x \in Priced => owner[x] = u \/ IsPurchased(u, x)

----------------------------------------------------------------------------
PurchasesStep(c) ==
    \/ ConnectFind(c) \/ ConnectCreate(c) \/ ConnectStore(c) \/ ConnectLink(c)
    \/ CheckoutFind(c) \/ CheckoutSeller(c) \/ CheckoutCreate(c) \/ CheckoutSession(c)
    \/ CheckoutStore(c)
    \/ Pay(c) \/ SessionExpires(c) \/ HandleWebhook(c)

=============================================================================
