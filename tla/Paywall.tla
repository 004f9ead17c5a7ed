------------------------------ MODULE Paywall -------------------------------
(***************************************************************************)
(* HTTP 402: the single-threaded seller of src/src/paywall.rs and the      *)
(* buyers of src/src/fetch.rs.  A buyer is one run of `cm fetch'; its      *)
(* payment transaction has its name.  A txid is public, and the X-Payment  *)
(* header is text: any other client may present it, in lower or in upper   *)
(* case hex.  The seller's set of redeemed texts and its price live as     *)
(* long as its process.  Connections wait in the listener's backlog.       *)
(***************************************************************************)
EXTENDS Integers, Sequences, FiniteSets

CONSTANTS
    Buyer,       \* runs of `cm fetch'
    Price,       \* the prices a paywall may be started with
    Nobody,      \* no connection, no X-Payment header
    RETRIES,     \* paid GETs of one fetch
    Prompt,      \* TRUE: a payment shows on esplora before the last paid GET
    MaxFaults,   \* bound on broken connections, failed lookups and broadcasts,
                 \* and restarts of the seller, together
    MaxOthers    \* bound on paid GETs of other clients

ASSUME PaywallAssumption ==
    /\ Nobody \notin Buyer
    /\ Price \subseteq Nat \ {0}
    /\ RETRIES \in Nat \ {0}
    /\ Prompt \in BOOLEAN
    /\ MaxFaults \in Nat /\ MaxOthers \in Nat

VARIABLES
    handler,   \* where the seller is
    price,     \* price_sats of this session
    used,      \* the header texts redeemed in this session
    sold,      \* how often each text was answered with the body in this session
    taken,     \* the texts another client than the payer was given the body for
    conn,      \* the request being handled
    answer,    \* what will be written back
    backlog,   \* the requests waiting at the listener
    buyer,     \* where each buyer is
    max_sats,  \* what each buyer is ready to pay
    resp,      \* the response each buyer has received
    gets,      \* how many connections each buyer has opened
    tries,     \* paid GETs of the fetch so far
    paid,      \* what each buyer's transaction pays the seller
    seen,      \* the transactions esplora shows
    got,       \* the buyers that have the body
    faults, restarts, others

seller == <<price, used, sold, taken, conn, answer>>
chain  == <<paid, seen>>
counts == <<faults, restarts, others>>
paywall_vars == <<handler, price, used, sold, taken, conn, answer, backlog, buyer, max_sats, resp,
                  gets, tries, paid, seen, got, faults, restarts, others>>

\* The texts is_txid lets through: the hex digits of a txid, in either case.
Claim == [txid : Buyer, hex : {"lower", "upper"}]

\* The text fetch sends: a txid is printed in lower case.
Proof(b) == [txid |-> b, hex |-> "lower"]

NoConn == [from |-> Nobody, payment |-> Nobody, get |-> 0]
NoResp == [status |-> "none", sats |-> 0]
Body   == [status |-> "200", sats |-> 0]
Broken == [status |-> "error", sats |-> 0]

Request  == [from : Buyer \cup {Nobody}, payment : Claim \cup {Nobody}, get : Nat \ {0}]
Response == {NoResp, Body, Broken} \cup [status : {"402"}, sats : Price]

PaywallTypeOK ==
    /\ handler \in {"down", "accept", "verify", "lookup", "respond"}
    /\ price \in Price
    /\ used \subseteq Claim
    /\ sold \in [Claim -> Nat]
    /\ taken \subseteq Claim
    /\ conn \in Request \cup {NoConn}
    /\ conn = NoConn <=> handler \in {"down", "accept"}
    /\ answer \in {NoResp, Body} \cup [status : {"402"}, sats : Price]
    /\ backlog \in Seq(Request)
    /\ buyer \in [Buyer -> {"idle", "first", "terms", "paid", "retry", "done", "failed"}]
    /\ max_sats \in [Buyer -> Price]
    /\ resp \in [Buyer -> Response]
    /\ gets \in [Buyer -> Nat]
    /\ tries \in [Buyer -> 0..RETRIES]
    /\ paid \in [Buyer -> Price \cup {0}]
    /\ \A b \in Buyer : paid[b] <= max_sats[b]
    /\ seen \subseteq {b \in Buyer : paid[b] > 0}
    /\ got \subseteq Buyer
    /\ faults \in 0..MaxFaults /\ restarts \in 0..MaxFaults /\ others \in 0..MaxOthers

PaywallInit ==
    /\ handler = "down"
    /\ price \in Price
    /\ used = {}
    /\ sold = [c \in Claim |-> 0]
    /\ taken = {}
    /\ conn = NoConn
    /\ answer = NoResp
    /\ backlog = <<>>
    /\ buyer = [b \in Buyer |-> "idle"]
    /\ max_sats \in [Buyer -> Price]
    /\ resp = [b \in Buyer |-> NoResp]
    /\ gets = [b \in Buyer |-> 0]
    /\ tries = [b \in Buyer |-> 0]
    /\ paid = [b \in Buyer |-> 0]
    /\ seen = {}
    /\ got = {}
    /\ faults = 0 /\ restarts = 0 /\ others = 0

Fault == faults + restarts < MaxFaults /\ faults' = faults + 1

-----------------------------------------------------------------------------
(* The buyer: fetch::fetch.                                                *)

\* http_get: a connection to the listener, or an error when nobody listens.
http_get(b, payment) ==
    /\ gets' = [gets EXCEPT ![b] = @ + 1]
    /\ IF handler = "down"
       THEN /\ resp' = [resp EXCEPT ![b] = Broken]
            /\ UNCHANGED backlog
       ELSE /\ resp' = [resp EXCEPT ![b] = NoResp]
            /\ backlog' = Append(backlog, [from |-> b, payment |-> payment, get |-> gets[b] + 1])

first_get(b) ==
    /\ buyer[b] = "idle"
    /\ http_get(b, Nobody)
    /\ buyer' = [buyer EXCEPT ![b] = "first"]
    /\ UNCHANGED <<handler, seller, max_sats, tries, chain, got, counts>>

\* The answer to the first GET.  A 402 within max_sats is paid; an error, or
\* terms check_terms refuses, end the fetch.
read_terms(b) ==
    /\ buyer[b] = "first"
    /\ resp[b] # NoResp
    /\ buyer' = [buyer EXCEPT ![b] =
           IF resp[b].status = "402" /\ resp[b].sats <= max_sats[b] THEN "terms" ELSE "failed"]
    /\ UNCHANGED <<handler, seller, backlog, max_sats, resp, gets, tries, chain, got, counts>>

\* The version, the network or the payee of the terms is not ours, the wallet's
\* policy refuses, the wallet has no funds, or building fails.
refuse(b) ==
    /\ buyer[b] = "terms"
    /\ buyer' = [buyer EXCEPT ![b] = "failed"]
    /\ UNCHANGED <<handler, seller, backlog, max_sats, resp, gets, tries, chain, got, counts>>

\* pay::sp_send pays the quoted price.
sp_send(b) ==
    /\ buyer[b] = "terms"
    /\ paid' = [paid EXCEPT ![b] = resp[b].sats]
    /\ buyer' = [buyer EXCEPT ![b] = "paid"]
    /\ UNCHANGED <<handler, seller, backlog, max_sats, resp, gets, tries, seen, got, counts>>

\* The broadcast reports an error: fetch ends, and reconcile sends the booked
\* transaction again later.
sp_send_error(b) ==
    /\ buyer[b] = "terms"
    /\ Fault
    /\ paid' = [paid EXCEPT ![b] = resp[b].sats]
    /\ buyer' = [buyer EXCEPT ![b] = "failed"]
    /\ UNCHANGED <<handler, seller, backlog, max_sats, resp, gets, tries, seen, got, restarts, others>>

\* A GET with the txid as proof.
paid_get(b) ==
    /\ buyer[b] = "paid"
    /\ Prompt /\ tries[b] = RETRIES - 1 => b \in seen
    /\ http_get(b, Proof(b))
    /\ tries' = [tries EXCEPT ![b] = @ + 1]
    /\ buyer' = [buyer EXCEPT ![b] = "retry"]
    /\ UNCHANGED <<handler, seller, max_sats, chain, got, counts>>

\* Mutant: the comparison that ends the loop is off by one.
read_body_late(b) ==
    /\ buyer[b] = "retry"
    /\ resp[b] # NoResp
    /\ got' = IF resp[b] = Body THEN got \cup {b} ELSE got
    /\ buyer' = [buyer EXCEPT ![b] =
           CASE resp[b] = Body     -> "done"
             [] resp[b] = Broken   -> "failed"
             [] tries[b] > RETRIES -> "failed"
             [] OTHER              -> "paid"]
    /\ UNCHANGED <<handler, seller, backlog, max_sats, resp, gets, tries, chain, counts>>

\* The answer to a paid GET: the body, an error that ends the fetch, or another
\* 402, after which it tries again until RETRIES are spent.
read_body(b) ==
    /\ buyer[b] = "retry"
    /\ resp[b] # NoResp
    /\ got' = IF resp[b] = Body THEN got \cup {b} ELSE got
    /\ buyer' = [buyer EXCEPT ![b] =
           CASE resp[b] = Body      -> "done"
             [] resp[b] = Broken    -> "failed"
             [] tries[b] >= RETRIES -> "failed"
             [] OTHER               -> "paid"]
    /\ UNCHANGED <<handler, seller, backlog, max_sats, resp, gets, tries, chain, counts>>

\* http_get runs into its timeout while the request waits or is handled.
get_timeout(b) ==
    /\ buyer[b] \in {"first", "retry"}
    /\ resp[b] = NoResp
    /\ Fault
    /\ resp' = [resp EXCEPT ![b] = Broken]
    /\ UNCHANGED <<handler, seller, backlog, buyer, max_sats, gets, tries, chain, got, restarts, others>>

\* Another client presents the txid of a payment, before, between or after the
\* GETs of the fetch that made it.
other_get(c) ==
    /\ handler # "down"
    /\ paid[c.txid] > 0
    /\ others < MaxOthers
    /\ others' = others + 1
    /\ backlog' = Append(backlog, [from |-> Nobody, payment |-> c, get |-> 1])
    /\ UNCHANGED <<handler, seller, buyer, max_sats, resp, gets, tries, chain, got, faults, restarts>>

\* The transaction reaches the esplora instance of the seller.
Appear(b) ==
    /\ paid[b] > 0
    /\ b \notin seen
    /\ seen' = seen \cup {b}
    /\ UNCHANGED <<handler, seller, backlog, buyer, max_sats, resp, gets, tries, paid, got, counts>>

-----------------------------------------------------------------------------
(* The seller: paywall::run, handle, verify_payment.                       *)

\* The listener is bound; nothing is redeemed.
start ==
    /\ handler = "down"
    /\ handler' = "accept"
    /\ price' \in Price
    /\ used' = {}
    /\ sold' = [c \in Claim |-> 0]
    /\ taken' = {}
    /\ UNCHANGED <<conn, answer, backlog, buyer, max_sats, resp, gets, tries, chain, got, counts>>

\* The process ends; open connections break.
SellerCrash ==
    /\ handler # "down"
    /\ faults + restarts < MaxFaults
    /\ restarts' = restarts + 1
    /\ handler' = "down"
    /\ conn' = NoConn
    /\ answer' = NoResp
    /\ backlog' = <<>>
    /\ resp' = [b \in Buyer |->
           IF buyer[b] \in {"first", "retry"} /\ resp[b] = NoResp THEN Broken ELSE resp[b]]
    /\ UNCHANGED <<price, used, sold, taken, buyer, max_sats, gets, tries, chain, got, faults, others>>

\* The next connection; its head is read.
accept ==
    /\ handler = "accept"
    /\ backlog # <<>>
    /\ conn' = Head(backlog)
    /\ backlog' = Tail(backlog)
    /\ handler' = "verify"
    /\ UNCHANGED <<price, used, sold, taken, answer, buyer, max_sats, resp, gets, tries, chain, got,
                   counts>>

Terms == [status |-> "402", sats |-> price]

\* No X-Payment header, or the very text was redeemed before: the terms.
unpaid ==
    /\ handler = "verify"
    /\ conn.payment \in used \cup {Nobody}
    /\ answer' = Terms
    /\ handler' = "respond"
    /\ UNCHANGED <<price, used, sold, taken, conn, backlog, buyer, max_sats, resp, gets, tries, chain,
                   got, counts>>

\* The text is new: scan::tx_pays_me puts it into the URL and asks esplora, which
\* reads the digits in either case; the chain moves on meanwhile.
tx_pays_me ==
    /\ handler = "verify"
    /\ conn.payment \notin used \cup {Nobody}
    /\ handler' = "lookup"
    /\ UNCHANGED <<seller, backlog, buyer, max_sats, resp, gets, tries, chain, got, counts>>

\* What verify_payment sees of the transaction it looks up.
Shown == conn.payment.txid \in seen
Pays  == Shown /\ paid[conn.payment.txid] >= price

\* The body goes to whoever presented the text.
deliver ==
    /\ answer' = Body
    /\ sold' = [sold EXCEPT ![conn.payment] = @ + 1]
    /\ taken' = IF conn.from = Nobody THEN taken \cup {conn.payment} ELSE taken
    /\ handler' = "respond"
    /\ UNCHANGED <<price, conn, backlog, buyer, max_sats, resp, gets, tries, chain, got, counts>>

\* Mutant: the text is not marked.
redeem_unmarked == handler = "lookup" /\ Pays /\ deliver /\ UNCHANGED used

\* Mutant: any transaction esplora knows will do.
redeem_any == handler = "lookup" /\ Shown /\ deliver /\ used' = used \cup {conn.payment}

\* It pays at least the price: the text is marked used, the body is the answer.
redeem == handler = "lookup" /\ Pays /\ deliver /\ used' = used \cup {conn.payment}

\* Mutant: the text is marked whatever the lookup says.
not_paid_marked ==
    /\ handler = "lookup"
    /\ ~Shown
    /\ used' = used \cup {conn.payment}
    /\ answer' = Terms
    /\ handler' = "respond"
    /\ UNCHANGED <<price, sold, taken, conn, backlog, buyer, max_sats, resp, gets, tries, chain, got,
                   counts>>

\* It pays less, is not known to esplora yet, or the lookup fails: the terms.
not_paid ==
    /\ handler = "lookup"
    /\ \/ ~Shown /\ UNCHANGED faults
       \/ Shown /\ ~Pays /\ UNCHANGED faults
       \/ Fault
    /\ answer' = Terms
    /\ handler' = "respond"
    /\ UNCHANGED <<price, used, sold, taken, conn, backlog, buyer, max_sats, resp, gets, tries, chain,
                   got, restarts, others>>

\* The connection is closed and the next one accepted.
Hangup == handler' = "accept" /\ conn' = NoConn /\ answer' = NoResp

\* The client still waits on the connection being handled.
Waiting(b) ==
    /\ b = conn.from
    /\ conn.get = gets[b]
    /\ buyer[b] \in {"first", "retry"}
    /\ resp[b] = NoResp

\* write_response reaches the client, if it is still there.
write_response ==
    /\ handler = "respond"
    /\ resp' = [b \in Buyer |-> IF Waiting(b) THEN answer ELSE resp[b]]
    /\ Hangup
    /\ UNCHANGED <<price, used, sold, taken, backlog, buyer, max_sats, gets, tries, chain, got, counts>>

\* The connection breaks while the head is read or the response written.
request_error ==
    /\ handler \in {"verify", "respond"}
    /\ Fault
    /\ resp' = [b \in Buyer |-> IF Waiting(b) THEN Broken ELSE resp[b]]
    /\ Hangup
    /\ UNCHANGED <<price, used, sold, taken, backlog, buyer, max_sats, gets, tries, chain, got,
                   restarts, others>>

-----------------------------------------------------------------------------
SellerNext ==
    \/ start \/ accept \/ unpaid \/ tx_pays_me \/ redeem \/ not_paid
    \/ write_response \/ request_error

FetchNext(b) ==
    \/ read_terms(b) \/ refuse(b) \/ sp_send(b) \/ sp_send_error(b) \/ paid_get(b) \/ read_body(b)

PaywallNext ==
    \/ SellerNext \/ SellerCrash
    \/ \E b \in Buyer :
        first_get(b) \/ FetchNext(b) \/ get_timeout(b) \/ Appear(b)
    \/ \E c \in Claim : other_get(c)

PaywallSpec == PaywallInit /\ [][PaywallNext]_paywall_vars

(***************************************************************************)
(* Fairness: the seller's loop and a fetch that has begun go on, and a     *)
(* transaction that was broadcast reaches esplora.                         *)
(***************************************************************************)
FairSpec ==
    /\ PaywallSpec
    /\ WF_paywall_vars(SellerNext)
    /\ \A b \in Buyer : WF_paywall_vars(FetchNext(b)) /\ WF_paywall_vars(Appear(b))

-----------------------------------------------------------------------------
(* Properties.                                                             *)

\* One X-Payment text buys once per session, however many clients present it, in
\* whatever order (paywall.rs:132-137).
OneBuyPerClaim == \A c \in Claim : sold[c] <= 1

\* One txid buys once per session (paywall.rs:11-13, 128-129), in whatever case
\* its digits are written.
OneBuyPerTxid ==
    \A c, d \in Claim :
        sold[c] > 0 /\ sold[d] > 0 /\ c.txid = d.txid => c = d /\ sold[c] = 1

\* The body is sold for the price in force or more, also after a restart with
\* another price and quotes of the old one under way (paywall.rs:136).
SoldForThePrice == \A c \in Claim : sold[c] > 0 => c.txid \in seen /\ paid[c.txid] >= price

\* A fetch that pays gets the resource (fetch.rs:5-6, docs/mcp-usage.md:29), as
\* long as no connection, lookup, broadcast or seller breaks on the way and no
\* other client is given the body for its txid (the race-claim of paywall.rs:11-13):
\* an early 402, another buyer in between, another client that is too early or
\* writes the txid in upper case do not stop it.
PaidGetsBody ==
    \A b \in Buyer :
        paid[b] > 0 ~> b \in got \/ Proof(b) \in taken \/ faults > 0 \/ restarts > 0

\* The same whatever breaks: the URL is retried until the content comes back.
PaidGetsBodyAnyway == \A b \in Buyer : paid[b] > 0 ~> b \in got

=============================================================================
