------------------------------ MODULE Accounts ------------------------------
(***************************************************************************)
(* The accounts table: affiliate links and referrals, which users ask for, *)
(* and the accounts that the points jobs of the chains create for those    *)
(* they pay.  Each action is one call to the database.  An account is      *)
(* known by its address, which is unique and lower case on every path.     *)
(***************************************************************************)
EXTENDS FiniteSets

CONSTANTS
  Addresses,
  AffiliateIds,  \* bound: the ids that are generated
  Requests,      \* API requests that may be served at the same time
  PaidChains,    \* LIVE_CHAIN_IDS: their points jobs run at the same time
  Payees,        \* Payees[c]: the owners that the job of chain c pays
  Nobody         \* no account, no affiliate_id, no referrer_id

ASSUME AccountsAssumption ==
  /\ Payees \in [PaidChains -> SUBSET Addresses]
  /\ Nobody \notin Addresses \cup AffiliateIds
  /\ Nobody \notin [affiliate: AffiliateIds \cup {Nobody}, referrer: Addresses \cup {Nobody}]

VARIABLES
  accounts,    \* the account of each address
  request,     \* the API requests
  payment,     \* the points jobs, each on its way through setUserPoints
  issued,      \* the affiliate ids generated so far
  answered,    \* history: the links that were answered, <<address, id>>
  overlapped   \* history: addresses with two link requests at once

accountsVars == <<accounts, request, payment, issued, answered, overlapped>>

Account == [affiliate: AffiliateIds \cup {Nobody}, referrer: Addresses \cup {Nobody}]

\* What getOrCreateAccount and createAccountsIfNotExist insert.
NewAccount == [affiliate |-> Nobody, referrer |-> Nobody]

Exists(a) == accounts[a] # Nobody

Request ==
  [pc: {"idle", "findAccount", "createAccount", "setAffiliateId",
        "getAccount", "getReferrer", "createReferred"},
   address: Addresses \cup {Nobody},
   affiliate: AffiliateIds \cup {Nobody},   \* the id generated or posted
   referrer: Addresses \cup {Nobody}]

IdleRequest ==
  [pc |-> "idle", address |-> Nobody, affiliate |-> Nobody, referrer |-> Nobody]

Payment ==
  [pc: {"idle", "findExisting", "createMany", "upsertUsers"},
   missing: SUBSET Addresses]

IdlePayment == [pc |-> "idle", missing |-> {}]

AccountsTypeOK ==
  /\ accounts \in [Addresses -> Account \cup {Nobody}]
  /\ request \in [Requests -> Request]
  /\ \A p \in Requests : request[p].pc # "idle" => request[p].address \in Addresses
  /\ payment \in [PaidChains -> Payment]
  /\ issued \subseteq AffiliateIds
  /\ answered \subseteq Addresses \X AffiliateIds
  /\ overlapped \subseteq Addresses

AccountsInit ==
  /\ accounts = [a \in Addresses |-> Nobody]
  /\ request = [p \in Requests |-> IdleRequest]
  /\ payment = [c \in PaidChains |-> IdlePayment]
  /\ issued = {} /\ answered = {} /\ overlapped = {}

----------------------------------------------------------------------------
(* GET /user/:address/affiliate/link                                       *)

\* Requests p has company in: those on their way to a link of the address.
AskingForLink(a) ==
  {q \in Requests : request[q].address = a
                    /\ request[q].pc \in {"findAccount", "createAccount", "setAffiliateId"}}

GetAffiliateLink(p) ==
  /\ request[p].pc = "idle"
  /\ \E a \in Addresses :
       /\ request' = [request EXCEPT ![p] = [IdleRequest EXCEPT !.pc = "findAccount",
                                                               !.address = a]]
       /\ overlapped' = IF AskingForLink(a) = {} THEN overlapped ELSE overlapped \cup {a}
  /\ UNCHANGED <<accounts, payment, issued, answered>>

\* The account has no id yet: one is generated on the way to the update.  It
\* is new, and which one it is does not matter.
GenerateAffiliateId(p) ==
  /\ issued # AffiliateIds
  /\ LET id == CHOOSE x \in AffiliateIds : x \notin issued IN
     /\ issued' = issued \cup {id}
     /\ request' = [request EXCEPT ![p].pc = "setAffiliateId", ![p].affiliate = id]

MutFindAccount(p) ==  \* always a new id
  /\ request[p].pc = "findAccount"
  /\ IF ~Exists(request[p].address)
     THEN /\ request' = [request EXCEPT ![p].pc = "createAccount"]
          /\ UNCHANGED <<issued, answered>>
     ELSE GenerateAffiliateId(p) /\ UNCHANGED answered
  /\ UNCHANGED <<accounts, payment, overlapped>>

FindAccount(p) ==
  /\ request[p].pc = "findAccount"
  /\ LET a == request[p].address IN
     IF ~Exists(a)
     THEN /\ request' = [request EXCEPT ![p].pc = "createAccount"]
          /\ UNCHANGED <<issued, answered>>
     ELSE IF accounts[a].affiliate # Nobody
     THEN /\ answered' = answered \cup {<<a, accounts[a].affiliate>>}
          /\ request' = [request EXCEPT ![p] = IdleRequest]
          /\ UNCHANGED issued
     ELSE GenerateAffiliateId(p) /\ UNCHANGED answered
  /\ UNCHANGED <<accounts, payment, overlapped>>

\* The create fails if the address has an account by now.
CreateAccount(p) ==
  /\ request[p].pc = "createAccount"
  /\ LET a == request[p].address IN
     IF Exists(a)
     THEN request' = [request EXCEPT ![p] = IdleRequest] /\ UNCHANGED <<accounts, issued>>
     ELSE accounts' = [accounts EXCEPT ![a] = NewAccount] /\ GenerateAffiliateId(p)
  /\ UNCHANGED <<payment, answered, overlapped>>

UpdateAccountAffiliateId(p) ==
  /\ request[p].pc = "setAffiliateId"
  /\ LET a == request[p].address  id == request[p].affiliate IN
     /\ accounts' = [accounts EXCEPT ![a] = [affiliate |-> id, referrer |-> accounts[a].referrer]]
     /\ answered' = answered \cup {<<a, id>>}
  /\ request' = [request EXCEPT ![p] = IdleRequest]
  /\ UNCHANGED <<payment, issued, overlapped>>

----------------------------------------------------------------------------
(* POST /user, with the affiliate id of the referrer                       *)

CreateUser(p) ==
  /\ request[p].pc = "idle"
  /\ \E a \in Addresses, id \in AffiliateIds :
       request' = [request EXCEPT ![p] = [pc |-> "getAccount", address |-> a,
                                          affiliate |-> id, referrer |-> Nobody]]
  /\ UNCHANGED <<accounts, payment, issued, answered, overlapped>>

\* 409 if there is an account, whoever has created it.
GetAccount(p) ==
  /\ request[p].pc = "getAccount"
  /\ request' = [request EXCEPT ![p] = IF Exists(@.address) THEN IdleRequest
                                       ELSE [@ EXCEPT !.pc = "getReferrer"]]
  /\ UNCHANGED <<accounts, payment, issued, answered, overlapped>>

ReferrerOf(id) == {a \in Addresses : Exists(a) /\ accounts[a].affiliate = id}

\* 400 if the id is nobody's.
GetReferrer(p) ==
  /\ request[p].pc = "getReferrer"
  /\ \/ /\ ReferrerOf(request[p].affiliate) = {}
        /\ request' = [request EXCEPT ![p] = IdleRequest]
     \/ \E r \in ReferrerOf(request[p].affiliate) :
          request' = [request EXCEPT ![p].pc = "createReferred", ![p].referrer = r]
  /\ UNCHANGED <<accounts, payment, issued, answered, overlapped>>

MutCreateAccountWithReferrer(p) ==  \* an upsert instead of a create
  /\ request[p].pc = "createReferred"
  /\ LET a == request[p].address IN
     accounts' = [accounts EXCEPT ![a] =
       [affiliate |-> IF Exists(a) THEN accounts[a].affiliate ELSE Nobody,
        referrer |-> request[p].referrer]]
  /\ request' = [request EXCEPT ![p] = IdleRequest]
  /\ UNCHANGED <<payment, issued, answered, overlapped>>

CreateAccountWithReferrer(p) ==
  /\ request[p].pc = "createReferred"
  /\ LET a == request[p].address IN
     accounts' = IF Exists(a) THEN accounts
                 ELSE [accounts EXCEPT ![a] = [affiliate |-> Nobody,
                                               referrer |-> request[p].referrer]]
  /\ request' = [request EXCEPT ![p] = IdleRequest]
  /\ UNCHANGED <<payment, issued, answered, overlapped>>

\* A call fails, or the API service restarts while the request is served.
FailRequest(p) ==
  /\ request[p].pc # "idle"
  /\ request' = [request EXCEPT ![p] = IdleRequest]
  /\ UNCHANGED <<accounts, payment, issued, answered, overlapped>>

----------------------------------------------------------------------------
(* setUserPoints, called by the points job of a chain                      *)

SetUserPoints(c) ==
  /\ payment[c].pc = "idle"
  /\ payment' = [payment EXCEPT ![c] = [pc |-> "findExisting", missing |-> {}]]
  /\ UNCHANGED <<accounts, request, issued, answered, overlapped>>

FindExistingAccounts(c) ==
  /\ payment[c].pc = "findExisting"
  /\ LET missing == {a \in Payees[c] : ~Exists(a)} IN
     payment' = [payment EXCEPT ![c] = [pc |-> IF missing = {} THEN "upsertUsers"
                                                ELSE "createMany",
                                        missing |-> missing]]
  /\ UNCHANGED <<accounts, request, issued, answered, overlapped>>

MutCreateMany(c) ==  \* an upsert instead of a create
  /\ payment[c].pc = "createMany"
  /\ accounts' = [a \in Addresses |-> IF a \in payment[c].missing THEN NewAccount
                                      ELSE accounts[a]]
  /\ payment' = [payment EXCEPT ![c] = [pc |-> "upsertUsers", missing |-> {}]]
  /\ UNCHANGED <<request, issued, answered, overlapped>>

MutCreateManyStops(c) ==  \* the job stays in the loop of its batches
  /\ payment[c].pc = "createMany"
  /\ IF \E a \in payment[c].missing : Exists(a)
     THEN UNCHANGED <<payment, accounts>>
     ELSE /\ accounts' = [a \in Addresses |-> IF a \in payment[c].missing THEN NewAccount
                                              ELSE accounts[a]]
          /\ payment' = [payment EXCEPT ![c] = [pc |-> "upsertUsers", missing |-> {}]]
  /\ UNCHANGED <<request, issued, answered, overlapped>>

\* The createMany fails as a whole if one of the addresses has an account by
\* now; the error ends this run of the job.
CreateMany(c) ==
  /\ payment[c].pc = "createMany"
  /\ IF \E a \in payment[c].missing : Exists(a)
     THEN payment' = [payment EXCEPT ![c] = IdlePayment] /\ UNCHANGED accounts
     ELSE /\ accounts' = [a \in Addresses |-> IF a \in payment[c].missing THEN NewAccount
                                              ELSE accounts[a]]
          /\ payment' = [payment EXCEPT ![c] = [pc |-> "upsertUsers", missing |-> {}]]
  /\ UNCHANGED <<request, issued, answered, overlapped>>

\* The upsert of the users, with the ids of their accounts.
UpsertUsers(c) ==
  /\ payment[c].pc = "upsertUsers"
  /\ payment' = [payment EXCEPT ![c] = IdlePayment]
  /\ UNCHANGED <<accounts, request, issued, answered, overlapped>>

----------------------------------------------------------------------------
ServeRequest(p) ==
  \/ GetAffiliateLink(p) \/ FindAccount(p) \/ CreateAccount(p) \/ UpdateAccountAffiliateId(p)
  \/ CreateUser(p) \/ GetAccount(p) \/ GetReferrer(p) \/ CreateAccountWithReferrer(p)
  \/ FailRequest(p)

Pay(c) ==
  \/ SetUserPoints(c) \/ FindExistingAccounts(c) \/ CreateMany(c) \/ UpsertUsers(c)

AccountsNext == (\E p \in Requests : ServeRequest(p)) \/ (\E c \in PaidChains : Pay(c))

AccountsSpec == AccountsInit /\ [][AccountsNext]_accountsVars

----------------------------------------------------------------------------
(* Properties.                                                             *)

\* Following referrers never leads back: every set of accounts has one whose
\* referrer is not in the set.  Nobody refers himself, although his link may
\* be created between the two look-ups of his own POST.
ReferralsAreAcyclic ==
  \A S \in SUBSET {a \in Addresses : Exists(a)} :
    S # {} => \E a \in S : accounts[a].referrer \notin S

\* An account never disappears and keeps its referrer, or its not having one:
\* neither a link nor a job that pays the same address takes a referral away.
ReferralsStay ==
  [][\A a \in Addresses : Exists(a) =>
       accounts'[a] # Nobody /\ accounts'[a].referrer = accounts[a].referrer]_accountsVars

\* A link that was answered stays the link of the account, unless two link
\* requests of that address were served at once: of these one may be lost.
AnsweredLinksWork ==
  \A a \in Addresses, id \in AffiliateIds :
    <<a, id>> \in answered /\ a \notin overlapped
    => Exists(a) /\ accounts[a].affiliate = id

\* When a job writes points, everyone it pays has an account.
PayeesHaveAccounts ==
  \A c \in PaidChains : payment[c].pc = "upsertUsers" => \A a \in Payees[c] : Exists(a)

\* A job that sets out to write points comes to write them, in this run or in
\* a later one: it loses the race for an account to requests and to the other
\* chains' jobs only so often.
PaymentsGoOn ==
  \A c \in PaidChains : payment[c].pc = "findExisting" ~> payment[c].pc = "upsertUsers"
============================================================================
