--------------------------- MODULE AccountsProofs ---------------------------
(***************************************************************************)
(* Proofs about accounts, for any addresses, requests and chains that pay: *)
(* types, that referrals stay and never run in circles, that answered      *)
(* links work, and that payments lose only so many races.                  *)
(***************************************************************************)
EXTENDS Accounts, TLAPS

\* A request that is about to set an affiliate id has one, and an account to
\* give it to; one that is about to refer has a referrer, with an account.
AccountsTypeInv ==
  /\ AccountsTypeOK
  /\ \A p \in Requests : request[p].pc = "setAffiliateId" =>
       request[p].affiliate \in AffiliateIds /\ Exists(request[p].address)
  /\ \A p \in Requests : request[p].pc = "createReferred" =>
       request[p].referrer \in Addresses /\ Exists(request[p].referrer)

\* Referrers have accounts, so that nobody can refer to one that is yet to come.
ReferralInv ==
  /\ \A a \in Addresses : Exists(a) /\ accounts[a].referrer # Nobody =>
       accounts[a].referrer \in Addresses /\ Exists(accounts[a].referrer)
  /\ ReferralsAreAcyclic

\* Of an address without overlapping requests, a request that is about to set
\* the id is the only one, and the account has none yet.
LinkInv ==
  /\ AnsweredLinksWork
  /\ \A a \in Addresses \ overlapped : \A p, q \in AskingForLink(a) : p = q
  /\ \A p \in Requests :
       request[p].pc = "setAffiliateId" /\ request[p].address \notin overlapped
       => accounts[request[p].address].affiliate = Nobody

----------------------------------------------------------------------------
(* Types.                                                                  *)

LEMMA Records ==
  /\ Nobody \notin Addresses /\ Nobody \notin AffiliateIds /\ Nobody \notin Account
  /\ NewAccount \in Account /\ NewAccount.referrer = Nobody /\ NewAccount.affiliate = Nobody
  /\ IdleRequest \in Request /\ IdleRequest.pc = "idle"
  /\ IdlePayment \in Payment
BY AccountsAssumption
   DEF Account, NewAccount, IdleRequest, Request, IdlePayment, Payment

LEMMA AccountsTypeInit == AccountsInit => AccountsTypeInv
BY Records DEF AccountsInit, AccountsTypeInv, AccountsTypeOK

\* An id that is generated is new.
LEMMA GeneratedIds ==
  ASSUME AccountsTypeOK, NEW p \in Requests, GenerateAffiliateId(p)
  PROVE  \E id \in AffiliateIds :
           /\ id \notin issued
           /\ issued' = issued \cup {id}
           /\ request' = [request EXCEPT ![p] = [request[p] EXCEPT !.pc = "setAffiliateId",
                                                                   !.affiliate = id]]
<1> DEFINE id == CHOOSE x \in AffiliateIds : x \notin issued
<1>1. \E x \in AffiliateIds : x \notin issued
  BY DEF GenerateAffiliateId, AccountsTypeOK
<1>2. id \in AffiliateIds /\ id \notin issued
  BY <1>1
<1>3. issued' = issued \cup {id}
  BY DEF GenerateAffiliateId
<1>4. request' = [request EXCEPT ![p].pc = "setAffiliateId", ![p].affiliate = id]
  BY DEF GenerateAffiliateId
<1> HIDE DEF id
<1>5. request' = [request EXCEPT ![p] = [request[p] EXCEPT !.pc = "setAffiliateId",
                                                           !.affiliate = id]]
  BY <1>4 DEF AccountsTypeOK, Request
<1>6. QED  BY <1>2, <1>3, <1>5

\* What a request may become.
LEMMA RequestBecomes ==
  ASSUME AccountsTypeInv, NEW p \in Requests, NEW r \in Request,
         r.pc # "idle" => r.address \in Addresses,
         request' = [request EXCEPT ![p] = r],
         accounts' \in [Addresses -> Account \cup {Nobody}],
         \A a \in Addresses : Exists(a) => accounts'[a] # Nobody,
         r.pc = "setAffiliateId" => r.affiliate \in AffiliateIds /\ accounts'[r.address] # Nobody,
         r.pc = "createReferred" => r.referrer \in Addresses /\ accounts'[r.referrer] # Nobody,
         payment' = payment, issued' \subseteq AffiliateIds,
         answered' \subseteq Addresses \X AffiliateIds, overlapped' \subseteq Addresses
  PROVE  AccountsTypeInv'
<1>1. /\ request' \in [Requests -> Request] /\ request'[p] = r
      /\ \A q \in Requests \ {p} : request'[q] = request[q]
  BY DEF AccountsTypeInv, AccountsTypeOK
<1>2. \A q \in Requests : request'[q].pc # "idle" => request'[q].address \in Addresses
  BY <1>1 DEF AccountsTypeInv, AccountsTypeOK
<1>3. AccountsTypeOK'
  BY <1>1, <1>2 DEF AccountsTypeInv, AccountsTypeOK
<1>4. \A q \in Requests : request'[q].pc = "setAffiliateId" =>
        request'[q].affiliate \in AffiliateIds /\ accounts'[request'[q].address] # Nobody
  <2> SUFFICES ASSUME NEW q \in Requests \ {p}, request[q].pc = "setAffiliateId"
               PROVE  request[q].affiliate \in AffiliateIds /\ accounts'[request[q].address] # Nobody
    BY <1>1
  <2>1. request[q].address \in Addresses
    BY DEF AccountsTypeInv, AccountsTypeOK
  <2>2. QED  BY <2>1 DEF AccountsTypeInv
<1>5. \A q \in Requests : request'[q].pc = "createReferred" =>
        request'[q].referrer \in Addresses /\ accounts'[request'[q].referrer] # Nobody
  BY <1>1 DEF AccountsTypeInv
<1>6. QED  BY <1>3, <1>4, <1>5 DEF AccountsTypeInv, Exists

\* A request that ends, with the accounts as they are or with more of them.
LEMMA RequestEnds ==
  ASSUME AccountsTypeInv, NEW p \in Requests,
         request' = [request EXCEPT ![p] = IdleRequest],
         accounts' \in [Addresses -> Account \cup {Nobody}],
         \A a \in Addresses : Exists(a) => accounts'[a] # Nobody,
         payment' = payment, issued' = issued, overlapped' = overlapped,
         answered' \subseteq Addresses \X AffiliateIds
  PROVE  AccountsTypeInv'
<1>1. issued' \subseteq AffiliateIds /\ overlapped' \subseteq Addresses
  BY DEF AccountsTypeInv, AccountsTypeOK
<1>2. QED  BY <1>1, Records, RequestBecomes

LEMMA AccountsAre ==
  ASSUME AccountsTypeInv
  PROVE  /\ accounts \in [Addresses -> Account \cup {Nobody}]
         /\ \A a \in Addresses : Exists(a) =>
              /\ accounts[a] \in Account
              /\ accounts[a].affiliate \in AffiliateIds \cup {Nobody}
              /\ accounts[a].referrer \in Addresses \cup {Nobody}
         /\ \A p \in Requests :
              /\ request[p] \in Request
              /\ request[p].affiliate \in AffiliateIds \cup {Nobody}
              /\ request[p].referrer \in Addresses \cup {Nobody}
              /\ request[p].pc # "idle" => request[p].address \in Addresses
         /\ issued \subseteq AffiliateIds /\ overlapped \subseteq Addresses
         /\ answered \subseteq Addresses \X AffiliateIds
<1>1. accounts \in [Addresses -> Account \cup {Nobody}]
  BY DEF AccountsTypeInv, AccountsTypeOK
<1>2. \A a \in Addresses : Exists(a) => accounts[a] \in Account
  BY <1>1 DEF Exists
<1>3. \A x \in Account : /\ x.affiliate \in AffiliateIds \cup {Nobody}
                         /\ x.referrer \in Addresses \cup {Nobody}
  BY DEF Account
<1>4. \A p \in Requests :
        /\ request[p] \in Request
        /\ request[p].pc # "idle" => request[p].address \in Addresses
  BY DEF AccountsTypeInv, AccountsTypeOK
<1>5. \A x \in Request : /\ x.affiliate \in AffiliateIds \cup {Nobody}
                         /\ x.referrer \in Addresses \cup {Nobody}
  BY DEF Request
<1>6. QED  BY <1>1, <1>2, <1>3, <1>4, <1>5 DEF AccountsTypeInv, AccountsTypeOK

\* What a step may do to the accounts: old ones stay with their referrers, new
\* ones have no id yet, and a referrer that has an account already, or none.
OnlyNewAccounts ==
  /\ accounts' \in [Addresses -> Account \cup {Nobody}]
  /\ \A a \in Addresses : Exists(a) =>
       accounts'[a] # Nobody /\ accounts'[a].referrer = accounts[a].referrer
  /\ \A a \in Addresses : ~Exists(a) /\ accounts'[a] # Nobody =>
       /\ accounts'[a].affiliate = Nobody
       /\ \/ accounts'[a].referrer = Nobody
          \/ accounts'[a].referrer \in Addresses /\ Exists(accounts'[a].referrer)

LEMMA SameAccounts == ASSUME AccountsTypeInv, accounts' = accounts PROVE OnlyNewAccounts
BY AccountsAre DEF OnlyNewAccounts, Exists

LEMMA AccountsGrow == ASSUME AccountsTypeInv, [AccountsNext]_accountsVars PROVE OnlyNewAccounts
<1>1. ASSUME NEW p \in Requests, CreateAccount(p)
      PROVE  OnlyNewAccounts
  <2> DEFINE b == request[p].address
  <2>1. b \in Addresses
    BY <1>1, AccountsAre DEF CreateAccount
  <2>2. CASE accounts' = accounts
    BY <2>2, SameAccounts
  <2>3. CASE ~Exists(b) /\ accounts' = [accounts EXCEPT ![b] = NewAccount]
    BY <2>1, <2>3, AccountsAre, Records DEF OnlyNewAccounts, Exists
  <2>4. QED  BY <1>1, <2>2, <2>3 DEF CreateAccount
<1>2. ASSUME NEW p \in Requests, UpdateAccountAffiliateId(p)
      PROVE  OnlyNewAccounts
  <2> DEFINE b == request[p].address
             n == [affiliate |-> request[p].affiliate, referrer |-> accounts[b].referrer]
  <2>1. b \in Addresses /\ Exists(b) /\ request[p].affiliate \in AffiliateIds
    BY <1>2, AccountsAre DEF UpdateAccountAffiliateId, AccountsTypeInv
  <2>2. n \in Account /\ n.referrer = accounts[b].referrer /\ n # Nobody
    BY <2>1, AccountsAre, Records DEF Account
  <2>3. accounts' = [accounts EXCEPT ![b] = n]
    BY <1>2 DEF UpdateAccountAffiliateId
  <2> HIDE DEF n
  <2>4. QED  BY <2>1, <2>2, <2>3, AccountsAre DEF OnlyNewAccounts, Exists
<1>3. ASSUME NEW p \in Requests, CreateAccountWithReferrer(p)
      PROVE  OnlyNewAccounts
  <2> DEFINE b == request[p].address
             n == [affiliate |-> Nobody, referrer |-> request[p].referrer]
  <2>1. b \in Addresses /\ request[p].referrer \in Addresses /\ Exists(request[p].referrer)
    BY <1>3, AccountsAre DEF CreateAccountWithReferrer, AccountsTypeInv
  <2>2. /\ n \in Account /\ n # Nobody
        /\ n.affiliate = Nobody /\ n.referrer = request[p].referrer
    BY <2>1, Records DEF Account
  <2>3. CASE accounts' = accounts
    BY <2>3, SameAccounts
  <2>4. CASE ~Exists(b) /\ accounts' = [accounts EXCEPT ![b] = n]
    <3> HIDE DEF n
    <3>1. QED  BY <2>1, <2>2, <2>4, AccountsAre DEF OnlyNewAccounts, Exists
  <2>5. QED  BY <1>3, <2>3, <2>4 DEF CreateAccountWithReferrer
<1>4. ASSUME NEW c \in PaidChains, CreateMany(c)
      PROVE  OnlyNewAccounts
  <2>1. CASE accounts' = accounts
    BY <2>1, SameAccounts
  <2>2. CASE /\ ~\E a \in payment[c].missing : Exists(a)
             /\ accounts' = [a \in Addresses |-> IF a \in payment[c].missing THEN NewAccount
                                                ELSE accounts[a]]
    BY <2>2, AccountsAre, Records DEF OnlyNewAccounts, Exists
  <2>3. QED  BY <1>4, <2>1, <2>2 DEF CreateMany
<1>5. ASSUME NEW p \in Requests,
             \/ GetAffiliateLink(p) \/ FindAccount(p) \/ CreateUser(p) \/ GetAccount(p)
             \/ GetReferrer(p) \/ FailRequest(p)
      PROVE  OnlyNewAccounts
  BY <1>5, SameAccounts
     DEF GetAffiliateLink, FindAccount, CreateUser, GetAccount, GetReferrer, FailRequest
<1>6. ASSUME NEW c \in PaidChains,
             SetUserPoints(c) \/ FindExistingAccounts(c) \/ UpsertUsers(c)
      PROVE  OnlyNewAccounts
  BY <1>6, SameAccounts DEF SetUserPoints, FindExistingAccounts, UpsertUsers
<1>7. CASE UNCHANGED accountsVars
  BY <1>7, SameAccounts DEF accountsVars
<1>8. QED
  BY <1>1, <1>2, <1>3, <1>4, <1>5, <1>6, <1>7 DEF AccountsNext, ServeRequest, Pay

\* What a job of a chain may do to its own state.
LEMMA JobBecomes ==
  ASSUME AccountsTypeInv, OnlyNewAccounts, NEW c \in PaidChains, NEW j \in Payment,
         payment' = [payment EXCEPT ![c] = j],
         UNCHANGED <<request, issued, answered, overlapped>>
  PROVE  AccountsTypeInv'
<1>1. payment' \in [PaidChains -> Payment]
  BY DEF AccountsTypeInv, AccountsTypeOK
<1>2. AccountsTypeOK'
  BY <1>1 DEF AccountsTypeInv, AccountsTypeOK, OnlyNewAccounts
<1>3. \A p \in Requests : request[p].pc = "setAffiliateId" =>
        request[p].affiliate \in AffiliateIds /\ accounts'[request[p].address] # Nobody
  BY AccountsAre DEF AccountsTypeInv, OnlyNewAccounts
<1>4. \A p \in Requests : request[p].pc = "createReferred" =>
        request[p].referrer \in Addresses /\ accounts'[request[p].referrer] # Nobody
  BY AccountsAre DEF AccountsTypeInv, OnlyNewAccounts
<1>5. QED  BY <1>2, <1>3, <1>4 DEF AccountsTypeInv, Exists

LEMMA AccountsTypeStep ==
  AccountsTypeInv /\ [AccountsNext]_accountsVars => AccountsTypeInv'
<1> SUFFICES ASSUME AccountsTypeInv, [AccountsNext]_accountsVars
             PROVE  AccountsTypeInv'
  OBVIOUS
<1>1. /\ accounts' \in [Addresses -> Account \cup {Nobody}]
      /\ \A a \in Addresses : Exists(a) => accounts'[a] # Nobody
      /\ OnlyNewAccounts
  BY AccountsGrow DEF OnlyNewAccounts
<1>2. ASSUME NEW p \in Requests, GetAffiliateLink(p)
      PROVE  AccountsTypeInv'
  <2>1. PICK a \in Addresses :
          /\ request' = [request EXCEPT ![p] = [IdleRequest EXCEPT !.pc = "findAccount",
                                                                  !.address = a]]
          /\ overlapped' = IF AskingForLink(a) = {} THEN overlapped ELSE overlapped \cup {a}
    BY <1>2 DEF GetAffiliateLink
  <2> DEFINE r == [IdleRequest EXCEPT !.pc = "findAccount", !.address = a]
  <2>2. r \in Request /\ r.pc = "findAccount" /\ r.address = a
    BY DEF IdleRequest, Request
  <2>3. overlapped' \subseteq Addresses
    BY <2>1, AccountsAre
  <2>4. UNCHANGED <<accounts, payment, issued, answered>>
    BY <1>2 DEF GetAffiliateLink
  <2>5. request' = [request EXCEPT ![p] = r]
    BY <2>1
  <2> HIDE DEF r
  <2>6. QED  BY <1>1, <2>2, <2>3, <2>4, <2>5, AccountsAre, RequestBecomes
<1>3. ASSUME NEW p \in Requests, FindAccount(p)
      PROVE  AccountsTypeInv'
  <2> DEFINE b == request[p].address
  <2>1. b \in Addresses /\ UNCHANGED <<accounts, payment, overlapped>>
    BY <1>3, AccountsAre DEF FindAccount
  <2>2. CASE /\ request' = [request EXCEPT ![p].pc = "createAccount"]
             /\ UNCHANGED <<issued, answered>>
    <3> DEFINE r == [request[p] EXCEPT !.pc = "createAccount"]
    <3>1. r \in Request /\ r.pc = "createAccount" /\ r.address = b
      BY AccountsAre DEF Request
    <3>2. request' = [request EXCEPT ![p] = r]
      BY <2>2
    <3> HIDE DEF r
    <3>3. QED  BY <1>1, <2>1, <2>2, <3>1, <3>2, AccountsAre, RequestBecomes
  <2>3. CASE /\ Exists(b) /\ accounts[b].affiliate # Nobody
             /\ answered' = answered \cup {<<b, accounts[b].affiliate>>}
             /\ request' = [request EXCEPT ![p] = IdleRequest]
             /\ UNCHANGED issued
    <3>1. answered' \subseteq Addresses \X AffiliateIds
      BY <2>1, <2>3, AccountsAre
    <3>2. QED  BY <1>1, <2>1, <2>3, <3>1, RequestEnds
  <2>4. CASE Exists(b) /\ GenerateAffiliateId(p) /\ UNCHANGED answered
    <3>1. PICK id \in AffiliateIds :
            /\ issued' = issued \cup {id}
            /\ request' = [request EXCEPT ![p] = [request[p] EXCEPT !.pc = "setAffiliateId",
                                                                   !.affiliate = id]]
      BY <2>4, GeneratedIds DEF AccountsTypeInv
    <3> DEFINE r == [request[p] EXCEPT !.pc = "setAffiliateId", !.affiliate = id]
    <3>2. r \in Request /\ r.pc = "setAffiliateId" /\ r.address = b /\ r.affiliate = id
      BY AccountsAre DEF Request
    <3>3. request' = [request EXCEPT ![p] = r] /\ issued' \subseteq AffiliateIds
      BY <3>1, AccountsAre
    <3> HIDE DEF r
    <3>4. QED  BY <1>1, <2>1, <2>4, <3>2, <3>3, AccountsAre, RequestBecomes
  <2>5. QED  BY <1>3, <2>2, <2>3, <2>4 DEF FindAccount
<1>4. ASSUME NEW p \in Requests, CreateAccount(p)
      PROVE  AccountsTypeInv'
  <2> DEFINE b == request[p].address
  <2>1. b \in Addresses /\ UNCHANGED <<payment, answered, overlapped>>
    BY <1>4, AccountsAre DEF CreateAccount
  <2>2. CASE request' = [request EXCEPT ![p] = IdleRequest] /\ UNCHANGED <<accounts, issued>>
    BY <1>1, <2>1, <2>2, RequestEnds, AccountsAre
  <2>3. CASE accounts' = [accounts EXCEPT ![b] = NewAccount] /\ GenerateAffiliateId(p)
    <3>1. PICK id \in AffiliateIds :
            /\ issued' = issued \cup {id}
            /\ request' = [request EXCEPT ![p] = [request[p] EXCEPT !.pc = "setAffiliateId",
                                                                   !.affiliate = id]]
      BY <2>3, GeneratedIds DEF AccountsTypeInv
    <3> DEFINE r == [request[p] EXCEPT !.pc = "setAffiliateId", !.affiliate = id]
    <3>2. r \in Request /\ r.pc = "setAffiliateId" /\ r.address = b /\ r.affiliate = id
      BY AccountsAre DEF Request
    <3>3. request' = [request EXCEPT ![p] = r] /\ issued' \subseteq AffiliateIds
      BY <3>1, AccountsAre
    <3>4. accounts'[b] # Nobody
      BY <2>1, <2>3, AccountsAre, Records
    <3> HIDE DEF r
    <3>5. QED  BY <1>1, <2>1, <3>2, <3>3, <3>4, AccountsAre, RequestBecomes
  <2>4. QED  BY <1>4, <2>2, <2>3 DEF CreateAccount
<1>5. ASSUME NEW p \in Requests, UpdateAccountAffiliateId(p)
      PROVE  AccountsTypeInv'
  <2>1. request[p].address \in Addresses /\ request[p].affiliate \in AffiliateIds
    BY <1>5, AccountsAre DEF UpdateAccountAffiliateId, AccountsTypeInv
  <2>2. answered' \subseteq Addresses \X AffiliateIds
    BY <1>5, <2>1, AccountsAre DEF UpdateAccountAffiliateId
  <2>3. request' = [request EXCEPT ![p] = IdleRequest] /\ UNCHANGED <<payment, issued, overlapped>>
    BY <1>5 DEF UpdateAccountAffiliateId
  <2>4. QED  BY <1>1, <2>2, <2>3, RequestEnds
<1>6. ASSUME NEW p \in Requests, CreateUser(p)
      PROVE  AccountsTypeInv'
  <2>1. PICK a \in Addresses, id \in AffiliateIds :
          request' = [request EXCEPT ![p] = [pc |-> "getAccount", address |-> a,
                                             affiliate |-> id, referrer |-> Nobody]]
    BY <1>6 DEF CreateUser
  <2> DEFINE r == [pc |-> "getAccount", address |-> a, affiliate |-> id, referrer |-> Nobody]
  <2>2. r \in Request /\ r.pc = "getAccount" /\ r.address = a
    BY DEF Request
  <2>3. UNCHANGED <<accounts, payment, issued, answered, overlapped>>
    BY <1>6 DEF CreateUser
  <2>4. request' = [request EXCEPT ![p] = r]
    BY <2>1
  <2> HIDE DEF r
  <2>5. QED  BY <1>1, <2>2, <2>3, <2>4, AccountsAre, RequestBecomes
<1>7. ASSUME NEW p \in Requests, GetAccount(p)
      PROVE  AccountsTypeInv'
  <2> DEFINE b == request[p].address
             r == [request[p] EXCEPT !.pc = "getReferrer"]
  <2>1. b \in Addresses /\ UNCHANGED <<accounts, payment, issued, answered, overlapped>>
    BY <1>7, AccountsAre DEF GetAccount
  <2>2. CASE request' = [request EXCEPT ![p] = IdleRequest]
    BY <1>1, <2>1, <2>2, RequestEnds, AccountsAre
  <2>3. CASE request' = [request EXCEPT ![p] = r]
    <3>1. r \in Request /\ r.pc = "getReferrer" /\ r.address = b
      BY AccountsAre DEF Request
    <3> HIDE DEF r
    <3>2. QED  BY <1>1, <2>1, <2>3, <3>1, AccountsAre, RequestBecomes
  <2>4. QED  BY <1>7, <2>2, <2>3 DEF GetAccount
<1>8. ASSUME NEW p \in Requests, GetReferrer(p)
      PROVE  AccountsTypeInv'
  <2>1. /\ request[p].address \in Addresses
        /\ UNCHANGED <<accounts, payment, issued, answered, overlapped>>
    BY <1>8, AccountsAre DEF GetReferrer
  <2>2. CASE request' = [request EXCEPT ![p] = IdleRequest]
    BY <1>1, <2>1, <2>2, RequestEnds, AccountsAre
  <2>3. ASSUME NEW b \in ReferrerOf(request[p].affiliate),
               request' = [request EXCEPT ![p].pc = "createReferred", ![p].referrer = b]
        PROVE  AccountsTypeInv'
    <3> DEFINE r == [request[p] EXCEPT !.pc = "createReferred", !.referrer = b]
    <3>1. /\ r \in Request /\ r.pc = "createReferred"
          /\ r.address = request[p].address /\ r.referrer = b
      BY AccountsAre DEF Request, ReferrerOf
    <3>2. request' = [request EXCEPT ![p] = r]
      BY <2>3 DEF AccountsTypeInv, AccountsTypeOK, Request
    <3>3. b \in Addresses /\ accounts'[b] # Nobody
      BY <2>1 DEF ReferrerOf, Exists
    <3> HIDE DEF r
    <3>4. QED  BY <1>1, <2>1, <3>1, <3>2, <3>3, AccountsAre, RequestBecomes
  <2>4. QED  BY <1>8, <2>2, <2>3 DEF GetReferrer
<1>9. ASSUME NEW p \in Requests, CreateAccountWithReferrer(p)
      PROVE  AccountsTypeInv'
  <2>1. /\ request' = [request EXCEPT ![p] = IdleRequest]
        /\ UNCHANGED <<payment, issued, answered, overlapped>>
    BY <1>9 DEF CreateAccountWithReferrer
  <2>2. QED  BY <1>1, <2>1, RequestEnds, AccountsAre
<1>10. ASSUME NEW p \in Requests, FailRequest(p)
       PROVE  AccountsTypeInv'
  BY <1>1, <1>10, RequestEnds, AccountsAre DEF FailRequest
<1>11. ASSUME NEW c \in PaidChains, SetUserPoints(c)
       PROVE  AccountsTypeInv'
  <2>1. [pc |-> "findExisting", missing |-> {}] \in Payment
    BY DEF Payment
  <2>2. QED  BY <1>1, <1>11, <2>1, JobBecomes DEF SetUserPoints
<1>12. ASSUME NEW c \in PaidChains, FindExistingAccounts(c)
       PROVE  AccountsTypeInv'
  <2> DEFINE missing == {a \in Payees[c] : ~Exists(a)}
             j == [pc |-> IF missing = {} THEN "upsertUsers" ELSE "createMany",
                   missing |-> missing]
  <2>1. missing \subseteq Addresses
    BY AccountsAssumption
  <2>2. j \in Payment
    BY <2>1 DEF Payment
  <2>3. QED  BY <1>1, <1>12, <2>2, JobBecomes DEF FindExistingAccounts
<1>13. ASSUME NEW c \in PaidChains, CreateMany(c)
       PROVE  AccountsTypeInv'
  <2>1. [pc |-> "upsertUsers", missing |-> {}] \in Payment
    BY DEF Payment
  <2>2. QED  BY <1>1, <1>13, <2>1, Records, JobBecomes DEF CreateMany
<1>14. ASSUME NEW c \in PaidChains, UpsertUsers(c)
       PROVE  AccountsTypeInv'
  BY <1>1, <1>14, Records, JobBecomes DEF UpsertUsers
<1>15. CASE UNCHANGED accountsVars
  BY <1>15 DEF accountsVars, AccountsTypeInv, AccountsTypeOK, Exists
<1>16. QED
  BY <1>2, <1>3, <1>4, <1>5, <1>6, <1>7, <1>8, <1>9, <1>10, <1>11, <1>12, <1>13, <1>14, <1>15
     DEF AccountsNext, ServeRequest, Pay

\* No request is on its way with an address, an id or a referrer that its
\* step does not have: what each step uses, an earlier one has set.
THEOREM AccountsTypeCorrect == AccountsSpec => []AccountsTypeOK
<1>1. AccountsSpec => []AccountsTypeInv
  BY AccountsTypeInit, AccountsTypeStep, PTL DEF AccountsSpec
<1>2. AccountsTypeInv => AccountsTypeOK
  BY DEF AccountsTypeInv
<1>3. QED  BY <1>1, <1>2, PTL

----------------------------------------------------------------------------
(* Referrals.                                                              *)

\* Whatever requests and jobs race for an account, nobody who has one loses it
\* or is referred by somebody else later.
THEOREM ReferralsAlwaysStay == AccountsSpec => ReferralsStay
<1>1. AccountsTypeInv /\ [AccountsNext]_accountsVars =>
        [\A a \in Addresses : Exists(a) =>
           accounts'[a] # Nobody /\ accounts'[a].referrer = accounts[a].referrer]_accountsVars
  BY AccountsGrow DEF OnlyNewAccounts
<1>2. QED
  BY <1>1, AccountsTypeInit, AccountsTypeStep, PTL DEF AccountsSpec, ReferralsStay

LEMMA ReferralStep ==
  AccountsTypeInv /\ ReferralInv /\ [AccountsNext]_accountsVars => ReferralInv'
<1> SUFFICES ASSUME AccountsTypeInv, ReferralInv, [AccountsNext]_accountsVars
             PROVE  ReferralInv'
  OBVIOUS
<1>1. OnlyNewAccounts
  BY AccountsGrow
<1>2. \A a \in Addresses : accounts'[a] # Nobody /\ accounts'[a].referrer # Nobody =>
        accounts'[a].referrer \in Addresses /\ Exists(accounts'[a].referrer)
  <2> SUFFICES ASSUME NEW a \in Addresses, accounts'[a] # Nobody, accounts'[a].referrer # Nobody
               PROVE  accounts'[a].referrer \in Addresses /\ Exists(accounts'[a].referrer)
    OBVIOUS
  <2>1. CASE Exists(a)
    BY <1>1, <2>1 DEF OnlyNewAccounts, ReferralInv
  <2>2. CASE ~Exists(a)
    BY <1>1, <2>2 DEF OnlyNewAccounts
  <2>3. QED  BY <2>1, <2>2
<1>3. \A a \in Addresses : Exists(a) => accounts'[a] # Nobody
  BY <1>1 DEF OnlyNewAccounts
<1>4. ASSUME NEW S \in SUBSET {a \in Addresses : accounts'[a] # Nobody}, S # {}
      PROVE  \E a \in S : accounts'[a].referrer \notin S
  <2> DEFINE Old == {a \in S : Exists(a)}
  <2>1. CASE Old = {}
    <3>1. PICK a \in S : TRUE
      BY <1>4
    <3>2. accounts'[a].referrer = Nobody \/ Exists(accounts'[a].referrer)
      BY <1>2
    <3>3. accounts'[a].referrer \notin S
      BY <2>1, <3>2, Records
    <3>4. QED  BY <3>3
  <2>2. CASE Old # {}
    <3>1. Old \in SUBSET {a \in Addresses : Exists(a)}
      OBVIOUS
    <3>2. PICK a \in Old : accounts[a].referrer \notin Old
      BY <2>2, <3>1 DEF ReferralInv, ReferralsAreAcyclic
    <3>3. accounts'[a].referrer = accounts[a].referrer /\ accounts'[a] # Nobody
      BY <1>1 DEF OnlyNewAccounts
    <3>4. accounts'[a].referrer = Nobody \/ Exists(accounts'[a].referrer)
      BY <1>2, <3>3
    <3>5. accounts'[a].referrer \notin S
      BY <3>2, <3>3, <3>4, Records
    <3>6. QED  BY <3>5
  <2>3. QED  BY <2>1, <2>2
<1>5. QED  BY <1>2, <1>3, <1>4 DEF ReferralInv, ReferralsAreAcyclic, Exists

\* Nobody refers himself, directly or over others: a referrer had an account
\* when the link was used, and accounts keep their referrers.
THEOREM NoReferralCycles == AccountsSpec => []ReferralsAreAcyclic
<1>1. AccountsInit => ReferralInv
  BY DEF AccountsInit, ReferralInv, ReferralsAreAcyclic, Exists
<1>2. AccountsSpec => [](AccountsTypeInv /\ ReferralInv)
  BY <1>1, AccountsTypeInit, AccountsTypeStep, ReferralStep, PTL DEF AccountsSpec
<1>3. ReferralInv => ReferralsAreAcyclic
  BY DEF ReferralInv
<1>4. QED  BY <1>2, <1>3, PTL

----------------------------------------------------------------------------
(* Links.                                                                  *)

Asks(r, a) == r.address = a /\ r.pc \in {"findAccount", "createAccount", "setAffiliateId"}

\* A step in which the accounts keep their ids, answers are what they hold, and
\* only request p may change: it comes to ask for an address as the first one,
\* or is about to set the id of an account that has none.
LEMMA IdsStay ==
  ASSUME AccountsTypeInv, LinkInv, OnlyNewAccounts, NEW p,
         \A a \in Addresses : Exists(a) => accounts'[a].affiliate = accounts[a].affiliate,
         \A a \in Addresses, id \in AffiliateIds : <<a, id>> \in answered' =>
           <<a, id>> \in answered \/ (Exists(a) /\ accounts[a].affiliate = id),
         overlapped \subseteq overlapped',
         \A q \in Requests : q # p => request'[q] = request[q],
         p \in Requests =>
           /\ \A a \in Addresses : Asks(request'[p], a) =>
                Asks(request[p], a) \/ AskingForLink(a) = {} \/ a \in overlapped'
           /\ request'[p].pc = "setAffiliateId" =>
                \/ request'[p] = request[p]
                \/ accounts'[request'[p].address].affiliate = Nobody
  PROVE  LinkInv'
<1>1. AnsweredLinksWork'
  <2> SUFFICES ASSUME NEW a \in Addresses, NEW id \in AffiliateIds,
                      <<a, id>> \in answered', a \notin overlapped
               PROVE  accounts'[a] # Nobody /\ accounts'[a].affiliate = id
    BY DEF AnsweredLinksWork, Exists
  <2>1. Exists(a) /\ accounts[a].affiliate = id
    BY DEF LinkInv, AnsweredLinksWork
  <2>2. QED  BY <2>1 DEF OnlyNewAccounts
<1>2. \A a \in Addresses \ overlapped : \A q, r \in Requests :
        Asks(request[q], a) /\ Asks(request[r], a) => q = r
  BY DEF LinkInv, AskingForLink, Asks
<1>3. ASSUME NEW a \in Addresses \ overlapped', NEW q \in Requests, NEW r \in Requests,
             Asks(request'[q], a), Asks(request'[r], a), q # r
      PROVE  FALSE
  <2>1. a \notin overlapped
    OBVIOUS
  <2>2. ASSUME NEW x \in Requests, NEW y \in Requests, x # y,
               Asks(request'[x], a), Asks(request'[y], a), y # p
        PROVE  FALSE
    <3>1. Asks(request[y], a)
      BY <2>2
    <3>2. AskingForLink(a) # {}
      BY <3>1 DEF AskingForLink, Asks
    <3>3. Asks(request[x], a)
      BY <2>2, <3>2
    <3>4. QED  BY <1>2, <2>1, <2>2, <3>1, <3>3
  <2>3. QED  BY <1>3, <2>2
<1>4. \A a \in (Addresses \ overlapped)' : \A q, r \in AskingForLink(a)' : q = r
  BY <1>3 DEF AskingForLink, Asks
<1>5. ASSUME NEW q \in Requests, request'[q].pc = "setAffiliateId",
             request'[q].address \notin overlapped'
      PROVE  accounts'[request'[q].address].affiliate = Nobody
  <2>1. CASE request'[q] = request[q]
    <3>1. request[q].address \in Addresses /\ Exists(request[q].address)
      BY <1>5, <2>1, AccountsAre DEF AccountsTypeInv
    <3>2. accounts[request[q].address].affiliate = Nobody
      BY <1>5, <2>1 DEF LinkInv
    <3>3. QED  BY <2>1, <3>1, <3>2
  <2>2. CASE request'[q] # request[q]
    BY <1>5, <2>2
  <2>3. QED  BY <2>1, <2>2
<1>6. QED  BY <1>1, <1>4, <1>5 DEF LinkInv

LEMMA LinkStep ==
  AccountsTypeInv /\ LinkInv /\ [AccountsNext]_accountsVars => LinkInv'
<1> SUFFICES ASSUME AccountsTypeInv, LinkInv, [AccountsNext]_accountsVars
             PROVE  LinkInv'
  OBVIOUS
<1>1. OnlyNewAccounts /\ request \in [Requests -> Request]
  BY AccountsGrow DEF AccountsTypeInv, AccountsTypeOK
<1>2. ASSUME NEW p \in Requests, GetAffiliateLink(p)
      PROVE  LinkInv'
  <2>1. PICK a \in Addresses :
          /\ request' = [request EXCEPT ![p] = [IdleRequest EXCEPT !.pc = "findAccount",
                                                                  !.address = a]]
          /\ overlapped' = IF AskingForLink(a) = {} THEN overlapped ELSE overlapped \cup {a}
    BY <1>2 DEF GetAffiliateLink
  <2>2. /\ request'[p].pc = "findAccount" /\ request'[p].address = a
        /\ \A q \in Requests : q # p => request'[q] = request[q]
    BY <1>1, <2>1 DEF IdleRequest
  <2>3. AskingForLink(a) = {} \/ a \in overlapped'
    BY <2>1
  <2>4. overlapped \subseteq overlapped'
    BY <2>1
  <2>5. UNCHANGED <<accounts, answered>>
    BY <1>2 DEF GetAffiliateLink
  <2>6. \A b \in Addresses : Asks(request'[p], b) => AskingForLink(b) = {} \/ b \in overlapped'
    BY <2>2, <2>3 DEF Asks
  <2>7. QED  BY <1>1, <2>2, <2>4, <2>5, <2>6, IdsStay
<1>3. ASSUME NEW p \in Requests, FindAccount(p)
      PROVE  LinkInv'
  <2> DEFINE b == request[p].address
  <2>1. /\ b \in Addresses /\ UNCHANGED <<accounts, overlapped>>
        /\ request[p].pc = "findAccount" /\ Asks(request[p], b)
    BY <1>3, AccountsAre DEF FindAccount, Asks
  <2>2. CASE /\ request' = [request EXCEPT ![p].pc = "createAccount"]
             /\ UNCHANGED answered
    <3>1. /\ request'[p].pc = "createAccount" /\ request'[p].address = b
          /\ \A q \in Requests : q # p => request'[q] = request[q]
      BY <1>1, <2>2 DEF Request
    <3>2. \A a \in Addresses : Asks(request'[p], a) => Asks(request[p], a)
      BY <2>1, <3>1 DEF Asks
    <3>3. QED  BY <1>1, <2>1, <2>2, <3>1, <3>2, IdsStay
  <2>3. CASE /\ Exists(b) /\ accounts[b].affiliate # Nobody
             /\ answered' = answered \cup {<<b, accounts[b].affiliate>>}
             /\ request' = [request EXCEPT ![p] = IdleRequest]
    <3>1. /\ request'[p].pc = "idle"
          /\ \A q \in Requests : q # p => request'[q] = request[q]
      BY <1>1, <2>3, Records
    <3>2. \A a \in Addresses : ~Asks(request'[p], a)
      BY <3>1 DEF Asks
    <3>3. \A a \in Addresses, id \in AffiliateIds : <<a, id>> \in answered' =>
            <<a, id>> \in answered \/ (Exists(a) /\ accounts[a].affiliate = id)
      BY <2>3
    <3>4. QED  BY <1>1, <2>1, <3>1, <3>2, <3>3, IdsStay
  <2>4. CASE /\ Exists(b) /\ ~(accounts[b].affiliate # Nobody)
             /\ GenerateAffiliateId(p) /\ UNCHANGED answered
    <3>1. PICK id \in AffiliateIds :
            request' = [request EXCEPT ![p] = [request[p] EXCEPT !.pc = "setAffiliateId",
                                                                 !.affiliate = id]]
      BY <2>4, GeneratedIds DEF AccountsTypeInv
    <3>2. /\ request'[p].pc = "setAffiliateId" /\ request'[p].address = b
          /\ \A q \in Requests : q # p => request'[q] = request[q]
      BY <1>1, <3>1 DEF Request
    <3>3. \A a \in Addresses : Asks(request'[p], a) => Asks(request[p], a)
      BY <2>1, <3>2 DEF Asks
    <3>4. accounts'[request'[p].address].affiliate = Nobody
      BY <2>1, <2>4, <3>2
    <3>5. QED  BY <1>1, <2>1, <2>4, <3>2, <3>3, <3>4, IdsStay
  <2>5. QED  BY <1>3, <2>2, <2>3, <2>4 DEF FindAccount
<1>4. ASSUME NEW p \in Requests, CreateAccount(p)
      PROVE  LinkInv'
  <2> DEFINE b == request[p].address
  <2>1. /\ b \in Addresses /\ UNCHANGED <<answered, overlapped>>
        /\ request[p].pc = "createAccount" /\ Asks(request[p], b)
    BY <1>4, AccountsAre DEF CreateAccount, Asks
  <2>2. CASE request' = [request EXCEPT ![p] = IdleRequest] /\ UNCHANGED accounts
    <3>1. /\ request'[p].pc = "idle"
          /\ \A q \in Requests : q # p => request'[q] = request[q]
      BY <1>1, <2>2, Records
    <3>2. \A a \in Addresses : ~Asks(request'[p], a)
      BY <3>1 DEF Asks
    <3>3. QED  BY <1>1, <2>1, <2>2, <3>1, <3>2, IdsStay
  <2>3. CASE /\ ~Exists(b) /\ accounts' = [accounts EXCEPT ![b] = NewAccount]
             /\ GenerateAffiliateId(p)
    <3>1. PICK id \in AffiliateIds :
            request' = [request EXCEPT ![p] = [request[p] EXCEPT !.pc = "setAffiliateId",
                                                                 !.affiliate = id]]
      BY <2>3, GeneratedIds DEF AccountsTypeInv
    <3>2. /\ request'[p].pc = "setAffiliateId" /\ request'[p].address = b
          /\ \A q \in Requests : q # p => request'[q] = request[q]
      BY <1>1, <3>1 DEF Request
    <3>3. \A a \in Addresses : Asks(request'[p], a) => Asks(request[p], a)
      BY <2>1, <3>2 DEF Asks
    <3>4. /\ accounts'[b].affiliate = Nobody
          /\ \A a \in Addresses : Exists(a) => accounts'[a].affiliate = accounts[a].affiliate
      BY <2>1, <2>3, AccountsAre, Records
    <3>5. QED  BY <1>1, <2>1, <3>2, <3>3, <3>4, IdsStay
  <2>4. QED  BY <1>4, <2>2, <2>3 DEF CreateAccount
<1>5. ASSUME NEW p \in Requests, UpdateAccountAffiliateId(p)
      PROVE  LinkInv'
  <2> DEFINE b == request[p].address
             n == [affiliate |-> request[p].affiliate, referrer |-> accounts[b].referrer]
  <2>1. /\ b \in Addresses /\ request[p].affiliate \in AffiliateIds
        /\ request[p].pc = "setAffiliateId" /\ Asks(request[p], b)
        /\ UNCHANGED overlapped
    BY <1>5, AccountsAre DEF UpdateAccountAffiliateId, AccountsTypeInv, Asks
  <2>2. /\ accounts' = [accounts EXCEPT ![b] = n]
        /\ answered' = answered \cup {<<b, request[p].affiliate>>}
        /\ request' = [request EXCEPT ![p] = IdleRequest]
    BY <1>5 DEF UpdateAccountAffiliateId
  <2>3. n \in Account /\ n.affiliate = request[p].affiliate /\ n # Nobody
    BY <2>1, AccountsAre, Records DEF Account, AccountsTypeInv
  <2> HIDE DEF n
  <2>4. /\ accounts'[b] = n
        /\ \A a \in Addresses \ {b} : accounts'[a] = accounts[a]
    BY <2>1, <2>2, AccountsAre
  <2>5. /\ request'[p].pc = "idle"
        /\ \A q \in Requests : q # p => request'[q] = request[q]
    BY <1>1, <2>2, Records
  <2>6. \A a \in Addresses \ overlapped : \A q, r \in Requests :
          Asks(request[q], a) /\ Asks(request[r], a) => q = r
    BY DEF LinkInv, AskingForLink, Asks
  <2>7. AnsweredLinksWork'
    <3> SUFFICES ASSUME NEW a \in Addresses, NEW id \in AffiliateIds,
                        <<a, id>> \in answered', a \notin overlapped
                 PROVE  accounts'[a] # Nobody /\ accounts'[a].affiliate = id
      BY <2>1 DEF AnsweredLinksWork, Exists
    <3>1. CASE <<a, id>> \in answered
      <4>1. Exists(a) /\ accounts[a].affiliate = id
        BY <3>1 DEF LinkInv, AnsweredLinksWork
      <4>2. a # b
        BY <2>1, <4>1, Records DEF LinkInv
      <4>3. QED  BY <2>4, <4>1, <4>2 DEF Exists
    <3>2. CASE <<a, id>> \notin answered
      BY <2>2, <2>3, <2>4, <3>2
    <3>3. QED  BY <3>1, <3>2
  <2>8. \A a \in (Addresses \ overlapped)' : \A q, r \in AskingForLink(a)' : q = r
    BY <2>1, <2>5, <2>6 DEF AskingForLink, Asks
  <2>9. ASSUME NEW q \in Requests, request'[q].pc = "setAffiliateId",
               request'[q].address \notin overlapped'
        PROVE  accounts'[request'[q].address].affiliate = Nobody
    <3>1. q # p /\ request'[q] = request[q]
      BY <2>5, <2>9
    <3>2. request[q].address \in Addresses /\ Asks(request[q], request[q].address)
      BY <2>9, <3>1, AccountsAre DEF Asks
    <3>3. request[q].address # b
      BY <2>1, <2>6, <2>9, <3>1, <3>2
    <3>4. accounts[request[q].address].affiliate = Nobody
      BY <2>1, <2>9, <3>1 DEF LinkInv
    <3>5. QED  BY <2>4, <3>1, <3>2, <3>3, <3>4
  <2>10. QED  BY <2>7, <2>8, <2>9 DEF LinkInv
<1>6. ASSUME NEW p \in Requests,
             CreateUser(p) \/ GetAccount(p) \/ GetReferrer(p) \/ FailRequest(p)
      PROVE  LinkInv'
  <2>1. UNCHANGED <<accounts, answered, overlapped>>
    BY <1>6 DEF CreateUser, GetAccount, GetReferrer, FailRequest
  <2>2. \A q \in Requests : q # p => request'[q] = request[q]
    BY <1>1, <1>6 DEF CreateUser, GetAccount, GetReferrer, FailRequest
  <2>3. request'[p].pc \in {"idle", "getAccount", "getReferrer", "createReferred"}
    <3>1. CASE CreateUser(p)
      BY <1>1, <3>1 DEF CreateUser
    <3>2. CASE GetAccount(p)
      BY <1>1, <3>2, Records DEF GetAccount, Request
    <3>3. CASE FailRequest(p)
      BY <1>1, <3>3, Records DEF FailRequest
    <3>4. CASE GetReferrer(p)
      <4>1. CASE request' = [request EXCEPT ![p] = IdleRequest]
        BY <1>1, <4>1, Records
      <4>2. ASSUME NEW r \in ReferrerOf(request[p].affiliate),
                   request' = [request EXCEPT ![p].pc = "createReferred", ![p].referrer = r]
            PROVE  request'[p].pc = "createReferred"
        BY <1>1, <4>2 DEF Request
      <4>3. QED  BY <3>4, <4>1, <4>2 DEF GetReferrer
    <3>5. QED  BY <1>6, <3>1, <3>2, <3>3, <3>4
  <2>4. \A a \in Addresses : ~Asks(request'[p], a)
    BY <2>3 DEF Asks
  <2>5. request'[p].pc # "setAffiliateId"
    BY <2>3
  <2>6. QED  BY <1>1, <2>1, <2>2, <2>4, <2>5, IdsStay
<1>7. ASSUME NEW p \in Requests, CreateAccountWithReferrer(p)
      PROVE  LinkInv'
  <2>1. /\ request' = [request EXCEPT ![p] = IdleRequest]
        /\ UNCHANGED <<answered, overlapped>>
    BY <1>7 DEF CreateAccountWithReferrer
  <2>2. /\ request'[p].pc = "idle"
        /\ \A q \in Requests : q # p => request'[q] = request[q]
    BY <1>1, <2>1, Records
  <2>3. \A a \in Addresses : ~Asks(request'[p], a)
    BY <2>2 DEF Asks
  <2>4. \A a \in Addresses : Exists(a) => accounts'[a] = accounts[a]
    BY <1>7, AccountsAre DEF CreateAccountWithReferrer
  <2>5. QED  BY <1>1, <2>1, <2>2, <2>3, <2>4, IdsStay
<1>8. ASSUME NEW c \in PaidChains, Pay(c)
      PROVE  LinkInv'
  <2>1. UNCHANGED <<request, answered, overlapped>>
    BY <1>8 DEF Pay, SetUserPoints, FindExistingAccounts, CreateMany, UpsertUsers
  <2>2. \A a \in Addresses : Exists(a) => accounts'[a] = accounts[a]
    BY <1>8, AccountsAre DEF Pay, SetUserPoints, FindExistingAccounts, CreateMany, UpsertUsers
  <2>3. QED  BY <1>1, <2>1, <2>2, IdsStay
<1>9. CASE UNCHANGED accountsVars
  BY <1>1, <1>9, IdsStay DEF accountsVars
<1>10. QED
  BY <1>2, <1>3, <1>4, <1>5, <1>6, <1>7, <1>8, <1>9 DEF AccountsNext, ServeRequest

\* A link that was answered works, as long as no two requests for the link of
\* that address were served at once.
THEOREM LinksWork == AccountsSpec => []AnsweredLinksWork
<1>1. AccountsInit => LinkInv
  BY Records DEF AccountsInit, LinkInv, AnsweredLinksWork, AskingForLink, Exists
<1>2. AccountsSpec => [](AccountsTypeInv /\ LinkInv)
  BY <1>1, AccountsTypeInit, AccountsTypeStep, LinkStep, PTL DEF AccountsSpec
<1>3. LinkInv => AnsweredLinksWork
  BY DEF LinkInv
<1>4. QED  BY <1>2, <1>3, PTL

----------------------------------------------------------------------------
(* Payees.                                                                 *)

\* A job that has looked up its accounts holds those of its payees that had
\* none; the rest have one.
PayeesInv ==
  /\ PayeesHaveAccounts
  /\ \A c \in PaidChains : payment[c].pc = "createMany" =>
       \A a \in Payees[c] \ payment[c].missing : Exists(a)

LEMMA PayeesStep ==
  AccountsTypeInv /\ PayeesInv /\ [AccountsNext]_accountsVars => PayeesInv'
<1> SUFFICES ASSUME AccountsTypeInv, PayeesInv, [AccountsNext]_accountsVars
             PROVE  PayeesInv'
  OBVIOUS
<1>1. /\ \A c \in PaidChains : Payees[c] \subseteq Addresses
      /\ \A a \in Addresses : Exists(a) => accounts'[a] # Nobody
      /\ payment \in [PaidChains -> Payment]
  BY AccountsGrow, AccountsAssumption DEF OnlyNewAccounts, AccountsTypeInv, AccountsTypeOK
<1>2. CASE UNCHANGED payment
  BY <1>1, <1>2 DEF PayeesInv, PayeesHaveAccounts, Exists
<1>3. ASSUME NEW c \in PaidChains, NEW j \in Payment, payment' = [payment EXCEPT ![c] = j],
             j.pc = "upsertUsers" => \A a \in Payees[c] : accounts'[a] # Nobody,
             j.pc = "createMany" => \A a \in Payees[c] \ j.missing : accounts'[a] # Nobody
      PROVE  PayeesInv'
  <2>1. payment'[c] = j /\ \A d \in PaidChains \ {c} : payment'[d] = payment[d]
    BY <1>1, <1>3
  <2>2. QED  BY <1>1, <1>3, <2>1 DEF PayeesInv, PayeesHaveAccounts, Exists
<1>4. ASSUME NEW c \in PaidChains, SetUserPoints(c)
      PROVE  PayeesInv'
  <2> DEFINE j == [pc |-> "findExisting", missing |-> {}]
  <2>1. j \in Payment /\ j.pc = "findExisting" /\ payment' = [payment EXCEPT ![c] = j]
    BY <1>4 DEF SetUserPoints, Payment
  <2> HIDE DEF j
  <2>2. QED  BY <1>3, <2>1
<1>5. ASSUME NEW c \in PaidChains, FindExistingAccounts(c)
      PROVE  PayeesInv'
  <2> DEFINE missing == {a \in Payees[c] : ~Exists(a)}
             j == [pc |-> IF missing = {} THEN "upsertUsers" ELSE "createMany",
                   missing |-> missing]
  <2>1. /\ j \in Payment /\ j.missing = missing
        /\ j.pc = "upsertUsers" => missing = {}
    BY <1>1 DEF Payment
  <2>2. payment' = [payment EXCEPT ![c] = j] /\ UNCHANGED accounts
    BY <1>5 DEF FindExistingAccounts
  <2>3. \A a \in Payees[c] \ missing : accounts'[a] # Nobody
    BY <2>2 DEF Exists
  <2> HIDE DEF j
  <2>4. QED  BY <1>3, <2>1, <2>2, <2>3
<1>6. ASSUME NEW c \in PaidChains, CreateMany(c)
      PROVE  PayeesInv'
  <2>1. CASE payment' = [payment EXCEPT ![c] = IdlePayment]
    BY <1>3, <2>1, Records DEF IdlePayment
  <2> DEFINE j == [pc |-> "upsertUsers", missing |-> {}]
  <2>2. CASE /\ payment' = [payment EXCEPT ![c] = j]
             /\ accounts' = [a \in Addresses |-> IF a \in payment[c].missing THEN NewAccount
                                                ELSE accounts[a]]
    <3>1. j \in Payment /\ j.pc = "upsertUsers"
      BY DEF Payment
    <3>2. \A a \in Payees[c] : accounts'[a] # Nobody
      BY <1>1, <1>6, <2>2, Records DEF CreateMany, PayeesInv, Exists
    <3> HIDE DEF j
    <3>3. QED  BY <1>3, <2>2, <3>1, <3>2
  <2>3. QED  BY <1>6, <2>1, <2>2 DEF CreateMany
<1>7. ASSUME NEW c \in PaidChains, UpsertUsers(c)
      PROVE  PayeesInv'
  BY <1>3, <1>7, Records DEF UpsertUsers, IdlePayment
<1>8. ASSUME NEW p \in Requests, ServeRequest(p)
      PROVE  UNCHANGED payment
  BY <1>8 DEF ServeRequest, GetAffiliateLink, FindAccount, CreateAccount,
              UpdateAccountAffiliateId, CreateUser, GetAccount, GetReferrer,
              CreateAccountWithReferrer, FailRequest
<1>9. QED
  BY <1>2, <1>4, <1>5, <1>6, <1>7, <1>8 DEF AccountsNext, Pay, accountsVars

\* When a job upserts its users, all of them have accounts: none was missing,
\* or it has created exactly those that were, and accounts do not go away.
THEOREM PayeesAlwaysHaveAccounts == AccountsSpec => []PayeesHaveAccounts
<1>1. AccountsInit => PayeesInv
  BY DEF AccountsInit, PayeesInv, PayeesHaveAccounts, IdlePayment
<1>2. AccountsSpec => [](AccountsTypeInv /\ PayeesInv)
  BY <1>1, AccountsTypeInit, AccountsTypeStep, PayeesStep, PTL DEF AccountsSpec
<1>3. PayeesInv => PayeesHaveAccounts
  BY DEF PayeesInv
<1>4. QED  BY <1>2, <1>3, PTL

----------------------------------------------------------------------------
(* Races for accounts.                                                     *)

\* The payees of a chain that a job would have to create accounts for.
WithoutAccount(c) == {a \in Payees[c] : ~Exists(a)}

\* What PaymentsGoOn rests on.  A job whose createMany fails was beaten to one
\* at least of the accounts it found missing, and no account goes away.  So
\* each lost race leaves its chain fewer races to lose, and without one a run
\* gets from createMany to its upsert.
THEOREM LostRacesRunOut ==
  AccountsSpec =>
    [][\A c \in PaidChains :
         /\ WithoutAccount(c)' \subseteq WithoutAccount(c)
         /\ payment[c].pc = "createMany" /\ payment'[c].pc # "createMany" =>
              \/ payment'[c].pc = "upsertUsers"
              \/ /\ WithoutAccount(c)' \subseteq payment[c].missing
                 /\ WithoutAccount(c)' # payment[c].missing]_accountsVars
<1> DEFINE RunsOut(c) ==
      /\ WithoutAccount(c)' \subseteq WithoutAccount(c)
      /\ payment[c].pc = "createMany" /\ payment'[c].pc # "createMany" =>
           \/ payment'[c].pc = "upsertUsers"
           \/ /\ WithoutAccount(c)' \subseteq payment[c].missing
              /\ WithoutAccount(c)' # payment[c].missing
<1>1. ASSUME AccountsTypeInv, PayeesInv, AccountsNext, NEW c \in PaidChains
      PROVE  RunsOut(c)
  <2>1. /\ Payees[c] \subseteq Addresses
        /\ \A a \in Addresses : Exists(a) => accounts'[a] # Nobody
        /\ payment \in [PaidChains -> Payment]
    BY <1>1, AccountsGrow, AccountsAssumption
       DEF OnlyNewAccounts, AccountsTypeInv, AccountsTypeOK
  <2>2. WithoutAccount(c)' \subseteq WithoutAccount(c)
    BY <2>1 DEF WithoutAccount, Exists
  <2>3. ASSUME payment[c].pc = "createMany", payment'[c].pc # "createMany"
        PROVE  CreateMany(c)
    <3>1. payment' # payment
      BY <2>3
    <3>2. PICK d \in PaidChains : Pay(d)
      BY <1>1, <3>1
         DEF AccountsNext, ServeRequest, GetAffiliateLink, FindAccount, CreateAccount,
             UpdateAccountAffiliateId, CreateUser, GetAccount, GetReferrer,
             CreateAccountWithReferrer, FailRequest
    <3>3. d = c
      BY <2>1, <2>3, <3>2
         DEF Pay, SetUserPoints, FindExistingAccounts, CreateMany, UpsertUsers
    <3>4. QED
      BY <2>3, <3>2, <3>3 DEF Pay, SetUserPoints, FindExistingAccounts, UpsertUsers
  <2>4. ASSUME payment[c].pc = "createMany", payment'[c].pc # "createMany",
               payment'[c].pc # "upsertUsers"
        PROVE  /\ WithoutAccount(c)' \subseteq payment[c].missing
               /\ WithoutAccount(c)' # payment[c].missing
    <3>1. WithoutAccount(c) \subseteq payment[c].missing
      BY <1>1, <2>4 DEF PayeesInv, WithoutAccount
    <3>2. PICK a \in payment[c].missing : Exists(a)
      <4> DEFINE j == [pc |-> "upsertUsers", missing |-> {}]
      <4>1. payment' # [payment EXCEPT ![c] = j]
        BY <2>1, <2>4
      <4>2. QED  BY <2>3, <2>4, <4>1 DEF CreateMany
    <3>3. a \notin WithoutAccount(c)
      BY <3>2 DEF WithoutAccount
    <3>4. QED  BY <2>2, <3>1, <3>2, <3>3
  <2>5. QED  BY <2>2, <2>4
<1>2. AccountsTypeInv /\ PayeesInv /\ [AccountsNext]_accountsVars =>
        [\A c \in PaidChains : RunsOut(c)]_accountsVars
  BY <1>1
<1>3. AccountsInit => PayeesInv
  BY DEF AccountsInit, PayeesInv, PayeesHaveAccounts, IdlePayment
<1>4. QED
  BY <1>2, <1>3, AccountsTypeInit, AccountsTypeStep, PayeesStep, PTL DEF AccountsSpec
=============================================================================
