--------------------------- MODULE Accounts_proofs ---------------------------
(***************************************************************************)
(* Proofs about Accounts, for every number of users, contacts, identities  *)
(* and requests: that no interleaving of registrations, social logins and  *)
(* updates of contact data breaks the uniqueness of a contact, the link of *)
(* an identity or the reachability of an account, and that the blocks of a *)
(* pair alternate with its unblocks.                                       *)
(***************************************************************************)
EXTENDS Accounts, TLAPS

-----------------------------------------------------------------------------
(* The inductive invariant.                                                *)

\* What a request q knows at each stage, of the emails e and the links l of the
\* tables: users it has found still exist, a row that awaits its INSERT has an
\* email and a phone that are real or placeholders of its own identity and, where
\* there is no identity, an email in its normal spelling, and fields are left to
\* look up only between the read and the update of a profile.
Fits(q, e, l) ==
    LET contact == q.contact  x == q.identity IN
    /\ q.stage \in {"inserting", "matching"} =>
          /\ contact.email \in Emails \cup {x} /\ contact.email # None
          /\ contact.phone \in Phones \cup {x} /\ contact.phone # None
          /\ contact.document \in Documents \cup {None}
          /\ x = None => contact.email \in Emails /\ ~ProviderSpelling(contact.email)
    /\ q.stage \in {"matching", "linking", "signedIn"} => x \in Identities
    /\ q.stage \in {"linking", "read", "signedIn"} => q.user \in Users /\ e[q.user] # None
    /\ q.stage = "read" => contact.phone \in Phones \cup {"kept"}
    /\ q.stage # "read" => q.checks = {}
    /\ q.stage = "signedIn" => l[x] = q.user
    /\ q.stage \in {"blocking", "unblocking"} => q.user \in Users /\ q.other \in Users

RequestsFit == \A r \in Requests : Fits(req[r], email, link)

\* An identity leads to a user who exists, and no two of one provider to the same;
\* who exists has a phone, and an email that is spelled as a provider did only if
\* some identity leads there.
RowsFit ==
    /\ \A x \in Identities : link[x] # None => link[x] \in Users /\ Exists(link[x])
    /\ \A x, y \in Identities : x # y /\ x[1] = y[1] /\ link[x] # None => link[x] # link[y]
    /\ \A u \in Users : Exists(u) => phone[u] # None
    /\ \A u \in Users : ProviderSpelling(email[u]) => \E x \in Identities : link[x] = u

\* Emails, phones and documents as they are stored are unique.
StoredUnique ==
    \A u, w \in Users : u # w /\ Exists(u) /\ Exists(w) =>
        /\ email[u] # email[w]
        /\ phone[u] # phone[w]
        /\ document[u] # None => document[u] # document[w]

\* A placeholder leads to its user, be it an email or a phone, except an email
\* that a client may have given: no check of an email refuses a placeholder.
PlaceholdersLead ==
    \A u \in Users : Exists(u) =>
        /\ email[u] \in Identities \ Emails => link[email[u]] = u
        /\ phone[u] \in Identities => link[phone[u]] = u

AccountInv ==
    /\ AccountTypeOK
    /\ RequestsFit
    /\ RowsFit
    /\ StoredUnique
    /\ PlaceholdersLead
    /\ BlocksAlternate

-----------------------------------------------------------------------------
(* Lemmas.                                                                 *)

\* What a request knows stays true while users stay and links are final.
LEMMA FitsPersists ==
    ASSUME NEW q \in RequestState, NEW e, NEW f, NEW l, NEW k, Fits(q, e, l),
           \A u \in Users : e[u] # None => f[u] # None,
           \A x \in Identities : l[x] # None => k[x] = l[x]
    PROVE  Fits(q, f, k)
  BY AccountConstants DEF Fits, RequestState

\* A slot that holds nothing knows nothing.
LEMMA IdleFits ==
    ASSUME NEW e, NEW l
    PROVE  IdleRequest \in RequestState /\ Fits(IdleRequest, e, l)
  BY DEF IdleRequest, NoContact, RequestState, Contact, Terminal, Fits

\* A step that changes one request and no table.
LEMMA OnlyRequest ==
    ASSUME AccountInv, NEW r \in Requests, NEW q \in RequestState,
           Fits(q, email, link), req' = [req EXCEPT ![r] = q],
           UNCHANGED <<contactVars, link, blockVars>>
    PROVE  AccountInv'
<1> USE DEF contactVars, blockVars
<1>1. AccountTypeOK'
  BY DEF AccountInv, AccountTypeOK
<1>2. RequestsFit'
  BY DEF AccountInv, RequestsFit, AccountTypeOK
<1>3. (RowsFit /\ StoredUnique /\ PlaceholdersLead /\ BlocksAlternate)'
  BY DEF AccountInv, RowsFit, StoredUnique, PlaceholdersLead,
         BlocksAlternate, Exists
<1> QED
  BY <1>1, <1>2, <1>3 DEF AccountInv

\* ... in particular one that ends the request.
LEMMA Ended ==
    ASSUME AccountInv, NEW r \in Requests, End(r),
           UNCHANGED <<contactVars, link, blockVars>>
    PROVE  AccountInv'
<1> HIDE DEF AccountInv
<1> QED
  BY IdleFits, OnlyRequest DEF End

\* A request that has arrived with the record q of its slot.
LEMMA RequestTyped ==
    ASSUME AccountInv, NEW r \in Requests
    PROVE  req[r] \in RequestState /\ Fits(req[r], email, link)
  BY DEF AccountInv, AccountTypeOK, RequestsFit

-----------------------------------------------------------------------------
(* One lemma per action.                                                   *)

LEMMA InitKeeps == AccountInit => AccountInv
<1> SUFFICES ASSUME AccountInit PROVE AccountInv
  OBVIOUS
<1>1. AccountTypeOK
  BY IdleFits DEF AccountInit, AccountTypeOK
<1>2. RequestsFit
  BY IdleFits DEF AccountInit, RequestsFit
<1>3. RowsFit /\ StoredUnique /\ PlaceholdersLead /\ BlocksAlternate
  BY AccountConstants DEF AccountInit, RowsFit, StoredUnique, PlaceholdersLead,
         BlocksAlternate, Exists, ProviderSpelling
<1> QED
  BY <1>1, <1>2, <1>3 DEF AccountInv

LEMMA RegisterCheckKeeps ==
    ASSUME AccountInv, NEW r \in Requests, NEW e \in Emails, NEW p \in Phones,
           NEW d \in Documents \cup {None}, RegisterCheck(r, e, p, d)
    PROVE  AccountInv'
<1> DEFINE address == normalizeEmail(e)
           q == [IdleRequest EXCEPT !.stage = "inserting",
                   !.contact = [email |-> address, phone |-> p, document |-> d]]
<1>1. address \in Emails /\ ~ProviderSpelling(address)
  BY AccountConstants DEF normalizeEmail, ProviderSpelling
<1>2. q = [IdleRequest EXCEPT !.stage = "inserting",
             !.contact = [email |-> normalizeEmail(e), phone |-> p, document |-> d]]
  OBVIOUS
<1> HIDE DEF address
<1>3. q \in RequestState /\ Fits(q, email, link)
  BY <1>1, AccountConstants DEF IdleRequest, RequestState, Contact, Terminal, Fits
<1>4. req' = [req EXCEPT ![r] = q] /\ UNCHANGED <<contactVars, link, blockVars>>
  BY <1>2 DEF RegisterCheck
<1> HIDE DEF q
<1> QED
  BY <1>3, <1>4, OnlyRequest

LEMMA FindIdentityKeeps ==
    ASSUME AccountInv, NEW r \in Requests, NEW x \in Identities,
           NEW e \in Emails \cup {None}, NEW confirmed \in BOOLEAN,
           FindIdentity(r, x, e, confirmed)
    PROVE  AccountInv'
<1> DEFINE contact == IF link[x] # None THEN NoContact
                      ELSE [email |-> IF e = None THEN x ELSE e, phone |-> x,
                            document |-> None]
           stage == IF link[x] # None THEN "signedIn"
                    ELSE IF MayLink(x, e, confirmed) THEN "matching" ELSE "inserting"
           q == [IdleRequest EXCEPT !.identity = x, !.user = link[x],
                   !.stage = stage, !.contact = contact]
<1>1. contact \in Contact /\ link[x] \in Users \cup {None}
  BY DEF Contact, NoContact, AccountInv, AccountTypeOK
<1>2. stage \in {"signedIn", "matching", "inserting"}
  OBVIOUS
<1>3. /\ link[x] # None => stage = "signedIn" /\ link[x] \in Users
                           /\ email[link[x]] # None
      /\ link[x] = None => /\ stage # "signedIn"
                           /\ contact.email \in Emails \cup {x} /\ contact.email # None
                           /\ contact.phone = x /\ contact.document = None
                           /\ x # None
  BY AccountConstants DEF AccountInv, RowsFit, Exists
<1>4. req' = [req EXCEPT ![r] = q] /\ UNCHANGED <<contactVars, link, blockVars>>
  BY DEF FindIdentity
<1> HIDE DEF contact, stage
<1>5. q \in RequestState
  BY <1>1, <1>2 DEF IdleRequest, RequestState, Terminal
<1>6. Fits(q, email, link)
  BY <1>2, <1>3 DEF IdleRequest, Fits
<1> HIDE DEF q
<1> QED
  BY <1>4, <1>5, <1>6, OnlyRequest

LEMMA ReadProfileKeeps ==
    ASSUME AccountInv, NEW r \in Requests, NEW u \in Users,
           NEW p \in Phones \cup {"kept"}, NEW d \in Documents \cup {None, "kept"},
           ReadProfile(r, u, p, d)
    PROVE  AccountInv'
<1> DEFINE checks == (IF p \in {"kept", phone[u]} THEN {} ELSE {"phone"})
              \cup (IF d \in {"kept", None, document[u]} THEN {} ELSE {"document"})
           q == [IdleRequest EXCEPT !.stage = "read", !.user = u,
                   !.contact = [email |-> None, phone |-> p, document |-> d],
                   !.checks = checks]
<1>1. checks \in SUBSET {"phone", "document"}
  OBVIOUS
<1>2. req' = [req EXCEPT ![r] = q] /\ UNCHANGED <<contactVars, link, blockVars>>
      /\ email[u] # None
  BY DEF ReadProfile, Exists
<1> HIDE DEF checks
<1>3. q \in RequestState /\ Fits(q, email, link)
  BY <1>1, <1>2 DEF IdleRequest, RequestState, Contact, Terminal, Fits
<1> HIDE DEF q
<1> QED
  BY <1>2, <1>3, OnlyRequest

LEMMA BlockChecksKeep ==
    ASSUME AccountInv, NEW r \in Requests, NEW u \in Users, NEW w \in Users,
           BlockCheck(r, u, w) \/ UnblockCheck(r, u, w)
    PROVE  AccountInv'
<1>1. PICK stage \in {"blocking", "unblocking"} :
        req' = [req EXCEPT ![r] = [IdleRequest EXCEPT
                  !.stage = stage, !.user = u, !.other = w]]
  BY DEF BlockCheck, UnblockCheck
<1> DEFINE q == [IdleRequest EXCEPT !.stage = stage, !.user = u, !.other = w]
<1>2. q \in RequestState /\ Fits(q, email, link)
  BY DEF IdleRequest, NoContact, RequestState, Contact, Terminal, Fits
<1>3. UNCHANGED <<contactVars, link, blockVars>>
  BY DEF BlockCheck, UnblockCheck
<1> HIDE DEF q
<1>4. req' = [req EXCEPT ![r] = q]
  BY <1>1 DEF q
<1> QED
  BY <1>2, <1>3, <1>4, OnlyRequest

LEMMA MatchEmailKeeps ==
    ASSUME AccountInv, NEW r \in Requests, MatchEmail(r)
    PROVE  AccountInv'
<1>1. req[r] \in RequestState /\ Fits(req[r], email, link) /\ req[r].stage = "matching"
      /\ UNCHANGED <<contactVars, link, blockVars>>
  BY RequestTyped DEF MatchEmail
<1>2. CASE Goto(r, "inserting")
  <2> DEFINE q == [req[r] EXCEPT !.stage = "inserting"]
  <2>1. q \in RequestState /\ Fits(q, email, link)
    BY <1>1 DEF RequestState, Fits
  <2>2. req' = [req EXCEPT ![r] = q]
    BY <1>2 DEF Goto
  <2> HIDE DEF q
  <2> QED
    BY <1>1, <2>1, <2>2, OnlyRequest
<1>3. ASSUME NEW u \in Users, HasEmail(u, req[r].contact.email),
             req' = [req EXCEPT ![r] = [@ EXCEPT
               !.stage = "linking", !.user = u, !.contact = NoContact]]
      PROVE  AccountInv'
  <2> DEFINE q == [req[r] EXCEPT !.stage = "linking", !.user = u, !.contact = NoContact]
  <2>1. q \in RequestState /\ Fits(q, email, link)
    BY <1>1, <1>3 DEF RequestState, Contact, NoContact, Fits, HasEmail, Exists
  <2>2. req' = [req EXCEPT ![r] = q]
    BY <1>3
  <2> HIDE DEF q
  <2> QED
    BY <1>1, <2>1, <2>2, OnlyRequest
<1> QED
  BY <1>2, <1>3 DEF MatchEmail

LEMMA ChecksKeep ==
    ASSUME AccountInv, NEW r \in Requests, CheckPhone(r) \/ CheckDocument(r)
    PROVE  AccountInv'
<1>1. UNCHANGED <<contactVars, link, blockVars>> /\ req[r].checks # {}
  BY DEF CheckPhone, CheckDocument
<1>2. CASE End(r)
  BY <1>1, <1>2, Ended
<1>3. ASSUME NEW field \in {"phone", "document"}, Checked(r, field)
      PROVE  AccountInv'
  <2> DEFINE q == [req[r] EXCEPT !.checks = req[r].checks \ {field}]
  <2>1. req[r] \in RequestState /\ Fits(req[r], email, link)
    BY RequestTyped
  <2>2. q \in RequestState /\ Fits(q, email, link)
    BY <1>1, <2>1 DEF RequestState, Fits
  <2>3. req' = [req EXCEPT ![r] = q]
    BY <1>3 DEF Checked
  <2> HIDE DEF q
  <2> QED
    BY <1>1, <2>2, <2>3, OnlyRequest
<1> QED
  BY <1>2, <1>3 DEF CheckPhone, CheckDocument

\* A step that writes contacts or links: the requests other than r keep what
\* they know, and r goes on with q.
LEMMA OthersFit ==
    ASSUME AccountInv, NEW r \in Requests, NEW q \in RequestState,
           Fits(q, email', link'), req' = [req EXCEPT ![r] = q],
           \A u \in Users : email[u] # None => email'[u] # None,
           \A x \in Identities : link[x] # None => link'[x] = link[x]
    PROVE  req' \in [Requests -> RequestState] /\ RequestsFit'
<1>1. req \in [Requests -> RequestState]
  BY DEF AccountInv, AccountTypeOK
<1>2. ASSUME NEW k \in Requests PROVE Fits(req'[k], email', link')
  <2>1. CASE k = r
    BY <1>1, <2>1
  <2>2. CASE k # r
    <3>1. req'[k] = req[k] /\ req[k] \in RequestState /\ Fits(req[k], email, link)
      BY <1>1, <2>2, RequestTyped
    <3> QED
      BY <3>1, FitsPersists
  <2> QED
    BY <2>1, <2>2
<1> QED
  BY <1>1, <1>2 DEF RequestsFit

LEMMA InsertUserKeeps ==
    ASSUME AccountInv, NEW r \in Requests, NEW u \in Users, InsertUser(r, u)
    PROVE  AccountInv'
<1> DEFINE contact == req[r].contact
           x == req[r].identity
<1>1. req[r] \in RequestState /\ Fits(req[r], email, link) /\ req[r].stage = "inserting"
      /\ email[u] = None /\ UNCHANGED blockVars
  BY RequestTyped DEF InsertUser, Exists
<1>2. CASE Taken(contact, x)
  <2>1. End(r) /\ UNCHANGED <<contactVars, link, blockVars>>
    BY <1>2 DEF InsertUser, Clash
  <2> QED
    BY <2>1, Ended
<1>3. CASE ~Taken(contact, x)
  <2>1. /\ email' = [email EXCEPT ![u] = contact.email]
        /\ phone' = [phone EXCEPT ![u] = contact.phone]
        /\ document' = [document EXCEPT ![u] = contact.document]
        /\ link' = [y \in Identities |-> IF y = x THEN u ELSE link[y]]
        /\ IF x = None THEN End(r) ELSE SignIn(r, u)
    BY <1>3 DEF InsertUser
  <2>2. /\ contact.email \in Emails \cup {x} /\ contact.email # None
        /\ contact.phone \in Phones \cup {x} /\ contact.phone # None
        /\ contact.document \in Documents \cup {None}
        /\ x \in Identities \cup {None}
        /\ x = None => ~ProviderSpelling(contact.email)
    BY <1>1 DEF Fits, RequestState
  <2>3. /\ \A w \in Users : Exists(w) =>
              /\ email[w] # contact.email /\ phone[w] # contact.phone
              /\ contact.document # None => document[w] # contact.document
        /\ x # None => link[x] = None
    BY <1>3 DEF Taken, HasEmail, HasPhone, HasDocument
  <2> HIDE DEF contact
  <2>4. PICK q \in RequestState : req' = [req EXCEPT ![r] = q] /\ Fits(q, email', link')
    <3>1. CASE x = None
      BY <2>1, <3>1, IdleFits DEF End
    <3>2. CASE x # None
      <4> DEFINE q == [IdleRequest EXCEPT !.stage = "signedIn", !.user = u, !.identity = x]
      <4>1. q \in RequestState
        BY <2>2 DEF IdleRequest, NoContact, RequestState, Contact, Terminal
      <4>2. email'[u] # None /\ link'[x] = u /\ x \in Identities
        BY <2>1, <2>2, <3>2 DEF AccountInv, AccountTypeOK
      <4>3. Fits(q, email', link')
        BY <4>2 DEF IdleRequest, Fits
      <4>4. req' = [req EXCEPT ![r] = q]
        BY <2>1, <3>2 DEF SignIn
      <4> QED
        BY <4>1, <4>3, <4>4
    <3> QED
      BY <3>1, <3>2
  <2> HIDE DEF x
  <2>5. /\ \A w \in Users : email[w] # None => email'[w] # None
        /\ \A y \in Identities : link[y] # None => link'[y] = link[y]
    BY <1>1, <2>1, <2>2, <2>3, AccountConstants DEF AccountInv, AccountTypeOK
  <2>6. req' \in [Requests -> RequestState] /\ RequestsFit'
    BY <2>4, <2>5, OthersFit
  <2>7. AccountTypeOK'
    BY <1>1, <2>1, <2>2, <2>6 DEF AccountInv, AccountTypeOK, blockVars
  <2>8. RowsFit'
    <3>1. /\ email \in [Users -> Emails \cup Identities \cup {None}]
          /\ phone \in [Users -> Phones \cup Identities \cup {None}]
      BY DEF AccountInv, AccountTypeOK
    <3>2. \A w \in Users : /\ email'[w] = IF w = u THEN contact.email ELSE email[w]
                           /\ phone'[w] = IF w = u THEN contact.phone ELSE phone[w]
      BY <2>1, <3>1
    <3>3. \A y \in Identities : link'[y] = IF y = x THEN u ELSE link[y]
      BY <2>1
    <3>4. \A y \in Identities :
             link[y] # None => link[y] \in Users /\ email[link[y]] # None /\ link[y] # u
      BY <1>1 DEF AccountInv, RowsFit, Exists
    <3>5. \A y \in Identities :
             link'[y] # None => link'[y] \in Users /\ email'[link'[y]] # None
      BY <2>2, <2>5, <3>2, <3>3, <3>4
    <3>6. \A w \in Users : email'[w] # None => phone'[w] # None
      BY <2>2, <3>2 DEF AccountInv, RowsFit, Exists
    <3>7. \A y, z \in Identities :
             y # z /\ y[1] = z[1] /\ link'[y] # None => link'[y] # link'[z]
      <4>1. \A y, z \in Identities :
               y # z /\ y[1] = z[1] /\ link[y] # None => link[y] # link[z]
        BY DEF AccountInv, RowsFit
      <4>2. u # None
        BY AccountConstants
      <4> QED
        BY <3>3, <3>4, <4>1, <4>2
    <3>8. ASSUME NEW w \in Users, ProviderSpelling(email'[w])
          PROVE  \E y \in Identities : link'[y] = w
      <4>1. CASE w = u
        <5>1. email'[w] = contact.email
          BY <3>2, <4>1
        <5>2. x \in Identities
          BY <2>2, <3>8, <5>1
        <5> QED
          BY <3>3, <4>1, <5>2
      <4>2. CASE w # u
        <5>1. email'[w] = email[w]
          BY <3>2, <4>2
        <5>2. PICK y \in Identities : link[y] = w
          BY <3>8, <5>1 DEF AccountInv, RowsFit
        <5> QED
          BY <2>5, <5>2, AccountConstants
      <4> QED
        BY <4>1, <4>2
    <3> QED
      BY <3>5, <3>6, <3>7, <3>8 DEF RowsFit, Exists
  <2>9. StoredUnique'
    BY <1>1, <2>1, <2>2, <2>3 DEF AccountInv, AccountTypeOK, StoredUnique, Exists
  <2>10. PlaceholdersLead'
    <3>1. ASSUME NEW w \in Users, email'[w] # None, w # u
          PROVE  /\ email'[w] \in Identities \ Emails => link'[email'[w]] = w
                 /\ phone'[w] \in Identities => link'[phone'[w]] = w
      <4>1. email'[w] = email[w] /\ phone'[w] = phone[w] /\ email[w] # None
        BY <2>1, <3>1 DEF AccountInv, AccountTypeOK
      <4> QED
        BY <2>5, <4>1, AccountConstants DEF AccountInv, PlaceholdersLead, Exists
    <3>2. /\ email'[u] \in Identities \ Emails => link'[email'[u]] = u
          /\ phone'[u] \in Identities => link'[phone'[u]] = u
      BY <2>1, <2>2, AccountConstants DEF AccountInv, AccountTypeOK
    <3> QED
      BY <3>1, <3>2 DEF PlaceholdersLead, Exists
  <2>11. BlocksAlternate'
    BY <1>1 DEF AccountInv, BlocksAlternate, blockVars
  <2> QED
    BY <2>6, <2>7, <2>8, <2>9, <2>10, <2>11 DEF AccountInv
<1> QED
  BY <1>2, <1>3

LEMMA LinkIdentityKeeps ==
    ASSUME AccountInv, NEW r \in Requests, LinkIdentity(r)
    PROVE  AccountInv'
<1> DEFINE x == req[r].identity
           u == req[r].user
<1>1. req[r] \in RequestState /\ Fits(req[r], email, link) /\ req[r].stage = "linking"
      /\ UNCHANGED <<contactVars, blockVars>>
  BY RequestTyped DEF LinkIdentity
<1>2. x \in Identities /\ u \in Users /\ email[u] # None
  BY <1>1 DEF Fits
<1>3. CASE Clash(r) /\ UNCHANGED link
  BY <1>1, <1>3, Ended DEF Clash
<1>4. CASE /\ link[x] = None /\ ~ProviderLinked(u, x)
           /\ link' = [link EXCEPT ![x] = u] /\ SignIn(r, u)
  <2> DEFINE q == [IdleRequest EXCEPT !.stage = "signedIn", !.user = u, !.identity = x]
  <2>1. q \in RequestState
    BY <1>2 DEF IdleRequest, NoContact, RequestState, Contact, Terminal
  <2>2. email' = email /\ link'[x] = u
    BY <1>1, <1>2, <1>4 DEF AccountInv, AccountTypeOK, contactVars
  <2>3. Fits(q, email', link')
    BY <1>2, <2>2 DEF IdleRequest, Fits
  <2>4. req' = [req EXCEPT ![r] = q]
    BY <1>4 DEF SignIn
  <2> HIDE DEF q, x, u
  <2>5. \A y \in Identities : link[y] # None => link'[y] = link[y]
    BY <1>4 DEF AccountInv, AccountTypeOK
  <2>6. req' \in [Requests -> RequestState] /\ RequestsFit'
    BY <2>1, <2>2, <2>3, <2>4, <2>5, OthersFit
  <2>7. AccountTypeOK'
    BY <1>1, <1>2, <1>4, <2>6 DEF AccountInv, AccountTypeOK, contactVars, blockVars
  <2>8. RowsFit'
    <3>1. \A y \in Identities : link'[y] = IF y = x THEN u ELSE link[y]
      BY <1>4 DEF AccountInv, AccountTypeOK
    <3>2. \A y \in Identities :
             link'[y] # None => link'[y] \in Users /\ email'[link'[y]] # None
      BY <1>1, <1>2, <3>1 DEF AccountInv, RowsFit, Exists, contactVars
    <3>3. \A y, z \in Identities :
             y # z /\ y[1] = z[1] /\ link'[y] # None => link'[y] # link'[z]
      BY <1>2, <1>4, <3>1, AccountConstants DEF AccountInv, RowsFit, ProviderLinked
    <3>4. /\ \A v \in Users : email'[v] # None => phone'[v] # None
          /\ \A v \in Users :
                ProviderSpelling(email'[v]) => \E y \in Identities : link'[y] = v
      BY <1>1, <1>4, <2>5, <3>1, AccountConstants
      DEF AccountInv, RowsFit, Exists, contactVars
    <3> QED
      BY <3>2, <3>3, <3>4 DEF RowsFit, Exists
  <2>9. StoredUnique' /\ BlocksAlternate'
    BY <1>1 DEF AccountInv, StoredUnique, BlocksAlternate, Exists, contactVars, blockVars
  <2>10. PlaceholdersLead'
    BY <1>1, <2>5, AccountConstants
    DEF AccountInv, PlaceholdersLead, Exists, contactVars
  <2> QED
    BY <2>6, <2>7, <2>8, <2>9, <2>10 DEF AccountInv
<1> QED
  BY <1>3, <1>4 DEF LinkIdentity

LEMMA UpdateContactKeeps ==
    ASSUME AccountInv, NEW r \in Requests, UpdateContact(r)
    PROVE  AccountInv'
<1> DEFINE u == req[r].user
           p == req[r].contact.phone
           d == req[r].contact.document
<1>1. req[r] \in RequestState /\ Fits(req[r], email, link) /\ req[r].stage = "read"
      /\ UNCHANGED <<email, link, blockVars>>
  BY RequestTyped DEF UpdateContact
<1>2. /\ u \in Users /\ email[u] # None /\ p \in Phones \cup {"kept"}
      /\ d \in Documents \cup {None, "kept"}
  BY <1>1 DEF Fits, RequestState, Contact
<1>3. CASE Clash(r) /\ UNCHANGED <<phone, document>>
  BY <1>1, <1>3, Ended DEF Clash, contactVars
<1>4. CASE /\ \A w \in Users \ {u} : ~HasPhone(w, p) /\ ~HasDocument(w, d)
           /\ WriteContact(u, p, d) /\ End(r)
  <2> DEFINE np == IF p = "kept" THEN phone[u] ELSE p
             nd == IF d = "kept" THEN document[u] ELSE d
  <2>1. phone' = [phone EXCEPT ![u] = np] /\ document' = [document EXCEPT ![u] = nd]
    BY <1>4 DEF WriteContact
  <2>2. req' = [req EXCEPT ![r] = IdleRequest] /\ Fits(IdleRequest, email', link')
        /\ IdleRequest \in RequestState
    BY <1>4, IdleFits DEF End
  <2>3. /\ np \in Phones \cup {phone[u]} /\ np # None
        /\ nd \in Documents \cup {None}
    BY <1>2, AccountConstants DEF AccountInv, AccountTypeOK, RowsFit, Exists
  <2>4. \A w \in Users : w # u /\ email[w] # None =>
            phone[w] # np /\ (nd # None => document[w] # nd)
    BY <1>2, <1>4 DEF HasPhone, HasDocument, Exists, AccountInv, StoredUnique
  <2> HIDE DEF np, nd, u, p, d
  <2>5. req' \in [Requests -> RequestState] /\ RequestsFit'
    BY <1>1, <2>2, OthersFit
  <2>6. AccountTypeOK'
    BY <1>1, <1>2, <2>1, <2>3, <2>5 DEF AccountInv, AccountTypeOK, blockVars
  <2>7. RowsFit'
    BY <1>1, <2>1, <2>3 DEF AccountInv, AccountTypeOK, RowsFit, Exists
  <2>8. StoredUnique'
    BY <1>1, <1>2, <2>1, <2>4 DEF AccountInv, AccountTypeOK, StoredUnique, Exists
  <2>9. PlaceholdersLead'
    BY <1>1, <1>2, <2>1, <2>3, AccountConstants
    DEF AccountInv, AccountTypeOK, PlaceholdersLead, Exists
  <2>10. BlocksAlternate'
    BY <1>1 DEF AccountInv, BlocksAlternate, blockVars
  <2> QED
    BY <2>5, <2>6, <2>7, <2>8, <2>9, <2>10 DEF AccountInv
<1> QED
  BY <1>3, <1>4 DEF UpdateContact

LEMMA BlocksKeep ==
    ASSUME AccountInv, NEW r \in Requests, InsertBlock(r) \/ DeleteBlock(r)
    PROVE  AccountInv'
<1> DEFINE pair == <<req[r].user, req[r].other>>
<1>1. req[r] \in RequestState /\ Fits(req[r], email, link)
      /\ req[r].stage \in {"blocking", "unblocking"}
      /\ End(r) /\ UNCHANGED <<contactVars, link>>
  BY RequestTyped DEF InsertBlock, DeleteBlock, Clash
<1>2. pair \in Users \X Users
  BY <1>1 DEF Fits
<1>3. req' \in [Requests -> RequestState] /\ RequestsFit'
  <2>1. req' = [req EXCEPT ![r] = IdleRequest] /\ Fits(IdleRequest, email', link')
        /\ IdleRequest \in RequestState /\ email' = email /\ link' = link
    BY <1>1, IdleFits DEF End, contactVars
  <2> QED
    BY <2>1, OthersFit
<1>4. RowsFit' /\ StoredUnique' /\ PlaceholdersLead'
  BY <1>1 DEF AccountInv, RowsFit, StoredUnique, PlaceholdersLead, Exists,
              contactVars
<1>5. AccountTypeOK' /\ BlocksAlternate'
  <2>1. CASE UNCHANGED blockVars
    BY <1>1, <1>3, <2>1
    DEF AccountInv, AccountTypeOK, BlocksAlternate, contactVars, blockVars
  <2>2. CASE pair \notin blocks /\ blocks' = blocks \cup {pair} /\ Count(pair, 1)
    BY <1>1, <1>2, <1>3, <2>2
    DEF AccountInv, AccountTypeOK, BlocksAlternate, contactVars, Count
  <2>3. CASE pair \in blocks /\ blocks' = blocks \ {pair} /\ Count(pair, -1)
    BY <1>1, <1>2, <1>3, <2>3
    DEF AccountInv, AccountTypeOK, BlocksAlternate, contactVars, Count
  <2> QED
    BY <2>1, <2>2, <2>3 DEF InsertBlock, DeleteBlock
<1> QED
  BY <1>3, <1>4, <1>5 DEF AccountInv

\* Every step of every request keeps the invariant.
LEMMA NextKeeps == AccountInv /\ [AccountNext]_accountVars => AccountInv'
<1> SUFFICES ASSUME AccountInv, [AccountNext]_accountVars PROVE AccountInv'
  OBVIOUS
<1>1. ASSUME NEW r \in Requests, Arrive(r) PROVE AccountInv'
  BY <1>1, RegisterCheckKeeps, FindIdentityKeeps, ReadProfileKeeps, BlockChecksKeep
  DEF Arrive
<1>2. ASSUME NEW r \in Requests, Abort(r) PROVE AccountInv'
  BY <1>2, Ended DEF Abort
<1>3. ASSUME NEW r \in Requests, Proceed(r) PROVE AccountInv'
  BY <1>2, <1>3, InsertUserKeeps, MatchEmailKeeps, LinkIdentityKeeps, ChecksKeep,
     UpdateContactKeeps, BlocksKeep DEF Proceed
<1>4. CASE UNCHANGED accountVars
  BY <1>4 DEF accountVars, contactVars, blockVars, AccountInv, AccountTypeOK,
     RequestsFit, RowsFit, StoredUnique, PlaceholdersLead, BlocksAlternate,
     Exists
<1> QED
  BY <1>1, <1>3, <1>4 DEF AccountNext

LEMMA Invariance == AccountSpec => []AccountInv
  BY InitKeeps, NextKeeps, PTL DEF AccountSpec

\* Two requests signed in with one identity are signed in as the user it is
\* linked to.
LEMMA SignedInAsLinked == AccountInv => OneUserPerIdentity
<1> SUFFICES ASSUME AccountInv PROVE OneUserPerIdentity
  OBVIOUS
<1>1. \A r \in Requests : req[r].stage = "signedIn" => link[req[r].identity] = req[r].user
  BY DEF AccountInv, RequestsFit, Fits
<1>2. \A x, y \in Identities : x # y /\ x[1] = y[1] /\ link[x] # None => link[x] # link[y]
  BY DEF AccountInv, RowsFit
<1> QED
  BY <1>1, <1>2 DEF OneUserPerIdentity

\* Two spellings of one address are not both the normal one, and the other has
\* come with an identity.
LEMMA AddressesApart == AccountInv => ContactsUnique
<1> SUFFICES ASSUME AccountInv, NEW u \in Users, NEW w \in Users, u # w,
                    Exists(u), Exists(w), SameAddress(email[u], email[w])
             PROVE  \E v \in {u, w}, x \in Identities :
                       ProviderSpelling(email[v]) /\ link[x] = v
  BY DEF AccountInv, StoredUnique, ContactsUnique
<1>1. email[u] # email[w]
  BY DEF AccountInv, StoredUnique
<1>2. PICK v \in {u, w} : ProviderSpelling(email[v])
  BY <1>1 DEF SameAddress, ProviderSpelling
<1>3. PICK x \in Identities : link[x] = v
  BY <1>2 DEF AccountInv, RowsFit
<1> QED
  BY <1>2, <1>3

\* Only the INSERTs of a user and of an identity write a link, and only where
\* there is none.
LEMMA LinkStep ==
    AccountInv /\ [AccountNext]_accountVars
    => \A x \in Identities : link[x] # None => link'[x] = link[x]
<1> SUFFICES ASSUME AccountInv, [AccountNext]_accountVars, NEW x \in Identities,
                    link[x] # None
             PROVE  link'[x] = link[x]
  OBVIOUS
<1>1. ASSUME NEW r \in Requests, NEW u \in Users, InsertUser(r, u)
      PROVE  link'[x] = link[x]
  <2>1. CASE UNCHANGED link
    BY <2>1
  <2>2. CASE /\ ~Taken(req[r].contact, req[r].identity)
             /\ link' = [y \in Identities |-> IF y = req[r].identity THEN u ELSE link[y]]
    <3>1. req[r].identity # x
      BY <2>2, AccountConstants DEF Taken
    <3> QED
      BY <2>2, <3>1
  <2> QED
    BY <1>1, <2>1, <2>2 DEF InsertUser
<1>2. ASSUME NEW r \in Requests, LinkIdentity(r) PROVE link'[x] = link[x]
  BY <1>2 DEF LinkIdentity, AccountInv, AccountTypeOK
<1>3. CASE UNCHANGED link
  BY <1>3
<1>4. ASSUME NEW r \in Requests, Arrive(r) PROVE UNCHANGED link
  BY <1>4 DEF Arrive, RegisterCheck, FindIdentity, ReadProfile, BlockCheck, UnblockCheck
<1>5. ASSUME NEW r \in Requests, Proceed(r) PROVE link'[x] = link[x]
  BY <1>1, <1>2, <1>5
  DEF Proceed, MatchEmail, CheckPhone, CheckDocument, UpdateContact, InsertBlock,
      DeleteBlock, Abort
<1> QED
  BY <1>3, <1>4, <1>5 DEF AccountNext, accountVars

-----------------------------------------------------------------------------
(* The theorems.                                                           *)

\* Rows, links, blocks and requests keep their types: "kept" never reaches a row.
THEOREM AccountTypeCorrect == AccountSpec => []AccountTypeOK
  BY Invariance, PTL DEF AccountInv

\* No two users ever share an email as it is spelled, a phone or a document number
\* (register, first social login, updateMe), and they share an address only where
\* one of them came with a provider's spelling of it and has an identity.
THEOREM ContactsStayUnique == AccountSpec => []ContactsUnique
  BY Invariance, AddressesApart, PTL

\* An identity signs in one user, however its first logins interleave, and no two
\* of one provider sign in the same (findOrCreateLocalUserFromIdentity).
THEOREM IdentityIsOneUser == AccountSpec => []OneUserPerIdentity
  BY Invariance, SignedInAsLinked, PTL

\* Once an identity leads to a user it leads there for good: no other login, with
\* whatever email, takes it over (findOrCreateLocalUserFromIdentity).
LinksAreFinal ==
    [][\A x \in Identities : link[x] # None => link'[x] = link[x]]_accountVars

\* ... as a theorem: no step takes a link over or drops one.
THEOREM LinksStay == AccountSpec => LinksAreFinal
  BY Invariance, LinkStep, PTL DEF AccountSpec, LinksAreFinal

\* A user with placeholders can be reached by the identity they stand for, unless
\* clients give emails of the placeholders' domain for their own.
THEOREM PlaceholdersStayLinked ==
    ASSUME Identities \cap Emails = {}
    PROVE  AccountSpec => []PlaceholdersAreLinked
<1>1. AccountInv => PlaceholdersAreLinked
  BY DEF AccountInv, PlaceholdersLead, PlaceholdersAreLinked, Exists
<1> QED
  BY <1>1, Invariance, PTL

\* Blocks and unblocks of a pair alternate (blockUser, unblockUser).
THEOREM BlocksDoAlternate == AccountSpec => []BlocksAlternate
  BY Invariance, PTL DEF AccountInv

=============================================================================
