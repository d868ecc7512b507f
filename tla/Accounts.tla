------------------------------ MODULE Accounts ------------------------------
(***************************************************************************)
(* Who an account belongs to: register, the first and later social logins, *)
(* updateMe and the blocks between accounts.  Each handler reads first and *)
(* writes later; only the unique indexes of the tables decide when two     *)
(* handlers have read the same.  A violated index rolls the write back.    *)
(*                                                                         *)
(* Abstractions.  Emails are spellings: register and login seek the normal *)
(* one, a provider's is used as it comes, and the index compares spellings.*)
(* The other columns of users and user_profiles, and the session that a    *)
(* sign-in opens, are left out; AuthSessions has the sessions.             *)
(***************************************************************************)
EXTENDS Integers, FiniteSets

CONSTANTS
    Users,      \* ids of users rows (bounds how many)
    Emails,     \* spellings of addresses
    Normalized, \* the spelling that normalizeEmail makes of each
    Phones, Documents,
    Subjects,   \* providerUserId
    Requests,   \* request slots
    None        \* no value

Providers == {"google", "facebook"}
Identities == Providers \X Subjects

\* A phone that a client gives is a number (RegisterDto, UpdateProfileDto), and
\* so never a placeholder.
ASSUME AccountConstants ==
    /\ None \notin Users \cup Emails \cup Phones \cup Documents \cup Identities
    /\ Normalized \in [Emails -> Emails]
    /\ \A e \in Emails : Normalized[Normalized[e]] = Normalized[e]
    /\ None # "kept" /\ "kept" \notin Phones \cup Documents \cup Identities
    /\ Identities \cap Phones = {}

VARIABLES
    email, phone, document,  \* of the users row; an identity stands for the
                             \* placeholder derived from it; email None: no row
    link,                    \* UserIdentityProvider: the user of an identity
    blocks,                  \* UserBlock: pairs <<user, blocked user>>
    balance,                 \* history: by how many more times a pair was
                             \* successfully blocked than unblocked
    req                      \* what each request slot is doing

contactVars == <<email, phone, document>>
blockVars == <<blocks, balance>>
accountVars == <<contactVars, link, blockVars, req>>

Contact == [email : Emails \cup Identities \cup {None},
            phone : Phones \cup Identities \cup {None, "kept"},
            document : Documents \cup {None, "kept"}]
NoContact == [email |-> None, phone |-> None, document |-> None]

Terminal == {"idle", "signedIn"}
RequestState ==
    \* user: who it acts for; other: whom it blocks; contact: what it writes;
    \* identity: what a provider vouched for; checks: fields still to look up
    [stage : Terminal \cup {"matching", "linking", "inserting", "read", "blocking",
                            "unblocking"},
     user : Users \cup {None}, other : Users \cup {None}, contact : Contact,
     identity : Identities \cup {None}, checks : SUBSET {"phone", "document"}]
IdleRequest == [stage |-> "idle", user |-> None, other |-> None,
                contact |-> NoContact, identity |-> None, checks |-> {}]

AccountTypeOK ==
    /\ email \in [Users -> Emails \cup Identities \cup {None}]
    /\ phone \in [Users -> Phones \cup Identities \cup {None}]
    /\ document \in [Users -> Documents \cup {None}]
    /\ link \in [Identities -> Users \cup {None}]
    /\ blocks \subseteq Users \X Users /\ balance \in [Users \X Users -> Int]
    /\ req \in [Requests -> RequestState]

AccountInit ==
    /\ email = [u \in Users |-> None]
    /\ phone = [u \in Users |-> None]
    /\ document = [u \in Users |-> None]
    /\ link = [x \in Identities |-> None]
    /\ blocks = {} /\ balance = [pair \in Users \X Users |-> 0]
    /\ req = [r \in Requests |-> IdleRequest]

-----------------------------------------------------------------------------
(* Helpers.                                                                *)

Exists(u) == email[u] # None
Free(r) == req[r].stage \in Terminal
Goto(r, stage) == req' = [req EXCEPT ![r].stage = stage]
End(r) == req' = [req EXCEPT ![r] = IdleRequest]
Clash(r) == End(r)  \* a violated index: the write is rolled back
SignIn(r, u) == req' = [req EXCEPT ![r] = [IdleRequest EXCEPT
    !.stage = "signedIn", !.user = u, !.identity = req[r].identity]]

HasEmail(u, e) == Exists(u) /\ email[u] = e
HasPhone(u, p) == Exists(u) /\ phone[u] = p
HasDocument(u, d) == d # None /\ Exists(u) /\ document[u] = d

\* Trimmed, in lower case.
normalizeEmail(e) == Normalized[e]

\* canLinkByEmail: Google says whether the email is verified, Facebook does not.
MayLink(x, e, confirmed) == e # None /\ (x[1] = "facebook" \/ confirmed)

\* Some other user of this provider's has the user linked already.
ProviderLinked(u, x) == \E y \in Identities : y[1] = x[1] /\ link[y] = u

-----------------------------------------------------------------------------
(* AuthService.register.                                                   *)

\* Mutated: the email is stored as it is typed.
RegisterCheck_AsTyped(r, e, p, d) ==
    /\ Free(r)
    /\ \A u \in Users : ~HasEmail(u, e) /\ ~HasPhone(u, p) /\ ~HasDocument(u, d)
    /\ req' = [req EXCEPT ![r] = [IdleRequest EXCEPT
         !.stage = "inserting", !.contact = [email |-> e, phone |-> p, document |-> d]]]
    /\ UNCHANGED <<contactVars, link, blockVars>>

\* findFirst by any of the three; one that is taken is a refusal.
RegisterCheck(r, e, p, d) ==
    LET contact == [email |-> normalizeEmail(e), phone |-> p, document |-> d] IN
    /\ Free(r)
    /\ \A u \in Users :
          ~HasEmail(u, contact.email) /\ ~HasPhone(u, p) /\ ~HasDocument(u, d)
    /\ req' = [req EXCEPT ![r] = [IdleRequest EXCEPT
         !.stage = "inserting", !.contact = contact]]
    /\ UNCHANGED <<contactVars, link, blockVars>>

\* The unique indexes that a new row and its nested rows may violate; the one
\* on emails tells spellings apart.
Taken(contact, x) ==
    \/ \E u \in Users : \/ HasEmail(u, contact.email)
                        \/ HasPhone(u, contact.phone)
                        \/ HasDocument(u, contact.document)
    \/ x # None /\ link[x] # None

\* Mutated: the user is created without the row of its identity.
InsertUser_NoLink(r, u) ==
    LET contact == req[r].contact  x == req[r].identity IN
    /\ req[r].stage = "inserting" /\ ~Exists(u)
    /\ IF Taken(contact, x)
       THEN Clash(r) /\ UNCHANGED <<contactVars, link>>
       ELSE /\ email' = [email EXCEPT ![u] = contact.email]
            /\ phone' = [phone EXCEPT ![u] = contact.phone]
            /\ document' = [document EXCEPT ![u] = contact.document]
            /\ IF x = None THEN End(r) ELSE SignIn(r, u)
            /\ UNCHANGED link
    /\ UNCHANGED blockVars

\* The transaction of register, and of a first social login, which creates the
\* row of its identity too.
InsertUser(r, u) ==
    LET contact == req[r].contact  x == req[r].identity IN
    /\ req[r].stage = "inserting" /\ ~Exists(u)
    /\ IF Taken(contact, x)
       THEN Clash(r) /\ UNCHANGED <<contactVars, link>>
       ELSE /\ email' = [email EXCEPT ![u] = contact.email]
            /\ phone' = [phone EXCEPT ![u] = contact.phone]
            /\ document' = [document EXCEPT ![u] = contact.document]
            /\ link' = [y \in Identities |-> IF y = x THEN u ELSE link[y]]
            /\ IF x = None THEN End(r) ELSE SignIn(r, u)
    /\ UNCHANGED blockVars

-----------------------------------------------------------------------------
(* SocialAuthService.findOrCreateLocalUserFromIdentity.                    *)

\* An identity that is linked signs its user in.  Otherwise the row that would
\* be created gets placeholders, derived from the identity, for what is missing,
\* and the provider's spelling of the email.
FindIdentity(r, x, e, confirmed) ==
    /\ Free(r)
    /\ req' = [req EXCEPT ![r] = [IdleRequest EXCEPT
         !.identity = x, !.user = link[x],
         !.stage = IF link[x] # None THEN "signedIn"
                   ELSE IF MayLink(x, e, confirmed) THEN "matching" ELSE "inserting",
         !.contact = IF link[x] # None THEN NoContact
                     ELSE [email |-> IF e = None THEN x ELSE e, phone |-> x,
                           document |-> None]]]
    /\ UNCHANGED <<contactVars, link, blockVars>>

\* findUnique by the provider's spelling of the email: a user who registered
\* with the same address is found only if that spelling is the normal one.
MatchEmail(r) ==
    LET matches == {u \in Users : HasEmail(u, req[r].contact.email)} IN
    /\ req[r].stage = "matching"
    /\ \/ matches = {} /\ Goto(r, "inserting")
       \/ \E u \in matches :
             req' = [req EXCEPT ![r] = [@ EXCEPT
               !.stage = "linking", !.user = u, !.contact = NoContact]]
    /\ UNCHANGED <<contactVars, link, blockVars>>

\* Mutated: the row of the identity is upserted.
LinkIdentity_Upsert(r) ==
    /\ req[r].stage = "linking"
    /\ link' = [link EXCEPT ![req[r].identity] = req[r].user]
    /\ SignIn(r, req[r].user)
    /\ UNCHANGED <<contactVars, blockVars>>

\* Mutated: a user may have any number of identities of a provider.
LinkIdentity_AnyNumber(r) ==
    LET x == req[r].identity IN
    /\ req[r].stage = "linking"
    /\ IF link[x] # None
       THEN Clash(r) /\ UNCHANGED link
       ELSE link' = [link EXCEPT ![x] = req[r].user] /\ SignIn(r, req[r].user)
    /\ UNCHANGED <<contactVars, blockVars>>

\* The row of the identity is created for the user that was found.
LinkIdentity(r) ==
    LET x == req[r].identity  u == req[r].user IN
    /\ req[r].stage = "linking"
    /\ IF link[x] # None \/ ProviderLinked(u, x)
       THEN Clash(r) /\ UNCHANGED link
       ELSE link' = [link EXCEPT ![x] = u] /\ SignIn(r, req[r].user)
    /\ UNCHANGED <<contactVars, blockVars>>

-----------------------------------------------------------------------------
(* ProfileService.updateMe, as far as phone and document go; "kept" stands   *)
(* for a field that is not given, None for a document that is cleared.       *)

\* The user's own row is read.  Only a phone or a document that differs from it
\* is looked up.
ReadProfile(r, u, p, d) ==
    /\ Free(r) /\ Exists(u)
    /\ req' = [req EXCEPT ![r] = [IdleRequest EXCEPT
         !.stage = "read", !.user = u,
         !.contact = [email |-> None, phone |-> p, document |-> d],
         !.checks = (IF p \in {"kept", phone[u]} THEN {} ELSE {"phone"})
              \cup (IF d \in {"kept", None, document[u]} THEN {} ELSE {"document"})]]
    /\ UNCHANGED <<contactVars, link, blockVars>>

Checked(r, field) == req' = [req EXCEPT ![r].checks = @ \ {field}]

CheckPhone(r) ==
    /\ "phone" \in req[r].checks
    /\ IF \E u \in Users \ {req[r].user} : HasPhone(u, req[r].contact.phone)
       THEN End(r) ELSE Checked(r, "phone")
    /\ UNCHANGED <<contactVars, link, blockVars>>

CheckDocument(r) ==
    /\ req[r].checks = {"document"}
    /\ IF \E u \in Users \ {req[r].user} : HasDocument(u, req[r].contact.document)
       THEN End(r) ELSE Checked(r, "document")
    /\ UNCHANGED <<contactVars, link, blockVars>>

\* Mutated: a field that is not given is written all the same.
WriteContact_All(u, p, d) ==
    /\ phone' = [phone EXCEPT ![u] = p]
    /\ document' = [document EXCEPT ![u] = d]

\* Fields that are given are written.
WriteContact(u, p, d) ==
    /\ phone' = [phone EXCEPT ![u] = IF p = "kept" THEN @ ELSE p]
    /\ document' = [document EXCEPT ![u] = IF d = "kept" THEN @ ELSE d]

\* Mutated: the update relies on its own checks.
UpdateContact_NoIndex(r) ==
    /\ req[r].stage = "read" /\ req[r].checks = {}
    /\ WriteContact(req[r].user, req[r].contact.phone, req[r].contact.document)
    /\ End(r)
    /\ UNCHANGED <<email, link, blockVars>>

\* The update of the users row.
UpdateContact(r) ==
    LET u == req[r].user  p == req[r].contact.phone  d == req[r].contact.document IN
    /\ req[r].stage = "read" /\ req[r].checks = {}
    /\ IF \E w \in Users \ {u} : HasPhone(w, p) \/ HasDocument(w, d)
       THEN Clash(r) /\ UNCHANGED <<phone, document>>
       ELSE WriteContact(u, p, d) /\ End(r)
    /\ UNCHANGED <<email, link, blockVars>>

-----------------------------------------------------------------------------
(* UsersBlocksService.                                                     *)

\* blockUser: not oneself, both users exist, and no block is found.
BlockCheck(r, u, w) ==
    /\ Free(r) /\ u # w /\ Exists(u) /\ Exists(w) /\ <<u, w>> \notin blocks
    /\ req' = [req EXCEPT ![r] = [IdleRequest EXCEPT
         !.stage = "blocking", !.user = u, !.other = w]]
    /\ UNCHANGED <<contactVars, link, blockVars>>

Count(pair, n) == balance' = [balance EXCEPT ![pair] = @ + n]

\* A block created since is a conflict, and the row there stays.
InsertBlock(r) ==
    LET pair == <<req[r].user, req[r].other>> IN
    /\ req[r].stage = "blocking"
    /\ IF pair \in blocks THEN Clash(r) /\ UNCHANGED blockVars
       ELSE blocks' = blocks \cup {pair} /\ Count(pair, 1) /\ End(r)
    /\ UNCHANGED <<contactVars, link>>

\* unblockUser: a block is found.
UnblockCheck(r, u, w) ==
    /\ Free(r) /\ <<u, w>> \in blocks
    /\ req' = [req EXCEPT ![r] = [IdleRequest EXCEPT
         !.stage = "unblocking", !.user = u, !.other = w]]
    /\ UNCHANGED <<contactVars, link, blockVars>>

\* Mutated: any number of rows may be deleted, also none.
DeleteBlock_Many(r) ==
    LET pair == <<req[r].user, req[r].other>> IN
    /\ req[r].stage = "unblocking"
    /\ blocks' = blocks \ {pair} /\ Count(pair, -1) /\ End(r)
    /\ UNCHANGED <<contactVars, link>>

\* The delete fails where the block is gone by now.
DeleteBlock(r) ==
    LET pair == <<req[r].user, req[r].other>> IN
    /\ req[r].stage = "unblocking"
    /\ IF pair \in blocks
       THEN blocks' = blocks \ {pair} /\ Count(pair, -1) /\ End(r)
       ELSE End(r) /\ UNCHANGED blockVars
    /\ UNCHANGED <<contactVars, link>>

-----------------------------------------------------------------------------

\* A request fails or its process dies; nothing of it is half written.
Abort(r) ==
    /\ ~Free(r)
    /\ End(r)
    /\ UNCHANGED <<contactVars, link, blockVars>>

Arrive(r) ==
    \/ \E e \in Emails, p \in Phones, d \in Documents \cup {None} :
          RegisterCheck(r, e, p, d)
    \/ \E x \in Identities, e \in Emails \cup {None}, confirmed \in BOOLEAN :
          FindIdentity(r, x, e, confirmed)
    \/ \E u \in Users, p \in Phones \cup {"kept"}, d \in Documents \cup {None, "kept"} :
          ReadProfile(r, u, p, d)
    \/ \E u, w \in Users : BlockCheck(r, u, w) \/ UnblockCheck(r, u, w)

Proceed(r) ==
    \/ \E u \in Users : InsertUser(r, u)
    \/ MatchEmail(r) \/ LinkIdentity(r)
    \/ CheckPhone(r) \/ CheckDocument(r) \/ UpdateContact(r)
    \/ InsertBlock(r) \/ DeleteBlock(r)
    \/ Abort(r)

AccountNext == \E r \in Requests : Arrive(r) \/ Proceed(r)

AccountSpec == AccountInit /\ [][AccountNext]_accountVars

-----------------------------------------------------------------------------
(* Properties.                                                             *)

\* A spelling that no password login and no recovery finds: both look for the
\* normal one.
ProviderSpelling(e) == e \in Emails /\ normalizeEmail(e) # e

SameAddress(e, f) == e \in Emails /\ f \in Emails /\ normalizeEmail(e) = normalizeEmail(f)

\* No two users share an email as it is spelled, a phone or a document number,
\* although register, the first social login and updateMe check for it before
\* they write.  Two users share an address only where one of them has it in a
\* provider's spelling and can be signed in by an identity.
ContactsUnique ==
    \A u, w \in Users : u # w /\ Exists(u) /\ Exists(w) =>
        /\ email[u] # email[w]
        /\ phone[u] # phone[w]
        /\ document[u] # None => document[u] # document[w]
        /\ SameAddress(email[u], email[w]) =>
              \E v \in {u, w}, x \in Identities : ProviderSpelling(email[v]) /\ link[x] = v

\* Whoever signs in with an identity arrives at one and the same user, also
\* where the first logins with it ran side by side and with different emails;
\* and a user has at most one identity of a provider, also where two of them
\* have found the user by one email.
OneUserPerIdentity ==
    /\ \A r, q \in Requests :
          /\ req[r].stage = "signedIn" /\ req[q].stage = "signedIn"
          /\ req[r].identity = req[q].identity
          => req[r].user = req[q].user
    /\ \A x, y \in Identities : x # y /\ x[1] = y[1] /\ link[x] # None => link[x] # link[y]

\* A user with placeholders is signed in by the identity they are derived from:
\* otherwise nobody could ever sign in as that user, whose password is random.
PlaceholdersAreLinked ==
    \A u \in Users : Exists(u) =>
        /\ email[u] \in Identities => link[email[u]] = u
        /\ phone[u] \in Identities => link[phone[u]] = u

\* Of blocks and unblocks of one pair that run side by side, no two succeed in a
\* row: a pair is blocked while it was successfully blocked once more than
\* unblocked.  (blockUser and unblockUser both look first and write later)
BlocksAlternate ==
    \A pair \in Users \X Users : balance[pair] = IF pair \in blocks THEN 1 ELSE 0

=============================================================================
