----------------------------- MODULE MCAccounts -----------------------------
EXTENDS Accounts, TLC

CONSTANTS e1, E1

\* E1 is another spelling of the address e1.
MCEmails == {e1, E1}
MCNormalized == [e \in MCEmails |-> e1]

\* Row ids, phones, subjects and request slots are interchangeable; spellings
\* are not.
Symmetry == Permutations(Users) \cup Permutations(Phones) \cup Permutations(Subjects)
            \cup Permutations(Requests)

\* Bound: the handlers of blocks run beside each other, not beside those that
\* write contacts and links.  All the two kinds share is that users exist, which
\* no handler ever takes back.
BlocksApart ==
    blocks # {} \/ (\E r \in Requests : req[r].stage \in {"blocking", "unblocking"})
    => \A r \in Requests : req[r].stage \in Terminal \cup {"blocking", "unblocking"}

\* Bound: nothing goes on once three identities are linked.
FewLinks == Cardinality({x \in Identities : link[x] # None}) <= 2
=============================================================================
