----------------------------- MODULE GrantServer -----------------------------
(***************************************************************************)
(* The server as the validation harness meets it: registration, the two    *)
(* grants of /oauth/token and the signing key.  A request is one step and  *)
(* its effect on the refresh tokens is one of those GrantLifecycle allows; *)
(* TokenEndpoint has the handlers await by await.                          *)
(***************************************************************************)
EXTENDS HttpGate

CONSTANTS
    Chain,      \* chains of refresh tokens the server may open
    Token,      \* refresh tokens it may mint
    ClientId,   \* client ids it may mint
    AccessTTL,  \* ACCESS_TOKEN_TTL_SECONDS
    MaxRekeys   \* bound on changes of OAUTH_SIGNING_KEY

ASSUME ServerAssumption ==
    /\ Chain # {} /\ Token # {} /\ ClientId # {}
    /\ AccessTTL \in Nat /\ MaxRekeys \in Nat

VARIABLES
    clock,      \* int(time.time()), the same on both sides
    grant,      \* of each chain: phase, holder and past, as in GrantLifecycle
    owner,      \* the client each chain was granted to
    clients,    \* registered clients
    key         \* OAUTH_SIGNING_KEY of the running process

serverVars == <<grant, owner, clients, key>>

Grant == [phase : {"unborn", "active", "stranded", "dead"},
          holder : Token \cup {None}, past : SUBSET Token]

Unborn == [phase |-> "unborn", holder |-> None, past |-> {}]

\* A chain on which t was opened and nothing else happened.
Opened(t) == [phase |-> "active", holder |-> t, past |-> {}]

Minted(g) == (UNION {g[c].past \cup {g[c].holder} : c \in Chain}) \ {None}

UnbornChains == {c \in Chain : grant[c] = Unborn}

\* Mutant of Unseen: tokens are drawn from so few that they come again.
UnseenByHolders == Token \ {grant[c].holder : c \in Chain}

\* secrets.token_urlsafe(32) does not repeat itself.
Unseen == Token \ Minted(grant)

\* The next of a supply of fresh names.
Draw(S) == CHOOSE x \in S : TRUE

\* The row that get_refresh_token finds, by its chain.
Knows(c, t) == t # None /\ t \in grant[c].past \cup {grant[c].holder}

-----------------------------------------------------------------------------
(* Requests and answers.  Error is any answer of 400 or more.              *)

Error == [ok |-> FALSE]

TokenPair(t) == [ok |-> TRUE, refresh |-> t,
                 access |-> AccessToken(t, key, clock + AccessTTL)]

Answers == {Error} \cup {TokenPair(t) : t \in Token} \cup {[ok |-> TRUE, id |-> id] : id \in ClientId}

\* /oauth/register
Registers(answer) ==
    /\ clients # ClientId
    /\ LET id == Draw(ClientId \ clients) IN
        /\ clients' = clients \cup {id}
        /\ answer = [ok |-> TRUE, id |-> id]
        /\ UNCHANGED <<grant, owner, key>>

\* The code of a fresh consent opens a chain.
Grants(q, answer) ==
    /\ q.client \in clients
    /\ UnbornChains # {} /\ Unseen # {}
    /\ LET c == Draw(UnbornChains)
           t == Draw(Unseen) IN
       /\ grant' = [grant EXCEPT ![c] = Opened(t)]
       /\ owner' = [owner EXCEPT ![c] = q.client]
       /\ answer = TokenPair(t)
    /\ UNCHANGED <<clients, key>>

Rotation(c) ==
    grant' = [grant EXCEPT ![c].holder = Draw(Unseen), ![c].past = @ \cup {grant[c].holder}]

\* Reuse kills the chain.
Revocation(c) ==
    grant' = [grant EXCEPT ![c] = [phase |-> "dead", holder |-> None,
                                   past |-> (@.past \cup {@.holder}) \ {None}]]

\* Mutant of Spendable: rotated_at is not looked at.
SpendableTwice(q, c) == Knows(c, q.token) /\ grant[c].phase = "active" /\ owner[c] = q.client

\* The row is neither rotated nor revoked, and the client's own.
Spendable(q, c) == q.token = grant[c].holder /\ owner[c] = q.client

\* A refresh with that token.
Rotates(q, answer) ==
    \E c \in Chain :
        /\ Spendable(q, c) /\ Unseen # {}
        /\ Rotation(c)
        /\ answer = TokenPair(Draw(Unseen))
        /\ UNCHANGED <<owner, clients, key>>

\* A spent token of the client's own, or one of a chain not yet dead.
Reuses(q, c) == /\ Knows(c, q.token) /\ ~Spendable(q, c)
                /\ owner[c] = q.client /\ grant[c].phase # "dead"

\* Every other refresh is refused.
Refuses(q, answer) ==
    /\ answer = Error
    /\ ~\E c \in Chain : Spendable(q, c)
    /\ \/ \E c \in Chain : Reuses(q, c) /\ Revocation(c)
       \/ ~(\E c \in Chain : Reuses(q, c)) /\ UNCHANGED grant
    /\ UNCHANGED <<owner, clients, key>>

Stranding(c) ==
    grant' = [grant EXCEPT ![c] = [phase |-> "stranded", holder |-> None,
                                   past |-> @.past \cup {@.holder}]]

\* An unhandled exception: 500.  The rotation may be undone, done, or half
\* done (TokenEndpoint has how).
Breaks(q, answer) ==
    /\ answer = Error
    /\ \/ UNCHANGED grant
       \/ \E c \in Chain :
            /\ q.kind = "refresh" /\ Spendable(q, c)
            /\ (Unseen # {} /\ Rotation(c)) \/ Stranding(c)
    /\ UNCHANGED <<owner, clients, key>>

Handles(q, answer) ==
    \/ q.kind = "register" /\ Registers(answer)
    \/ q.kind = "code" /\ Grants(q, answer)
    \/ q.kind = "refresh" /\ Rotates(q, answer)
    \/ q.kind = "refresh" /\ Refuses(q, answer)

\* The server is restarted with another key; signed tokens are void.
Rekey ==
    /\ key < MaxRekeys
    /\ key' = key + 1
    /\ UNCHANGED <<grant, owner, clients>>
=============================================================================
