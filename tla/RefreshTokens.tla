--------------------------- MODULE RefreshTokens ---------------------------
(***************************************************************************)
(* Sessions (src/services/auth.service.ts): login opens a family of        *)
(* refresh tokens, a refresh rotates one token of it, a logout or the      *)
(* presentation of a rotated token closes it.                              *)
(*                                                                         *)
(* refreshAccessToken reads the token row and then, by a second SELECT,    *)
(* its family (and its user), all outside the transaction that rotates;    *)
(* each of the three is a step.  logout and login read only columns that   *)
(* nothing writes before their transaction, so each is one step.           *)
(*                                                                         *)
(* The client is the environment: it presents the token of the last        *)
(* answer it received, but may also present an older one, send a second    *)
(* request before the first is answered, or lose an answer.                *)
(***************************************************************************)
EXTENDS Integers, FiniteSets

CONSTANTS
  Users,       \* active users with the right password; the code never deactivates one
  FamilyIds,   \* bounds the sessions ever opened
  TokenIds,    \* bounds the refresh tokens ever issued
  Requests,    \* refresh requests in flight
  RefreshTtl,  \* env.jwtRefreshExpiresInSeconds, in ticks
  MaxLogouts,  \* bound on the logout calls of a user
  MaxTime,     \* bound on the clock
  Null

ASSUME RefreshAssumption ==
  /\ RefreshTtl \in Nat \ {0}
  /\ MaxLogouts \in Nat
  /\ MaxTime \in Nat
  /\ Null \notin TokenIds

VARIABLES
  families,  \* refresh_token_families, a function on the ids that have a row
  tokens,    \* refresh_tokens, likewise
  audit,     \* number of LOGIN and LOGOUT rows in audit_logs, per user
  req,       \* refresh requests and what each has read
  held,      \* client: the token of the last answer received, per family
  why,       \* auxiliary: what the client did that may close the session
  now

vars == <<families, tokens, audit, req, held, why, now>>

Family == [userId : Users, revoked : BOOLEAN]

\* "parent" is auxiliary: the token this one was rotated from.  replacedById may be
\* overwritten, parent is not.
Token == [familyId : FamilyIds, revoked : BOOLEAN, replacedById : TokenIds \cup {Null},
          expiresAt : Nat, parent : TokenIds \cup {Null}]

Request ==
       [pc : {"idle"}]
  \cup [pc : {"family"}, familyId : FamilyIds, token : TokenIds, revoked : BOOLEAN]
  \cup [pc : {"reuse", "rotate", "respond"}, familyId : FamilyIds, token : TokenIds]

Idle == [pc |-> "idle"]

Causes == {"logout", "older", "overlap", "lost"}

EmptyTable == [x \in {} |-> Null]

\* INSERT of a row with key k.
Insert(table, k, row) ==
  [x \in DOMAIN table \cup {k} |-> IF x = k THEN row ELSE table[x]]

Init ==
  /\ families = EmptyTable
  /\ tokens = EmptyTable
  /\ audit = [u \in Users |-> [login |-> 0, logout |-> 0]]
  /\ req = [r \in Requests |-> Idle]
  /\ held = EmptyTable
  /\ why = EmptyTable
  /\ now = 0

TokensOf(f) == {x \in DOMAIN tokens : tokens[x].familyId = f}

Live(f) == {x \in TokensOf(f) : ~ tokens[x].revoked}

InFlight(f) == {r \in Requests : req[r].pc # "idle" /\ req[r].familyId = f}

Goto(r, state) == req' = [req EXCEPT ![r] = state]

Because(f, causes) == why' = [why EXCEPT ![f] = @ \cup causes]

NewTokenExpired(f, parent) ==
  [familyId |-> f, revoked |-> FALSE, replacedById |-> Null,
   expiresAt |-> now - RefreshTtl, parent |-> parent]

NewToken(f, parent) ==
  [familyId |-> f, revoked |-> FALSE, replacedById |-> Null,
   expiresAt |-> now + RefreshTtl, parent |-> parent]

(***************************************************************************)
(* login and createRefreshSession                                          *)
(***************************************************************************)
Login(u) ==
  \E f \in FamilyIds \ DOMAIN families, x \in TokenIds \ DOMAIN tokens :
    /\ families' = Insert(families, f, [userId |-> u, revoked |-> FALSE])
    /\ tokens' = Insert(tokens, x, NewToken(f, Null))
    /\ audit' = [audit EXCEPT ![u].login = @ + 1]
    /\ held' = Insert(held, f, x)
    /\ why' = Insert(why, f, {})
    /\ UNCHANGED <<req, now>>

(***************************************************************************)
(* refreshAccessToken.  A token that is not found changes nothing.         *)
(***************************************************************************)
ReadToken(r, x) ==
  LET f == tokens[x].familyId IN
  /\ req[r].pc = "idle"
  /\ x \in DOMAIN tokens
  /\ Goto(r, [pc |-> "family", familyId |-> f, token |-> x, revoked |-> tokens[x].revoked])
  /\ Because(f, (IF x = held[f] THEN {} ELSE {"older"})
                  \cup (IF InFlight(f) = {} THEN {} ELSE {"overlap"}))
  /\ UNCHANGED <<families, tokens, audit, held, now>>

\* "Refresh token reuse detected"
ReuseDetected(r) ==
  LET q == req[r] IN
  /\ q.pc = "family"
  /\ ~ families[q.familyId].revoked
  /\ q.revoked
  /\ Goto(r, [pc |-> "reuse", familyId |-> q.familyId, token |-> q.token])
  /\ UNCHANGED <<families, tokens, audit, held, why, now>>

UnlessReused(q) == ~ q.revoked /\ tokens[q.token].expiresAt > now

MayRotate(q) ==
  /\ ~ families[q.familyId].revoked
  /\ ~ q.revoked
  /\ tokens[q.token].expiresAt > now

Accepted(r) ==
  LET q == req[r] IN
  /\ q.pc = "family"
  /\ MayRotate(q)
  /\ Goto(r, [pc |-> "rotate", familyId |-> q.familyId, token |-> q.token])
  /\ UNCHANGED <<families, tokens, audit, held, why, now>>

\* "Session revoked", "Refresh token expired"
Rejected(r) ==
  LET q == req[r] IN
  /\ q.pc = "family"
  /\ \/ families[q.familyId].revoked
     \/ ~ q.revoked /\ tokens[q.token].expiresAt <= now
  /\ Goto(r, Idle)
  /\ UNCHANGED <<families, tokens, audit, held, why, now>>

\* The family update and the updateMany of its tokens, in one transaction.
RevokeFamily(f) ==
  /\ families' = [families EXCEPT ![f].revoked = TRUE]
  /\ tokens' = [x \in DOMAIN tokens |->
       IF x \in TokensOf(f) THEN [tokens[x] EXCEPT !.revoked = TRUE] ELSE tokens[x]]

RevokeReused(r) ==
  /\ req[r].pc = "reuse"
  /\ RevokeFamily(req[r].familyId)
  /\ Goto(r, Idle)
  /\ UNCHANGED <<audit, held, why, now>>

ReplaceStillLive(x, y) ==
  tokens' = [Insert(tokens, y, NewToken(tokens[x].familyId, x)) EXCEPT
               ![x].replacedById = y]

ReplaceSwapped(x, y) ==
  tokens' = [Insert(tokens, y, NewToken(tokens[x].familyId, x)) EXCEPT
               ![y].revoked = TRUE, ![x].replacedById = y]

\* The new row y; the old one x revoked, whatever its state is by now.
Replace(x, y) ==
  tokens' = [Insert(tokens, y, NewToken(tokens[x].familyId, x)) EXCEPT
               ![x].revoked = TRUE, ![x].replacedById = y]

Rotate(r) ==
  LET q == req[r] IN
  /\ q.pc = "rotate"
  /\ \E y \in TokenIds \ DOMAIN tokens :
       /\ Replace(q.token, y)
       /\ Goto(r, [pc |-> "respond", familyId |-> q.familyId, token |-> y])
  /\ UNCHANGED <<families, audit, held, why, now>>

\* The answer reaches the client.
Respond(r) ==
  /\ req[r].pc = "respond"
  /\ held' = [held EXCEPT ![req[r].familyId] = req[r].token]
  /\ Goto(r, Idle)
  /\ UNCHANGED <<families, tokens, audit, why, now>>

\* A failed transaction, a crash, or an answer that never arrives; only when the
\* rotation has committed does it matter which.
Abort(r) ==
  /\ req[r].pc # "idle"
  /\ Goto(r, Idle)
  /\ Because(req[r].familyId, IF req[r].pc = "respond" THEN {"lost"} ELSE {})
  /\ UNCHANGED <<families, tokens, audit, held, now>>

(***************************************************************************)
(* logout closes the whole family of the token, however old or revoked the *)
(* token is.                                                               *)
(***************************************************************************)
Logout(x) ==
  LET f == tokens[x].familyId
      u == families[f].userId IN
  /\ x \in DOMAIN tokens
  /\ audit[u].logout < MaxLogouts
  /\ RevokeFamily(f)
  /\ audit' = [audit EXCEPT ![u].logout = @ + 1]
  /\ Because(f, {"logout"})
  /\ UNCHANGED <<req, held, now>>

Tick ==
  /\ now < MaxTime
  /\ now' = now + 1
  /\ UNCHANGED <<families, tokens, audit, req, held, why>>

Refresh(r) ==
  \/ \E x \in TokenIds : ReadToken(r, x)
  \/ ReuseDetected(r)
  \/ Accepted(r)
  \/ Rejected(r)
  \/ RevokeReused(r)
  \/ Rotate(r)
  \/ Respond(r)
  \/ Abort(r)

Next ==
  \/ \E u \in Users : Login(u)
  \/ \E r \in Requests : Refresh(r)
  \/ \E x \in TokenIds : Logout(x)
  \/ Tick

Spec == Init /\ [][Next]_vars

(***************************************************************************)
(* Properties.                                                             *)
(***************************************************************************)
\* Every row has its declared shape, and what a request holds still exists.
TypeOK ==
  /\ DOMAIN families \subseteq FamilyIds
  /\ families \in [DOMAIN families -> Family]
  /\ DOMAIN tokens \subseteq TokenIds
  /\ tokens \in [DOMAIN tokens -> Token]
  /\ \A x \in DOMAIN tokens : tokens[x].familyId \in DOMAIN families
  /\ audit \in [Users -> [login : Nat, logout : Nat]]
  /\ req \in [Requests -> Request]
  /\ \A r \in Requests : req[r].pc # "idle" =>
       /\ req[r].token \in DOMAIN tokens
       /\ tokens[req[r].token].familyId = req[r].familyId
  /\ held \in [DOMAIN families -> DOMAIN tokens]
  /\ \A f \in DOMAIN families : tokens[held[f]].familyId = f
  /\ why \in [DOMAIN families -> SUBSET Causes]
  /\ now \in Nat

\* While a session is open a token of it is dead exactly when it was rotated, so
\* that presenting a dead token means presenting a rotated one.
DeadMeansRotated ==
  \A x \in DOMAIN tokens : ~ families[tokens[x].familyId].revoked =>
     (tokens[x].revoked <=> tokens[x].replacedById # Null)

\* The tokens of family f that were rotated, and how often one of them was rotated again.
Rotated(f) == {tokens[x].parent : x \in TokensOf(f)} \ {Null}

Minted(f) == {x \in TokensOf(f) : tokens[x].parent # Null}

Forks(f) == Cardinality(Minted(f)) - Cardinality(Rotated(f))

\* An open session has one live token and one more for every time a token was rotated
\* that another refresh had rotated already: refreshes that overlap fork the session
\* undetected, but neither lose it nor leave a token live that was rotated.
LiveTokensCounted ==
  \A f \in DOMAIN families :
     ~ families[f].revoked => Cardinality(Live(f)) = 1 + Forks(f)

\* Whoever refreshes one at a time, always with the token last received, and loses no
\* answer keeps the session: it stays open and that token, or the one in the answer
\* on its way, is live.
HonestSession ==
  \A f \in DOMAIN families : why[f] = {} =>
     /\ ~ families[f].revoked
     /\ \/ held[f] \in Live(f)
        \/ \E r \in InFlight(f) : req[r].pc = "respond" /\ req[r].token \in Live(f)

\* An answer that is lost costs the session.  The client that refreshes one at a time
\* with the token last received holds a dead token from then on; no refresh of it is
\* accepted or answered, all it can do is to be rejected or to be taken for a reuse.
LostAnswerFatal ==
  \A f \in DOMAIN families : why[f] = {"lost"} =>
     /\ tokens[held[f]].revoked
     /\ \A r \in InFlight(f) : req[r].pc \in {"family", "reuse"}

\* A closed session stays closed, and no refresh that reads the family after it was
\* closed goes on to rotate, although the token row was read before.
ClosedStaysClosed ==
  [][\A f \in DOMAIN families : families[f].revoked =>
       /\ families'[f].revoked
       /\ \A r \in Requests :
            (req'[r].pc = "rotate" /\ req'[r].familyId = f) => req'[r] = req[r]]_vars

\* Every session that was opened, and every one that a logout closed, is in the audit
\* log.
SessionsAudited ==
  \A u \in Users :
     LET opened == {f \in DOMAIN families : families[f].userId = u} IN
     /\ audit[u].login = Cardinality(opened)
     /\ Cardinality({f \in opened : "logout" \in why[f]}) <= audit[u].logout

=============================================================================
