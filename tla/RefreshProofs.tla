--------------------------- MODULE RefreshProofs ---------------------------
(* Proofs about RefreshTokens. *)
EXTENDS RefreshTokens, TLAPS, FiniteSetTheorems

\* What a request in flight holds.
LEMMA RequestFields ==
  ASSUME NEW q \in Request, q.pc # "idle"
  PROVE  /\ q.familyId \in FamilyIds
         /\ q.token \in TokenIds
         /\ q.pc = "family" => q.revoked \in BOOLEAN
         /\ q.pc \in {"family", "reuse", "rotate", "respond"}
  BY DEF Request

(***************************************************************************)
(* Type correctness.                                                       *)
(***************************************************************************)
\* The empty tables are well typed.
LEMMA InitType == Init => TypeOK
  <1> SUFFICES ASSUME Init PROVE TypeOK
    OBVIOUS
  <1>1. /\ DOMAIN families = {} /\ DOMAIN tokens = {}
        /\ DOMAIN held = {} /\ DOMAIN why = {}
    BY DEF Init, EmptyTable
  <1>2. /\ families \in [DOMAIN families -> Family]
        /\ tokens \in [DOMAIN tokens -> Token]
        /\ held \in [DOMAIN families -> DOMAIN tokens]
        /\ why \in [DOMAIN families -> SUBSET Causes]
    BY <1>1 DEF Init, EmptyTable
  <1>3. req \in [Requests -> Request] /\ \A r \in Requests : req[r].pc = "idle"
    BY DEF Init, Idle, Request
  <1>4. audit \in [Users -> [login : Nat, logout : Nat]] /\ now \in Nat
    BY DEF Init
  <1> QED BY <1>1, <1>2, <1>3, <1>4 DEF TypeOK

\* A freshly issued row is well typed.
LEMMA NewTokenType ==
  ASSUME TypeOK, NEW f \in FamilyIds, NEW p \in TokenIds \cup {Null}
  PROVE  /\ NewToken(f, p) \in Token
         /\ NewToken(f, p).familyId = f
         /\ NewToken(f, p).revoked = FALSE
         /\ NewToken(f, p).replacedById = Null
         /\ NewToken(f, p).parent = p
  BY RefreshAssumption DEF TypeOK, NewToken, Token

\* What login does to each table.
LEMMA LoginEffect ==
  ASSUME TypeOK, NEW u \in Users, Login(u)
  PROVE  \E f \in FamilyIds \ DOMAIN families, x \in TokenIds \ DOMAIN tokens :
           /\ DOMAIN families' = DOMAIN families \cup {f}
           /\ \A g \in DOMAIN families : families'[g] = families[g]
           /\ families'[f] = [userId |-> u, revoked |-> FALSE]
           /\ DOMAIN tokens' = DOMAIN tokens \cup {x}
           /\ \A y \in DOMAIN tokens : tokens'[y] = tokens[y]
           /\ tokens'[x] = NewToken(f, Null)
           /\ DOMAIN held' = DOMAIN held \cup {f}
           /\ \A g \in DOMAIN families : held'[g] = held[g]
           /\ held'[f] = x
           /\ DOMAIN why' = DOMAIN why \cup {f}
           /\ \A g \in DOMAIN families : why'[g] = why[g]
           /\ why'[f] = {}
           /\ families' \in [DOMAIN families' -> Family]
           /\ tokens' \in [DOMAIN tokens' -> Token]
           /\ held' \in [DOMAIN families' -> DOMAIN tokens']
           /\ why' \in [DOMAIN families' -> SUBSET Causes]
  <1>1. PICK f \in FamilyIds \ DOMAIN families, x \in TokenIds \ DOMAIN tokens :
          /\ families' = Insert(families, f, [userId |-> u, revoked |-> FALSE])
          /\ tokens' = Insert(tokens, x, NewToken(f, Null))
          /\ held' = Insert(held, f, x)
          /\ why' = Insert(why, f, {})
    BY DEF Login
  <1>2. DOMAIN held = DOMAIN families /\ DOMAIN why = DOMAIN families
    BY DEF TypeOK
  <1>3. /\ DOMAIN families' = DOMAIN families \cup {f}
        /\ \A g \in DOMAIN families : families'[g] = families[g]
        /\ families'[f] = [userId |-> u, revoked |-> FALSE]
    BY <1>1 DEF Insert
  <1>4. /\ DOMAIN tokens' = DOMAIN tokens \cup {x}
        /\ \A y \in DOMAIN tokens : tokens'[y] = tokens[y]
        /\ tokens'[x] = NewToken(f, Null)
    BY <1>1 DEF Insert
  <1>5. /\ DOMAIN held' = DOMAIN held \cup {f}
        /\ \A g \in DOMAIN families : held'[g] = held[g]
        /\ held'[f] = x
    BY <1>1, <1>2 DEF Insert
  <1>6. /\ DOMAIN why' = DOMAIN why \cup {f}
        /\ \A g \in DOMAIN families : why'[g] = why[g]
        /\ why'[f] = {}
    BY <1>1, <1>2 DEF Insert
  <1>7. families' \in [DOMAIN families' -> Family]
    BY <1>1, <1>3 DEF Insert, TypeOK, Family
  <1>8. tokens' \in [DOMAIN tokens' -> Token]
    <2>1. NewToken(f, Null) \in Token
      BY NewTokenType
    <2> QED BY <1>1, <1>4, <2>1 DEF Insert, TypeOK
  <1>9. held' \in [DOMAIN families' -> DOMAIN tokens']
    BY <1>1, <1>2, <1>3, <1>4 DEF Insert, TypeOK
  <1>10. why' \in [DOMAIN families' -> SUBSET Causes]
    BY <1>1, <1>2, <1>3 DEF Insert, TypeOK
  <1> QED BY <1>1, <1>3, <1>4, <1>5, <1>6, <1>7, <1>8, <1>9, <1>10

\* What a rotation does to the tokens.
LEMMA ReplaceEffect ==
  ASSUME TypeOK, NEW x \in DOMAIN tokens, NEW y \in TokenIds \ DOMAIN tokens, Replace(x, y)
  PROVE  /\ DOMAIN tokens' = DOMAIN tokens \cup {y}
         /\ \A z \in DOMAIN tokens \ {x} : tokens'[z] = tokens[z]
         /\ tokens'[x] = [tokens[x] EXCEPT !.revoked = TRUE, !.replacedById = y]
         /\ tokens'[y] = NewToken(tokens[x].familyId, x)
         /\ tokens' \in [DOMAIN tokens' -> Token]
  <1> DEFINE row == NewToken(tokens[x].familyId, x)
             table == Insert(tokens, y, row)
  <1>1. x \in TokenIds /\ tokens[x] \in Token /\ tokens[x].familyId \in FamilyIds
    BY DEF TypeOK, Token
  <1>2. row \in Token
    BY <1>1, NewTokenType
  <1> HIDE DEF row
  <1>3. /\ DOMAIN table = DOMAIN tokens \cup {y}
        /\ \A z \in DOMAIN tokens : table[z] = tokens[z]
        /\ table[y] = row
        /\ table \in [DOMAIN tokens \cup {y} -> Token]
    BY <1>2 DEF Insert, TypeOK
  <1>4. tokens' = [table EXCEPT ![x].revoked = TRUE, ![x].replacedById = y]
    BY DEF Replace, row
  <1> HIDE DEF table
  <1>5. tokens' = [table EXCEPT ![x] = [@ EXCEPT !.revoked = TRUE, !.replacedById = y]]
    BY <1>3, <1>4
  <1>6. [table[x] EXCEPT !.revoked = TRUE, !.replacedById = y] \in Token
    BY <1>1, <1>3 DEF Token
  <1> QED BY <1>3, <1>5, <1>6 DEF row

\* What closing a family does to the tables.
LEMMA RevokeEffect ==
  ASSUME TypeOK, NEW f \in DOMAIN families, RevokeFamily(f)
  PROVE  /\ DOMAIN families' = DOMAIN families
         /\ \A g \in DOMAIN families \ {f} : families'[g] = families[g]
         /\ families'[f] = [families[f] EXCEPT !.revoked = TRUE]
         /\ DOMAIN tokens' = DOMAIN tokens
         /\ \A x \in DOMAIN tokens :
              /\ tokens[x].familyId # f => tokens'[x] = tokens[x]
              /\ tokens[x].familyId = f => tokens'[x] = [tokens[x] EXCEPT !.revoked = TRUE]
              /\ tokens'[x].familyId = tokens[x].familyId
              /\ tokens'[x].parent = tokens[x].parent
         /\ families' \in [DOMAIN families -> Family]
         /\ tokens' \in [DOMAIN tokens -> Token]
  <1>1. /\ DOMAIN families' = DOMAIN families
        /\ \A g \in DOMAIN families \ {f} : families'[g] = families[g]
        /\ families'[f] = [families[f] EXCEPT !.revoked = TRUE]
        /\ families' \in [DOMAIN families -> Family]
    <2>1. /\ families' = [families EXCEPT ![f].revoked = TRUE]
          /\ families \in [DOMAIN families -> Family]
      BY DEF RevokeFamily, TypeOK
    <2>2. [families[f] EXCEPT !.revoked = TRUE] \in Family
      BY <2>1 DEF Family
    <2> QED BY <2>1, <2>2
  <1>2. tokens' = [x \in DOMAIN tokens |->
          IF x \in TokensOf(f) THEN [tokens[x] EXCEPT !.revoked = TRUE] ELSE tokens[x]]
    BY DEF RevokeFamily
  <1>3. \A x \in DOMAIN tokens : tokens[x] \in Token
    BY DEF TypeOK
  <1>4. \A x \in DOMAIN tokens :
              /\ tokens[x].familyId # f => tokens'[x] = tokens[x]
              /\ tokens[x].familyId = f => tokens'[x] = [tokens[x] EXCEPT !.revoked = TRUE]
    BY <1>2 DEF TokensOf
  <1>5. \A x \in DOMAIN tokens : [tokens[x] EXCEPT !.revoked = TRUE] \in Token
    BY <1>3 DEF Token
  <1>6. \A x \in DOMAIN tokens :
              /\ tokens'[x].familyId = tokens[x].familyId
              /\ tokens'[x].parent = tokens[x].parent
    BY <1>3, <1>4 DEF Token
  <1>7. tokens' \in [DOMAIN tokens -> Token]
    BY <1>2, <1>3, <1>5
  <1> QED BY <1>1, <1>2, <1>4, <1>6, <1>7

\* A step that only moves a request keeps the types.
LEMMA GotoType ==
  ASSUME TypeOK, NEW r \in Requests, NEW q \in Request, Goto(r, q),
         q.pc # "idle" => /\ q.token \in DOMAIN tokens
                          /\ tokens[q.token].familyId = q.familyId,
         why' \in [DOMAIN families -> SUBSET Causes],
         UNCHANGED <<families, tokens, audit, held, now>>
  PROVE  TypeOK'
  <1>1. req' \in [Requests -> Request]
    BY DEF Goto, TypeOK
  <1>2. \A p \in Requests : req'[p].pc # "idle" =>
          /\ req'[p].token \in DOMAIN tokens
          /\ tokens[req'[p].token].familyId = req'[p].familyId
    BY DEF Goto, TypeOK
  <1> QED BY <1>1, <1>2 DEF TypeOK

\* Every step of a refresh request keeps the types.
LEMMA RefreshType ==
  ASSUME TypeOK, NEW r \in Requests, Refresh(r)
  PROVE  TypeOK'
  <1>0. Idle \in Request /\ Idle.pc = "idle"
    BY DEF Idle, Request
  <1>1. ASSUME NEW x \in TokenIds, ReadToken(r, x)
        PROVE  TypeOK'
    <2> DEFINE f == tokens[x].familyId
               q == [pc |-> "family", familyId |-> f, token |-> x,
                     revoked |-> tokens[x].revoked]
    <2>1. x \in DOMAIN tokens /\ f \in DOMAIN families /\ f \in FamilyIds
      BY <1>1 DEF ReadToken, TypeOK
    <2>2. q \in Request
      <3>1. tokens[x].revoked \in BOOLEAN
        BY <2>1 DEF TypeOK, Token
      <3> QED BY <2>1, <3>1 DEF Request
    <2>3. why' \in [DOMAIN families -> SUBSET Causes]
      BY <1>1, <2>1 DEF ReadToken, Because, TypeOK, Causes
    <2> QED BY <1>0, <1>1, <2>1, <2>2, <2>3, GotoType DEF ReadToken
  <1>2. CASE ReuseDetected(r)
    <2> DEFINE q == [pc |-> "reuse", familyId |-> req[r].familyId, token |-> req[r].token]
    <2>1. /\ req[r].familyId \in FamilyIds /\ req[r].token \in DOMAIN tokens
          /\ tokens[req[r].token].familyId = req[r].familyId
      BY <1>2, RequestFields DEF ReuseDetected, TypeOK
    <2>2. q \in Request
      BY <2>1 DEF Request, TypeOK
    <2>3. why' \in [DOMAIN families -> SUBSET Causes]
      BY <1>2 DEF ReuseDetected, TypeOK
    <2> QED BY <1>2, <2>1, <2>2, <2>3, GotoType DEF ReuseDetected
  <1>3. CASE Accepted(r)
    <2> DEFINE q == [pc |-> "rotate", familyId |-> req[r].familyId, token |-> req[r].token]
    <2>1. /\ req[r].familyId \in FamilyIds /\ req[r].token \in DOMAIN tokens
          /\ tokens[req[r].token].familyId = req[r].familyId
      BY <1>3, RequestFields DEF Accepted, TypeOK
    <2>2. q \in Request
      BY <2>1 DEF Request, TypeOK
    <2>3. why' \in [DOMAIN families -> SUBSET Causes]
      BY <1>3 DEF Accepted, TypeOK
    <2> QED BY <1>3, <2>1, <2>2, <2>3, GotoType DEF Accepted
  <1>4. CASE Rejected(r)
    <2>1. why' \in [DOMAIN families -> SUBSET Causes]
      BY <1>4 DEF Rejected, TypeOK
    <2> QED BY <1>0, <1>4, <2>1, GotoType DEF Rejected
  <1>5. CASE RevokeReused(r)
    <2> DEFINE f == req[r].familyId
    <2>1. f \in DOMAIN families /\ RevokeFamily(f)
      BY <1>5 DEF RevokeReused, TypeOK
    <2> HIDE DEF f
    <2>2. /\ DOMAIN families' = DOMAIN families
          /\ DOMAIN tokens' = DOMAIN tokens
          /\ \A x \in DOMAIN tokens : tokens'[x].familyId = tokens[x].familyId
          /\ families' \in [DOMAIN families -> Family]
          /\ tokens' \in [DOMAIN tokens -> Token]
      BY <2>1, RevokeEffect
    <2>3. /\ req' \in [Requests -> Request]
          /\ \A p \in Requests : req'[p].pc # "idle" => req'[p] = req[p]
      BY <1>0, <1>5 DEF RevokeReused, Goto, TypeOK
    <2>4. UNCHANGED <<audit, held, why, now>>
      BY <1>5 DEF RevokeReused
    <2>5. \A p \in Requests : req'[p].pc # "idle" =>
            /\ req'[p].token \in DOMAIN tokens'
            /\ tokens'[req'[p].token].familyId = req'[p].familyId
      BY <2>2, <2>3 DEF TypeOK
    <2> QED BY <2>2, <2>3, <2>4, <2>5 DEF TypeOK
  <1>6. CASE Rotate(r)
    <2> DEFINE q == req[r]
    <2>1. /\ q.token \in DOMAIN tokens /\ q.familyId \in FamilyIds
          /\ tokens[q.token].familyId = q.familyId
          /\ q.familyId \in DOMAIN families
      BY <1>6, RequestFields DEF Rotate, TypeOK
    <2>2. PICK y \in TokenIds \ DOMAIN tokens :
            /\ Replace(q.token, y)
            /\ Goto(r, [pc |-> "respond", familyId |-> q.familyId, token |-> y])
      BY <1>6 DEF Rotate
    <2>3. [pc |-> "respond", familyId |-> q.familyId, token |-> y] \in Request
      BY <2>1, <2>2 DEF Request
    <2>4. /\ DOMAIN tokens' = DOMAIN tokens \cup {y}
          /\ \A z \in DOMAIN tokens \ {q.token} : tokens'[z] = tokens[z]
          /\ tokens'[q.token] = [tokens[q.token] EXCEPT !.revoked = TRUE, !.replacedById = y]
          /\ tokens'[y] = NewToken(q.familyId, q.token)
          /\ tokens' \in [DOMAIN tokens' -> Token]
      <3>1. \A x \in DOMAIN tokens : Replace(x, y) =>
               /\ DOMAIN tokens' = DOMAIN tokens \cup {y}
               /\ \A z \in DOMAIN tokens \ {x} : tokens'[z] = tokens[z]
               /\ tokens'[x] = [tokens[x] EXCEPT !.revoked = TRUE, !.replacedById = y]
               /\ tokens'[y] = NewToken(tokens[x].familyId, x)
               /\ tokens' \in [DOMAIN tokens' -> Token]
        BY ReplaceEffect
      <3> QED BY <2>1, <2>2, <3>1
    <2>5. \A z \in DOMAIN tokens : tokens'[z].familyId = tokens[z].familyId
      <3>1. tokens[q.token] \in Token
        BY <2>1 DEF TypeOK
      <3> QED BY <2>1, <2>4, <3>1 DEF Token
    <2>6. tokens'[y].familyId = q.familyId
      BY <2>4 DEF NewToken
    <2>7. /\ req' \in [Requests -> Request]
          /\ \A p \in Requests : req'[p].pc # "idle" =>
               /\ req'[p].token \in DOMAIN tokens'
               /\ tokens'[req'[p].token].familyId = req'[p].familyId
      BY <2>2, <2>3, <2>4, <2>5, <2>6 DEF Goto, TypeOK
    <2>8. UNCHANGED <<families, audit, held, why, now>>
      BY <1>6 DEF Rotate
    <2>9. /\ held' \in [DOMAIN families' -> DOMAIN tokens']
          /\ \A f \in DOMAIN families' : tokens'[held'[f]].familyId = f
      BY <2>4, <2>5, <2>8 DEF TypeOK
    <2>10. \A x \in DOMAIN tokens' : tokens'[x].familyId \in DOMAIN families'
      BY <2>1, <2>4, <2>5, <2>6, <2>8 DEF TypeOK
    <2>11. DOMAIN tokens' \subseteq TokenIds
      BY <2>2, <2>4 DEF TypeOK
    <2> QED BY <2>4, <2>7, <2>8, <2>9, <2>10, <2>11 DEF TypeOK
  <1>7. CASE Respond(r)
    <2>1. /\ req[r].token \in DOMAIN tokens
          /\ tokens[req[r].token].familyId = req[r].familyId
      BY <1>7 DEF Respond, TypeOK
    <2>2. /\ held' \in [DOMAIN families -> DOMAIN tokens]
          /\ \A f \in DOMAIN families : tokens[held'[f]].familyId = f
      BY <1>7, <2>1 DEF Respond, TypeOK
    <2>3. /\ req' \in [Requests -> Request]
          /\ \A p \in Requests : req'[p].pc # "idle" => req'[p] = req[p]
      BY <1>0, <1>7 DEF Respond, Goto, TypeOK
    <2> QED BY <1>7, <2>2, <2>3 DEF Respond, TypeOK
  <1>8. CASE Abort(r)
    <2>1. why' \in [DOMAIN families -> SUBSET Causes]
      BY <1>8 DEF Abort, Because, TypeOK, Causes
    <2> QED BY <1>0, <1>8, <2>1, GotoType DEF Abort
  <1> QED BY <1>1, <1>2, <1>3, <1>4, <1>5, <1>6, <1>7, <1>8 DEF Refresh

\* A logout keeps the types.
LEMMA LogoutType ==
  ASSUME TypeOK, NEW x \in TokenIds, Logout(x)
  PROVE  TypeOK'
  <1> DEFINE f == tokens[x].familyId
  <1>1. f \in DOMAIN families /\ families[f].userId \in Users
    BY DEF Logout, TypeOK, Family
  <1>2. RevokeFamily(f)
    BY DEF Logout
  <1>3. /\ audit' \in [Users -> [login : Nat, logout : Nat]]
        /\ why' \in [DOMAIN families -> SUBSET Causes]
    BY <1>1 DEF Logout, Because, TypeOK, Causes
  <1> HIDE DEF f
  <1>4. /\ DOMAIN families' = DOMAIN families
        /\ DOMAIN tokens' = DOMAIN tokens
        /\ \A y \in DOMAIN tokens : tokens'[y].familyId = tokens[y].familyId
        /\ families' \in [DOMAIN families -> Family]
        /\ tokens' \in [DOMAIN tokens -> Token]
    BY <1>1, <1>2, RevokeEffect
  <1>5. UNCHANGED <<req, held, now>>
    BY DEF Logout
  <1>6. \A p \in Requests : req'[p].pc # "idle" =>
          /\ req'[p].token \in DOMAIN tokens'
          /\ tokens'[req'[p].token].familyId = req'[p].familyId
    BY <1>4, <1>5 DEF TypeOK
  <1> QED BY <1>3, <1>4, <1>5, <1>6 DEF TypeOK

\* Every step keeps the types.
LEMMA NextType == TypeOK /\ [Next]_vars => TypeOK'
  <1> SUFFICES ASSUME TypeOK, [Next]_vars PROVE TypeOK'
    OBVIOUS
  <1>1. ASSUME NEW u \in Users, Login(u)
        PROVE  TypeOK'
    <2>1. PICK f \in FamilyIds \ DOMAIN families, x \in TokenIds \ DOMAIN tokens :
           /\ DOMAIN families' = DOMAIN families \cup {f}
           /\ DOMAIN tokens' = DOMAIN tokens \cup {x}
           /\ \A y \in DOMAIN tokens : tokens'[y] = tokens[y]
           /\ tokens'[x] = NewToken(f, Null)
           /\ \A g \in DOMAIN families : held'[g] = held[g]
           /\ held'[f] = x
           /\ families' \in [DOMAIN families' -> Family]
           /\ tokens' \in [DOMAIN tokens' -> Token]
           /\ held' \in [DOMAIN families' -> DOMAIN tokens']
           /\ why' \in [DOMAIN families' -> SUBSET Causes]
      BY <1>1, LoginEffect
    <2>2. tokens'[x].familyId = f
      BY <2>1 DEF NewToken
    <2>3. \A y \in DOMAIN tokens' : tokens'[y].familyId \in DOMAIN families'
      BY <2>1, <2>2 DEF TypeOK
    <2>4. audit' \in [Users -> [login : Nat, logout : Nat]] /\ UNCHANGED <<req, now>>
      BY <1>1 DEF Login, TypeOK
    <2>5. \A g \in DOMAIN families' : tokens'[held'[g]].familyId = g
      BY <2>1, <2>2 DEF TypeOK
    <2>6. \A p \in Requests : req'[p].pc # "idle" =>
            /\ req'[p].token \in DOMAIN tokens'
            /\ tokens'[req'[p].token].familyId = req'[p].familyId
      BY <2>1, <2>4 DEF TypeOK
    <2>7. DOMAIN families' \subseteq FamilyIds /\ DOMAIN tokens' \subseteq TokenIds
      BY <2>1 DEF TypeOK
    <2> QED BY <2>1, <2>3, <2>4, <2>5, <2>6, <2>7 DEF TypeOK
  <1>2. CASE Tick
    BY <1>2 DEF Tick, TypeOK
  <1>3. CASE UNCHANGED vars
    BY <1>3 DEF vars, TypeOK
  <1> QED BY <1>1, <1>2, <1>3, RefreshType, LogoutType DEF Next

\* Every row keeps its declared shape, whatever requests, logins and logouts interleave.
THEOREM SessionTypes == Spec => []TypeOK
  BY InitType, NextType, PTL DEF Spec

(***************************************************************************)
(* The token tables.                                                       *)
(***************************************************************************)
\* A step leaves both tables alone, is a login, closes a family, or rotates a token.
LEMMA TablesStep ==
  ASSUME TypeOK, [Next]_vars
  PROVE  \/ UNCHANGED <<families, tokens>>
         \/ \E u \in Users : Login(u)
         \/ \E f \in DOMAIN families : RevokeFamily(f)
         \/ /\ UNCHANGED families
            /\ \E x \in DOMAIN tokens, y \in TokenIds \ DOMAIN tokens : Replace(x, y)
  <1>1. ASSUME NEW r \in Requests, RevokeReused(r)
        PROVE  \E f \in DOMAIN families : RevokeFamily(f)
    BY <1>1 DEF RevokeReused, TypeOK
  <1>2. ASSUME NEW x \in TokenIds, Logout(x)
        PROVE  \E f \in DOMAIN families : RevokeFamily(f)
    BY <1>2 DEF Logout, TypeOK
  <1>3. ASSUME NEW r \in Requests, Rotate(r)
        PROVE  /\ UNCHANGED families
               /\ \E x \in DOMAIN tokens, y \in TokenIds \ DOMAIN tokens : Replace(x, y)
    BY <1>3 DEF Rotate, TypeOK
  <1>4. ASSUME NEW r \in Requests, Refresh(r), ~ RevokeReused(r), ~ Rotate(r)
        PROVE  UNCHANGED <<families, tokens>>
    BY <1>4 DEF Refresh, ReadToken, ReuseDetected, Accepted, Rejected, Respond, Abort
  <1>5. CASE Tick
    BY <1>5 DEF Tick
  <1>6. CASE UNCHANGED vars
    BY <1>6 DEF vars
  <1> QED BY <1>1, <1>2, <1>3, <1>4, <1>5, <1>6 DEF Next

\* What the tables say of family f: one token was issued by the login, all others by a
\* rotation of a token of the family, and while the family is open exactly the tokens
\* without a successor are live.
FamilyAt(f) ==
  /\ \E x \in TokensOf(f) : TokensOf(f) \ Minted(f) = {x}
  /\ Rotated(f) \subseteq TokensOf(f)
  /\ ~ families[f].revoked => Live(f) = TokensOf(f) \ Rotated(f)

TableInv ==
  /\ DeadMeansRotated
  /\ IsFiniteSet(DOMAIN tokens)
  /\ \A f \in DOMAIN families : FamilyAt(f)

\* Leaves are counted by the rotations: each issues one token and uses up one, unless
\* that one was used up before.
LEMMA LiveCounted ==
  ASSUME NEW f \in DOMAIN families, IsFiniteSet(DOMAIN tokens), FamilyAt(f),
         ~ families[f].revoked
  PROVE  Cardinality(Live(f)) = 1 + Forks(f)
  <1> DEFINE T == TokensOf(f)
             M == Minted(f)
             R == Rotated(f)
  <1>1. T \subseteq DOMAIN tokens /\ M \subseteq T
    BY DEF TokensOf, Minted
  <1>2. R \subseteq T /\ Live(f) = T \ R
    BY DEF FamilyAt
  <1>3. PICK x \in T : T \ M = {x}
    BY DEF FamilyAt
  <1>4. Forks(f) = Cardinality(M) - Cardinality(R)
    BY DEF Forks
  <1> HIDE DEF T, M, R
  <1>5. IsFiniteSet(T) /\ IsFiniteSet(M) /\ IsFiniteSet(R)
    BY <1>1, <1>2, FS_Subset
  <1>6. Cardinality(T) \in Nat /\ Cardinality(M) \in Nat /\ Cardinality(R) \in Nat
    BY <1>5, FS_CardinalityType
  <1>7. T \cap M = M /\ T \cap R = R
    BY <1>1, <1>2
  <1>8. Cardinality(T \ M) = Cardinality(T) - Cardinality(M)
    <2>1. Cardinality(T \ M) = Cardinality(T) - Cardinality(T \cap M)
      BY <1>5, FS_Difference
    <2> QED BY <1>7, <2>1
  <1>9. Cardinality(T \ R) = Cardinality(T) - Cardinality(R)
    <2>1. Cardinality(T \ R) = Cardinality(T) - Cardinality(T \cap R)
      BY <1>5, FS_Difference
    <2> QED BY <1>7, <2>1
  <1>10. Cardinality(T \ M) = 1
    BY <1>3, FS_Singleton
  <1> QED BY <1>2, <1>4, <1>6, <1>8, <1>9, <1>10

\* A family whose rows stay as they are.
LEMMA FamilyFrame ==
  ASSUME NEW f \in DOMAIN families, FamilyAt(f), families'[f] = families[f],
         TokensOf(f)' = TokensOf(f), \A z \in TokensOf(f) : tokens'[z] = tokens[z]
  PROVE  FamilyAt(f)'
  <1>1. Minted(f)' = Minted(f)
    BY DEF Minted
  <1>2. Rotated(f)' = Rotated(f)
    BY DEF Rotated
  <1>3. Live(f)' = Live(f)
    BY DEF Live
  <1> QED BY <1>1, <1>2, <1>3 DEF FamilyAt

\* A login adds a family with one live token and leaves every other alone.
LEMMA LoginTables ==
  ASSUME TypeOK, TableInv, NEW u \in Users, Login(u)
  PROVE  TableInv'
  <1>1. PICK f \in FamilyIds \ DOMAIN families, x \in TokenIds \ DOMAIN tokens :
           /\ DOMAIN families' = DOMAIN families \cup {f}
           /\ \A g \in DOMAIN families : families'[g] = families[g]
           /\ DOMAIN tokens' = DOMAIN tokens \cup {x}
           /\ \A y \in DOMAIN tokens : tokens'[y] = tokens[y]
           /\ tokens'[x] = NewToken(f, Null)
    BY LoginEffect
  <1>2. /\ tokens'[x].familyId = f /\ tokens'[x].revoked = FALSE
        /\ tokens'[x].replacedById = Null /\ tokens'[x].parent = Null
    BY <1>1 DEF NewToken
  <1>3. \A y \in DOMAIN tokens :
          tokens[y].familyId \in DOMAIN families /\ tokens[y].familyId # f
    BY <1>1 DEF TypeOK
  <1>4. /\ \A g \in DOMAIN families : TokensOf(g)' = TokensOf(g)
        /\ TokensOf(f)' = {x}
    BY <1>1, <1>2, <1>3 DEF TokensOf
  <1>5. DeadMeansRotated'
    BY <1>1, <1>2, <1>3 DEF TableInv, DeadMeansRotated
  <1>6. IsFiniteSet(DOMAIN tokens)'
    BY <1>1, FS_AddElement DEF TableInv
  <1>7. FamilyAt(f)'
    <2>1. Minted(f)' = {} /\ Rotated(f)' = {} /\ Live(f)' = {x}
      BY <1>2, <1>4 DEF Minted, Rotated, Live
    <2> QED BY <1>4, <2>1 DEF FamilyAt
  <1>8. ASSUME NEW g \in DOMAIN families PROVE FamilyAt(g)'
    <2>1. \A z \in TokensOf(g) : tokens'[z] = tokens[z]
      BY <1>1 DEF TokensOf
    <2> QED BY <1>1, <1>4, <2>1, FamilyFrame DEF TableInv
  <1> QED BY <1>1, <1>5, <1>6, <1>7, <1>8 DEF TableInv

\* Closing a family leaves every other alone.
LEMMA RevokeTables ==
  ASSUME TypeOK, TableInv, NEW f \in DOMAIN families, RevokeFamily(f)
  PROVE  TableInv'
  <1>1. /\ DOMAIN families' = DOMAIN families
        /\ \A g \in DOMAIN families \ {f} : families'[g] = families[g]
        /\ families'[f] = [families[f] EXCEPT !.revoked = TRUE]
        /\ DOMAIN tokens' = DOMAIN tokens
        /\ \A x \in DOMAIN tokens :
              /\ tokens[x].familyId # f => tokens'[x] = tokens[x]
              /\ tokens'[x].familyId = tokens[x].familyId
              /\ tokens'[x].parent = tokens[x].parent
    BY RevokeEffect
  <1>2. families'[f].revoked
    <2>1. families[f] \in Family
      BY DEF TypeOK
    <2> QED BY <1>1, <2>1 DEF Family
  <1>3. \A g \in DOMAIN families : TokensOf(g)' = TokensOf(g)
    BY <1>1 DEF TokensOf
  <1>4. ASSUME NEW g \in DOMAIN families \ {f} PROVE FamilyAt(g)'
    <2>1. \A x \in TokensOf(g) : tokens'[x] = tokens[x]
      BY <1>1 DEF TokensOf
    <2> QED BY <1>1, <1>3, <2>1, FamilyFrame DEF TableInv
  <1>5. FamilyAt(f)'
    <2>1. \A x \in TokensOf(f) : tokens'[x].parent = tokens[x].parent
      BY <1>1 DEF TokensOf
    <2>2. Minted(f)' = Minted(f)
      BY <1>3, <2>1 DEF Minted
    <2>3. Rotated(f)' = Rotated(f)
      BY <1>3, <2>1 DEF Rotated
    <2>4. FamilyAt(f)
      BY DEF TableInv
    <2> QED BY <1>2, <1>3, <2>2, <2>3, <2>4 DEF FamilyAt
  <1>6. DeadMeansRotated'
    <2> SUFFICES ASSUME NEW x \in DOMAIN tokens, ~ families'[tokens'[x].familyId].revoked
                 PROVE  tokens'[x].revoked <=> tokens'[x].replacedById # Null
      BY <1>1 DEF DeadMeansRotated
    <2>1. tokens[x].familyId \in DOMAIN families \ {f} /\ tokens'[x] = tokens[x]
      BY <1>1, <1>2 DEF TypeOK
    <2>2. ~ families[tokens[x].familyId].revoked
      BY <1>1, <2>1
    <2> QED BY <2>1, <2>2 DEF TableInv, DeadMeansRotated
  <1>7. IsFiniteSet(DOMAIN tokens)'
    BY <1>1 DEF TableInv
  <1> QED BY <1>1, <1>4, <1>5, <1>6, <1>7 DEF TableInv

\* A rotation issues a live token and leaves the one it rotated dead, for the first or
\* for another time.
LEMMA ReplaceTables ==
  ASSUME TypeOK, TableInv, UNCHANGED families,
         NEW x \in DOMAIN tokens, NEW y \in TokenIds \ DOMAIN tokens, Replace(x, y)
  PROVE  TableInv'
  <1>0. PICK f \in DOMAIN families : f = tokens[x].familyId
    BY DEF TypeOK
  <1>1. /\ DOMAIN tokens' = DOMAIN tokens \cup {y}
        /\ \A z \in DOMAIN tokens \ {x} : tokens'[z] = tokens[z]
        /\ tokens'[x] = [tokens[x] EXCEPT !.revoked = TRUE, !.replacedById = y]
        /\ tokens'[y] = NewToken(f, x)
    BY <1>0, ReplaceEffect
  <1>2. tokens[x] \in Token /\ y # Null /\ x # Null /\ x # y
    BY RefreshAssumption DEF TypeOK
  <1>3. /\ tokens'[x].familyId = f /\ tokens'[x].revoked = TRUE
        /\ tokens'[x].replacedById = y /\ tokens'[x].parent = tokens[x].parent
    BY <1>0, <1>1, <1>2 DEF Token
  <1>4. /\ tokens'[y].familyId = f /\ tokens'[y].revoked = FALSE
        /\ tokens'[y].replacedById = Null /\ tokens'[y].parent = x
    BY <1>1 DEF NewToken
  <1>5. \A z \in DOMAIN tokens :
          tokens'[z].familyId = tokens[z].familyId /\ tokens'[z].parent = tokens[z].parent
    BY <1>0, <1>1, <1>3
  <1>6. /\ TokensOf(f)' = TokensOf(f) \cup {y}
        /\ \A g \in DOMAIN families \ {f} : TokensOf(g)' = TokensOf(g)
    BY <1>1, <1>4, <1>5 DEF TokensOf
  <1>7. /\ x \in TokensOf(f) /\ y \notin TokensOf(f)
        /\ \A z \in TokensOf(f) : z \in DOMAIN tokens /\ z # y
    BY <1>0 DEF TokensOf
  <1>8. DeadMeansRotated'
    BY <1>1, <1>2, <1>3, <1>4 DEF TableInv, DeadMeansRotated
  <1>9. IsFiniteSet(DOMAIN tokens)'
    BY <1>1, FS_AddElement DEF TableInv
  <1>10. FamilyAt(f)'
    <2>1. Minted(f)' = Minted(f) \cup {y}
      BY <1>2, <1>4, <1>5, <1>6, <1>7 DEF Minted
    <2>2. Rotated(f)' = Rotated(f) \cup {x}
      BY <1>2, <1>4, <1>5, <1>6, <1>7 DEF Rotated
    <2>3. Live(f)' = (Live(f) \ {x}) \cup {y}
      BY <1>1, <1>3, <1>4, <1>6, <1>7 DEF Live
    <2>4. FamilyAt(f)
      BY DEF TableInv
    <2>5. PICK z \in TokensOf(f) : TokensOf(f) \ Minted(f) = {z}
      BY <2>4 DEF FamilyAt
    <2>6. Minted(f) \subseteq TokensOf(f)
      BY DEF Minted
    <2>7. z \in TokensOf(f)' /\ TokensOf(f)' \ Minted(f)' = {z}
      BY <1>6, <1>7, <2>1, <2>5, <2>6
    <2>8. Rotated(f)' \subseteq TokensOf(f)'
      BY <1>6, <1>7, <2>2, <2>4 DEF FamilyAt
    <2>9. ~ families'[f].revoked => Live(f)' = TokensOf(f)' \ Rotated(f)'
      BY <1>6, <1>7, <2>2, <2>3, <2>4 DEF FamilyAt
    <2> QED BY <2>7, <2>8, <2>9 DEF FamilyAt
  <1>11. ASSUME NEW g \in DOMAIN families \ {f} PROVE FamilyAt(g)'
    <2>1. \A z \in TokensOf(g) : tokens'[z] = tokens[z]
      BY <1>0, <1>1 DEF TokensOf
    <2> QED BY <1>6, <2>1, FamilyFrame DEF TableInv
  <1> QED BY <1>8, <1>9, <1>10, <1>11 DEF TableInv

\* Every step keeps the facts about the tables.
LEMMA NextTables == TypeOK /\ TableInv /\ [Next]_vars => TableInv'
  <1> SUFFICES ASSUME TypeOK, TableInv, [Next]_vars PROVE TableInv'
    OBVIOUS
  <1>1. CASE UNCHANGED <<families, tokens>>
    <2>1. DeadMeansRotated' /\ IsFiniteSet(DOMAIN tokens)'
      BY <1>1 DEF TableInv, DeadMeansRotated
    <2>2. ASSUME NEW f \in DOMAIN families PROVE FamilyAt(f)'
      BY <1>1, FamilyFrame DEF TableInv, TokensOf
    <2> QED BY <1>1, <2>1, <2>2 DEF TableInv
  <1> QED BY <1>1, TablesStep, LoginTables, RevokeTables, ReplaceTables

\* There are no tables to begin with.
LEMMA InitTables == Init => TableInv
  <1> SUFFICES ASSUME Init PROVE TableInv
    OBVIOUS
  <1>1. DOMAIN tokens = {} /\ DOMAIN families = {}
    BY DEF Init, EmptyTable
  <1> QED BY <1>1, FS_EmptySet DEF TableInv, DeadMeansRotated

\* While a session is open a token of it is dead exactly when it was rotated.
THEOREM DeadTokens == Spec => []DeadMeansRotated
  <1>1. TableInv => DeadMeansRotated
    BY DEF TableInv
  <1> QED BY <1>1, InitTables, NextTables, SessionTypes, PTL DEF Spec

\* An open session has one live token, and one more for every rotation of a token that
\* was rotated before.
THEOREM LiveTokens == Spec => []LiveTokensCounted
  <1>1. TableInv => LiveTokensCounted
    BY LiveCounted DEF TableInv, LiveTokensCounted
  <1> QED BY <1>1, InitTables, NextTables, SessionTypes, PTL DEF Spec

(***************************************************************************)
(* The honest client.  HonestSession is not inductive: what it says of the *)
(* token a request will rotate has to be known from the moment the request *)
(* reads it.                                                               *)
(***************************************************************************)
HonestAt(f) ==
  why[f] = {} =>
     /\ ~ families[f].revoked
     /\ \A q, r \in InFlight(f) : q = r
     /\ \A r \in InFlight(f) :
          /\ req[r].pc \in {"family", "rotate", "respond"}
          /\ req[r].pc = "family" => ~ req[r].revoked
          /\ req[r].pc \in {"family", "rotate"} => req[r].token = held[f]
          /\ req[r].pc = "respond" => req[r].token \in Live(f)
     /\ (\A r \in InFlight(f) : req[r].pc # "respond") => held[f] \in Live(f)

HonestInv == \A f \in DOMAIN families : HonestAt(f)

\* A step that does not touch the family, its tokens or its requests changes nothing
\* for it.
LEMMA HonestFrame ==
  ASSUME NEW f \in DOMAIN families, HonestAt(f),
         families'[f] = families[f], held'[f] = held[f], why'[f] = why[f],
         Live(f)' = Live(f), InFlight(f)' = InFlight(f),
         \A r \in InFlight(f) : req'[r] = req[r]
  PROVE  HonestAt(f)'
  <1> SUFFICES ASSUME why[f] = {} PROVE HonestAt(f)'
    BY DEF HonestAt
  <1>1. \A q, r \in InFlight(f)' : q = r
    BY DEF HonestAt
  <1>2. \A r \in InFlight(f)' :
          /\ req'[r].pc \in {"family", "rotate", "respond"}
          /\ req'[r].pc = "family" => ~ req'[r].revoked
          /\ req'[r].pc \in {"family", "rotate"} => req'[r].token = held'[f]
          /\ req'[r].pc = "respond" => req'[r].token \in Live(f)'
    BY DEF HonestAt
  <1>3. (\A r \in InFlight(f)' : req'[r].pc # "respond") => held'[f] \in Live(f)'
    BY DEF HonestAt
  <1> QED BY <1>1, <1>2, <1>3 DEF HonestAt

\* A request of another family moves: nothing changes for f.
LEMMA HonestElsewhere ==
  ASSUME TypeOK, NEW f \in DOMAIN families, HonestAt(f), NEW r \in Requests, NEW q,
         Goto(r, q), r \notin InFlight(f), q.pc # "idle" => q.familyId # f,
         families'[f] = families[f], held'[f] = held[f], why'[f] = why[f],
         Live(f)' = Live(f)
  PROVE  HonestAt(f)'
  <1>1. /\ req' = [req EXCEPT ![r] = q]
        /\ req \in [Requests -> Request]
    BY DEF Goto, TypeOK
  <1>2. InFlight(f)' = InFlight(f)
    BY <1>1 DEF InFlight
  <1>3. \A p \in InFlight(f) : req'[p] = req[p]
    BY <1>1 DEF InFlight
  <1> QED BY <1>2, <1>3, HonestFrame

\* There is no session to begin with.
LEMMA HonestInit == Init => HonestInv
  BY DEF Init, EmptyTable, HonestInv

\* A login opens an honest session.
LEMMA HonestLogin ==
  ASSUME TypeOK, HonestInv, NEW u \in Users, Login(u)
  PROVE  HonestInv'
  <1>1. PICK f \in FamilyIds \ DOMAIN families, x \in TokenIds \ DOMAIN tokens :
           /\ DOMAIN families' = DOMAIN families \cup {f}
           /\ \A g \in DOMAIN families : families'[g] = families[g]
           /\ families'[f] = [userId |-> u, revoked |-> FALSE]
           /\ DOMAIN tokens' = DOMAIN tokens \cup {x}
           /\ \A y \in DOMAIN tokens : tokens'[y] = tokens[y]
           /\ tokens'[x] = NewToken(f, Null)
           /\ \A g \in DOMAIN families : held'[g] = held[g]
           /\ held'[f] = x
           /\ \A g \in DOMAIN families : why'[g] = why[g]
    BY LoginEffect
  <1>2. tokens'[x].familyId = f /\ tokens'[x].revoked = FALSE
    BY <1>1 DEF NewToken
  <1>3. req' = req
    BY DEF Login
  <1>4. \A r \in Requests : req[r].pc # "idle" => req[r].familyId \in DOMAIN families
    BY DEF TypeOK
  <1>5. InFlight(f)' = {}
    BY <1>1, <1>3, <1>4 DEF InFlight
  <1>6. x \in Live(f)'
    BY <1>1, <1>2 DEF Live, TokensOf
  <1>7. HonestAt(f)'
    BY <1>1, <1>5, <1>6 DEF HonestAt
  <1>8. ASSUME NEW g \in DOMAIN families PROVE HonestAt(g)'
    <2>1. Live(g)' = Live(g)
      BY <1>1, <1>2 DEF Live, TokensOf
    <2>2. InFlight(g)' = InFlight(g)
      BY <1>3 DEF InFlight
    <2> QED BY <1>1, <1>3, <2>1, <2>2, HonestFrame DEF HonestInv
  <1> QED BY <1>1, <1>7, <1>8 DEF HonestInv

\* Closing a family for a reason on record leaves the others alone.
LEMMA HonestRevoke ==
  ASSUME TypeOK, NEW f \in DOMAIN families, RevokeFamily(f),
         NEW g \in DOMAIN families \ {f}
  PROVE  families'[g] = families[g] /\ Live(g)' = Live(g)
  <1>1. /\ families'[g] = families[g]
        /\ DOMAIN tokens' = DOMAIN tokens
        /\ \A x \in DOMAIN tokens :
              /\ tokens[x].familyId # f => tokens'[x] = tokens[x]
              /\ tokens'[x].familyId = tokens[x].familyId
    BY RevokeEffect
  <1>2. TokensOf(g)' = TokensOf(g)
    BY <1>1 DEF TokensOf
  <1>3. \A x \in TokensOf(g) : tokens'[x] = tokens[x]
    BY <1>1 DEF TokensOf
  <1> QED BY <1>1, <1>2, <1>3 DEF Live

\* The only request in flight for an honest session moves on within it.
LEMMA HonestMove ==
  ASSUME TypeOK, NEW f \in DOMAIN families, HonestAt(f), NEW r \in InFlight(f), NEW q,
         Goto(r, q), q.familyId = f, why[f] = {}, families'[f] = families[f],
         q.pc \in {"family", "rotate", "respond"},
         q.pc = "family" => ~ q.revoked,
         q.pc \in {"family", "rotate"} => q.token = held'[f] /\ held'[f] \in Live(f)',
         q.pc = "respond" => q.token \in Live(f)'
  PROVE  HonestAt(f)'
  <1>1. r \in Requests /\ req' = [req EXCEPT ![r] = q] /\ req \in [Requests -> Request]
    BY DEF Goto, TypeOK, InFlight
  <1>2. InFlight(f) = {r}
    BY DEF HonestAt
  <1>3. InFlight(f)' = {r} /\ req'[r] = q
    BY <1>1, <1>2 DEF InFlight
  <1> QED BY <1>3 DEF HonestAt

\* The only request in flight for an honest session ends, leaving a live token in hand.
LEMMA HonestEnd ==
  ASSUME TypeOK, NEW f \in DOMAIN families, HonestAt(f), NEW r \in InFlight(f),
         Goto(r, Idle), why[f] = {}, families'[f] = families[f],
         held'[f] \in Live(f)'
  PROVE  HonestAt(f)'
  <1>1. r \in Requests /\ req' = [req EXCEPT ![r] = Idle] /\ req \in [Requests -> Request]
    BY DEF Goto, TypeOK, InFlight
  <1>2. InFlight(f) = {r}
    BY DEF HonestAt
  <1>3. InFlight(f)' = {}
    BY <1>1, <1>2 DEF InFlight, Idle
  <1> QED BY <1>3 DEF HonestAt

\* A token that an honest client presents is live when it is read.
LEMMA HonestRead ==
  ASSUME TypeOK, HonestInv, NEW r \in Requests, NEW x \in TokenIds, ReadToken(r, x)
  PROVE  HonestInv'
  <1>0. PICK f \in DOMAIN families : f = tokens[x].familyId
    BY DEF ReadToken, TypeOK
  <1> DEFINE q == [pc |-> "family", familyId |-> f, token |-> x,
                   revoked |-> tokens[x].revoked]
  <1>1. /\ Goto(r, q)
        /\ req' = [req EXCEPT ![r] = q] /\ req \in [Requests -> Request]
        /\ UNCHANGED <<families, tokens, held>>
        /\ req[r].pc = "idle" /\ x \in DOMAIN tokens
    BY <1>0 DEF ReadToken, Goto, TypeOK
  <1>2. /\ DOMAIN why' = DOMAIN why
        /\ \A g \in DOMAIN families \ {f} : why'[g] = why[g]
        /\ why'[f] = why[f] \cup (IF x = held[f] THEN {} ELSE {"older"})
                       \cup (IF InFlight(f) = {} THEN {} ELSE {"overlap"})
    BY <1>0 DEF ReadToken, Because, TypeOK
  <1>3. \A g \in DOMAIN families : Live(g)' = Live(g)
    BY <1>1 DEF Live, TokensOf
  <1>4. \A g \in DOMAIN families \ {f} : HonestAt(g)'
    BY <1>1, <1>2, <1>3, HonestElsewhere DEF InFlight, HonestInv
  <1>5. ASSUME why'[f] = {} PROVE HonestAt(f)'
    <2>1. why[f] = {} /\ x = held[f] /\ InFlight(f) = {}
      BY <1>2, <1>5
    <2>2. x \in Live(f) /\ ~ families[f].revoked
      BY <2>1 DEF HonestInv, HonestAt
    <2>3. ~ tokens[x].revoked
      BY <2>2 DEF Live
    <2>4. InFlight(f)' = {r} /\ req'[r] = q
      BY <1>1, <2>1 DEF InFlight
    <2> QED BY <1>1, <1>3, <2>1, <2>2, <2>3, <2>4 DEF HonestAt
  <1>6. HonestAt(f)'
    BY <1>5 DEF HonestAt
  <1> QED BY <1>1, <1>4, <1>6 DEF HonestInv

\* A rotation gives an honest client's answer the live token.
LEMMA HonestRotate ==
  ASSUME TypeOK, HonestInv, NEW r \in Requests, Rotate(r)
  PROVE  HonestInv'
  <1>0. PICK f \in DOMAIN families, x \in DOMAIN tokens :
          f = req[r].familyId /\ x = req[r].token /\ tokens[x].familyId = f
    BY DEF Rotate, TypeOK
  <1>1. PICK y \in TokenIds \ DOMAIN tokens :
          /\ Replace(x, y)
          /\ Goto(r, [pc |-> "respond", familyId |-> f, token |-> y])
    BY <1>0 DEF Rotate
  <1>2. UNCHANGED <<families, held, why>> /\ r \in InFlight(f)
    BY <1>0 DEF Rotate, InFlight
  <1>3. /\ DOMAIN tokens' = DOMAIN tokens \cup {y}
        /\ \A z \in DOMAIN tokens \ {x} : tokens'[z] = tokens[z]
        /\ tokens'[x] = [tokens[x] EXCEPT !.revoked = TRUE, !.replacedById = y]
        /\ tokens'[y] = NewToken(f, x)
    BY <1>0, <1>1, ReplaceEffect
  <1>4. /\ tokens'[y].familyId = f /\ tokens'[y].revoked = FALSE
        /\ tokens'[x].familyId = f
    <2>1. tokens[x] \in Token
      BY DEF TypeOK
    <2> QED BY <1>0, <1>3, <2>1 DEF NewToken, Token
  <1>5. y \in Live(f)'
    BY <1>3, <1>4 DEF Live, TokensOf
  <1>6. HonestAt(f)'
    <2>1. CASE why[f] = {}
      <3> DEFINE q == [pc |-> "respond", familyId |-> f, token |-> y]
      <3>1. q.familyId = f /\ q.pc = "respond" /\ q.token = y
        OBVIOUS
      <3> HIDE DEF q
      <3>2. Goto(r, q)
        BY <1>1 DEF q
      <3> QED BY <1>2, <1>5, <2>1, <3>1, <3>2, HonestMove DEF HonestInv
    <2>2. CASE why[f] # {}
      BY <1>2, <2>2 DEF HonestAt
    <2> QED BY <2>1, <2>2
  <1>7. ASSUME NEW g \in DOMAIN families \ {f} PROVE HonestAt(g)'
    <2>1. Live(g)' = Live(g)
      <3>1. TokensOf(g)' = TokensOf(g)
        BY <1>0, <1>3, <1>4 DEF TokensOf
      <3>2. \A z \in TokensOf(g) : tokens'[z] = tokens[z]
        BY <1>0, <1>3 DEF TokensOf
      <3> QED BY <3>1, <3>2 DEF Live
    <2> QED BY <1>0, <1>1, <1>2, <2>1, HonestElsewhere DEF InFlight, HonestInv
  <1> QED BY <1>2, <1>6, <1>7 DEF HonestInv

\* The steps of a refresh that do not touch the tokens.
LEMMA HonestQuiet ==
  ASSUME TypeOK, HonestInv, NEW r \in Requests,
         ReuseDetected(r) \/ Accepted(r) \/ Rejected(r) \/ Respond(r) \/ Abort(r)
  PROVE  HonestInv'
  <1>0. PICK f \in DOMAIN families : f = req[r].familyId
    BY DEF ReuseDetected, Accepted, Rejected, Respond, Abort, TypeOK
  <1>1. r \in InFlight(f) /\ UNCHANGED <<families, tokens>> /\ Idle.pc = "idle"
    BY <1>0 DEF ReuseDetected, Accepted, Rejected, Respond, Abort, InFlight, Idle
  <1>2. \A g \in DOMAIN families : Live(g)' = Live(g)
    BY <1>1 DEF Live, TokensOf
  <1>3. \E q : /\ Goto(r, q)
               /\ q.pc # "idle" => q.familyId = f
    BY <1>0, <1>1 DEF ReuseDetected, Accepted, Rejected, Respond, Abort
  <1>4. \A g \in DOMAIN families \ {f} : held'[g] = held[g] /\ why'[g] = why[g]
    BY <1>0 DEF ReuseDetected, Accepted, Rejected, Respond, Abort, Because, TypeOK
  <1>5. \A g \in DOMAIN families \ {f} : HonestAt(g)'
    <2> TAKE g \in DOMAIN families \ {f}
    <2>1. PICK q : Goto(r, q) /\ (q.pc # "idle" => q.familyId = f)
      BY <1>3
    <2>2. r \notin InFlight(g)
      BY <1>0 DEF InFlight
    <2> QED BY <1>1, <1>2, <1>4, <2>1, <2>2, HonestElsewhere DEF HonestInv
  <1>6. HonestAt(f) /\ DOMAIN why = DOMAIN families
    BY DEF HonestInv, TypeOK
  <1>7. CASE why[f] # {}
    <2>1. why[f] \subseteq why'[f]
      BY <1>0, <1>6 DEF ReuseDetected, Accepted, Rejected, Respond, Abort, Because
    <2> QED BY <1>1, <1>5, <1>7, <2>1 DEF HonestAt, HonestInv
  <1>8. CASE why[f] = {}
    <2>1. /\ ~ families[f].revoked
          /\ req[r].pc \in {"family", "rotate", "respond"}
          /\ req[r].pc = "family" => ~ req[r].revoked
          /\ req[r].pc \in {"family", "rotate"} => req[r].token = held[f]
          /\ req[r].pc = "respond" => req[r].token \in Live(f)
          /\ InFlight(f) = {r}
      BY <1>1, <1>6, <1>8 DEF HonestAt
    <2>2. req[r].pc # "respond" => held[f] \in Live(f)
      BY <1>6, <1>8, <2>1 DEF HonestAt
    <2>3. CASE ReuseDetected(r)
      BY <2>1, <2>3 DEF ReuseDetected
    <2>4. CASE Accepted(r)
      <3> DEFINE q == [pc |-> "rotate", familyId |-> req[r].familyId, token |-> req[r].token]
      <3>1. q.familyId = f /\ q.pc = "rotate" /\ q.token = held[f] /\ held[f] \in Live(f)
        BY <1>0, <2>1, <2>2, <2>4 DEF Accepted
      <3>2. Goto(r, q) /\ held' = held
        BY <2>4 DEF Accepted
      <3> HIDE DEF q
      <3>3. HonestAt(f)'
        BY <1>1, <1>2, <1>6, <1>8, <3>1, <3>2, HonestMove
      <3> QED BY <1>1, <1>5, <3>3 DEF HonestInv
    <2>5. CASE Rejected(r)
      <3>1. Goto(r, Idle) /\ held' = held /\ held[f] \in Live(f)
        BY <2>2, <2>5 DEF Rejected
      <3>2. HonestAt(f)'
        BY <1>1, <1>2, <1>6, <1>8, <3>1, HonestEnd
      <3> QED BY <1>1, <1>5, <3>2 DEF HonestInv
    <2>6. CASE Respond(r)
      <3>1. Goto(r, Idle) /\ held'[f] \in Live(f)
        BY <1>0, <2>1, <2>6 DEF Respond, TypeOK
      <3>2. HonestAt(f)'
        BY <1>1, <1>2, <1>6, <1>8, <3>1, HonestEnd
      <3> QED BY <1>1, <1>5, <3>2 DEF HonestInv
    <2>7. CASE Abort(r)
      <3>1. CASE req[r].pc = "respond"
        <4>1. why'[f] # {}
          BY <1>0, <1>6, <2>7, <3>1 DEF Abort, Because
        <4> QED BY <1>1, <1>5, <4>1 DEF HonestAt, HonestInv
      <3>2. CASE req[r].pc # "respond"
        <4>1. Goto(r, Idle) /\ held' = held /\ held[f] \in Live(f)
          BY <2>2, <2>7, <3>2 DEF Abort
        <4>2. HonestAt(f)'
          BY <1>1, <1>2, <1>6, <1>8, <4>1, HonestEnd
        <4> QED BY <1>1, <1>5, <4>2 DEF HonestInv
      <3> QED BY <3>1, <3>2
    <2> QED BY <2>3, <2>4, <2>5, <2>6, <2>7
  <1> QED BY <1>7, <1>8

\* Only a request that read a dead token closes a family, and no honest client's does.
LEMMA HonestRevokeReused ==
  ASSUME TypeOK, HonestInv, NEW r \in Requests, RevokeReused(r)
  PROVE  HonestInv'
  <1>0. PICK f \in DOMAIN families : f = req[r].familyId
    BY DEF RevokeReused, TypeOK
  <1>1. /\ RevokeFamily(f) /\ Goto(r, Idle) /\ UNCHANGED <<held, why>>
        /\ req[r].pc = "reuse" /\ r \in InFlight(f) /\ Idle.pc = "idle"
    BY <1>0 DEF RevokeReused, InFlight, Idle
  <1>2. why[f] # {}
    BY <1>1 DEF HonestInv, HonestAt
  <1>3. DOMAIN families' = DOMAIN families
    BY <1>1, RevokeEffect
  <1>4. HonestAt(f)'
    BY <1>1, <1>2 DEF HonestAt
  <1>5. ASSUME NEW g \in DOMAIN families \ {f} PROVE HonestAt(g)'
    <2>1. r \notin InFlight(g)
      BY <1>0 DEF InFlight
    <2>2. families'[g] = families[g] /\ Live(g)' = Live(g)
      BY <1>1, HonestRevoke
    <2> QED BY <1>1, <2>1, <2>2, HonestElsewhere DEF HonestInv
  <1> QED BY <1>3, <1>4, <1>5 DEF HonestInv

\* A logout is a reason on record.
LEMMA HonestLogout ==
  ASSUME TypeOK, HonestInv, NEW x \in TokenIds, Logout(x)
  PROVE  HonestInv'
  <1>0. PICK f \in DOMAIN families : f = tokens[x].familyId
    BY DEF Logout, TypeOK
  <1>1. /\ RevokeFamily(f) /\ UNCHANGED <<held, req>>
        /\ why' = [why EXCEPT ![f] = @ \cup {"logout"}]
    BY <1>0 DEF Logout, Because
  <1>2. /\ why'[f] # {}
        /\ \A g \in DOMAIN families \ {f} : why'[g] = why[g]
    BY <1>1 DEF TypeOK
  <1>3. DOMAIN families' = DOMAIN families
    BY <1>1, RevokeEffect
  <1>4. HonestAt(f)'
    BY <1>2 DEF HonestAt
  <1>5. ASSUME NEW g \in DOMAIN families \ {f} PROVE HonestAt(g)'
    <2>1. InFlight(g)' = InFlight(g)
      BY <1>1 DEF InFlight
    <2>2. families'[g] = families[g] /\ Live(g)' = Live(g)
      BY <1>1, HonestRevoke
    <2> QED BY <1>1, <1>2, <2>1, <2>2, HonestFrame DEF HonestInv
  <1> QED BY <1>3, <1>4, <1>5 DEF HonestInv

\* Every step keeps the invariant.
LEMMA HonestNext == TypeOK /\ HonestInv /\ [Next]_vars => HonestInv'
  <1> SUFFICES ASSUME TypeOK, HonestInv, [Next]_vars PROVE HonestInv'
    OBVIOUS
  <1>1. CASE Tick \/ UNCHANGED vars
    <2>1. UNCHANGED <<families, tokens, req, held, why>>
      BY <1>1 DEF Tick, vars
    <2> QED BY <2>1 DEF HonestInv, HonestAt, InFlight, Live, TokensOf
  <1>2. ASSUME NEW r \in Requests, Refresh(r) PROVE HonestInv'
    BY <1>2, HonestRead, HonestRotate, HonestQuiet, HonestRevokeReused DEF Refresh
  <1> QED BY <1>1, <1>2, HonestLogin, HonestLogout DEF Next

\* Whoever refreshes one at a time, always with the token last received, and loses no
\* answer keeps the session.
THEOREM HonestSessionLives == Spec => []HonestSession
  <1>1. HonestInv => HonestSession
    BY DEF HonestInv, HonestAt, HonestSession
  <1> QED BY <1>1, HonestInit, HonestNext, SessionTypes, PTL DEF Spec

(***************************************************************************)
(* The lost answer.  That it leaves a dead token in the client's hands has *)
(* to be known while the answer is on its way, which is a session that is  *)
(* honest still: HonestInv says that no other request is in flight then.   *)
(***************************************************************************)
LostAt(f) ==
  /\ why[f] = {} =>
       \A r \in InFlight(f) : req[r].pc = "respond" => tokens[held[f]].revoked
  /\ why[f] = {"lost"} =>
       /\ tokens[held[f]].revoked
       /\ \A r \in InFlight(f) : /\ req[r].pc \in {"family", "reuse"}
                                 /\ req[r].pc = "family" => req[r].revoked

LostInv == \A f \in DOMAIN families : LostAt(f)

\* A token once dead stays dead, whatever happens to the tables.
LEMMA DeadStaysDead ==
  ASSUME TypeOK, [Next]_vars, NEW x \in DOMAIN tokens, tokens[x].revoked
  PROVE  tokens'[x].revoked
  <1>1. tokens[x] \in Token
    BY DEF TypeOK
  <1>2. ASSUME NEW u \in Users, Login(u) PROVE tokens'[x].revoked
    BY <1>2, LoginEffect
  <1>3. ASSUME NEW f \in DOMAIN families, RevokeFamily(f) PROVE tokens'[x].revoked
    <2>1. /\ tokens[x].familyId # f => tokens'[x] = tokens[x]
          /\ tokens[x].familyId = f => tokens'[x] = [tokens[x] EXCEPT !.revoked = TRUE]
      BY <1>3, RevokeEffect
    <2> QED BY <1>1, <2>1 DEF Token
  <1>4. ASSUME NEW y \in DOMAIN tokens, NEW z \in TokenIds \ DOMAIN tokens, Replace(y, z)
        PROVE  tokens'[x].revoked
    <2>1. /\ \A t \in DOMAIN tokens \ {y} : tokens'[t] = tokens[t]
          /\ tokens'[y] = [tokens[y] EXCEPT !.revoked = TRUE, !.replacedById = z]
      BY <1>4, ReplaceEffect
    <2> QED BY <1>1, <2>1 DEF Token
  <1> QED BY <1>2, <1>3, <1>4, TablesStep

\* A step that neither moves a request of the family nor changes what the client holds.
LEMMA LostFrame ==
  ASSUME TypeOK, [Next]_vars, NEW f \in DOMAIN families, LostAt(f),
         held'[f] = held[f], why'[f] = why[f],
         InFlight(f)' \subseteq InFlight(f), \A r \in InFlight(f)' : req'[r] = req[r]
  PROVE  LostAt(f)'
  <1>1. held[f] \in DOMAIN tokens
    BY DEF TypeOK
  <1>2. tokens[held[f]].revoked => tokens'[held[f]].revoked
    BY <1>1, DeadStaysDead
  <1> QED BY <1>2 DEF LostAt

\* A request moves: the families it is not about keep what they had.
LEMMA LostElsewhere ==
  ASSUME TypeOK, LostInv, [Next]_vars, NEW f \in DOMAIN families, NEW r \in Requests, NEW q,
         Goto(r, q), req[r].pc # "idle" => req[r].familyId = f,
         q.pc # "idle" => q.familyId = f,
         NEW g \in DOMAIN families \ {f}, held'[g] = held[g], why'[g] = why[g]
  PROVE  LostAt(g)'
  <1>1. req' = [req EXCEPT ![r] = q] /\ req \in [Requests -> Request]
    BY DEF Goto, TypeOK
  <1>2. InFlight(g)' \subseteq InFlight(g) /\ \A p \in InFlight(g)' : req'[p] = req[p]
    BY <1>1 DEF InFlight
  <1> QED BY <1>2, LostFrame DEF LostInv

\* A request of the family ends, and nothing else changes for it.
LEMMA LostEnd ==
  ASSUME TypeOK, [Next]_vars, NEW f \in DOMAIN families, LostAt(f), NEW r \in Requests,
         Goto(r, Idle), held'[f] = held[f], why'[f] = why[f]
  PROVE  LostAt(f)'
  <1>1. req' = [req EXCEPT ![r] = Idle] /\ req \in [Requests -> Request]
    BY DEF Goto, TypeOK
  <1>2. InFlight(f)' \subseteq InFlight(f) /\ \A p \in InFlight(f)' : req'[p] = req[p]
    BY <1>1 DEF InFlight, Idle
  <1> QED BY <1>2, LostFrame

\* A login starts with no answer lost.
LEMMA LostLogin ==
  ASSUME TypeOK, LostInv, [Next]_vars, NEW u \in Users, Login(u)
  PROVE  LostInv'
  <1>1. PICK f \in FamilyIds \ DOMAIN families, x \in TokenIds \ DOMAIN tokens :
           /\ DOMAIN families' = DOMAIN families \cup {f}
           /\ \A g \in DOMAIN families : held'[g] = held[g] /\ why'[g] = why[g]
           /\ why'[f] = {}
    BY LoginEffect
  <1>2. req' = req
    BY DEF Login
  <1>3. \A g : InFlight(g)' = InFlight(g)
    BY <1>2 DEF InFlight
  <1>4. ASSUME NEW g \in DOMAIN families PROVE LostAt(g)'
    BY <1>1, <1>2, <1>3, <1>4, LostFrame DEF LostInv
  <1>5. InFlight(f) = {}
    <2> SUFFICES ASSUME NEW r \in Requests, req[r].pc # "idle", req[r].familyId = f
                 PROVE  FALSE
      BY DEF InFlight
    <2> QED BY <1>1 DEF TypeOK
  <1>6. LostAt(f)'
    BY <1>1, <1>3, <1>5 DEF LostAt
  <1> QED BY <1>1, <1>4, <1>6 DEF LostInv

\* The client that lost an answer presents a dead token, and is read as such.
LEMMA LostRead ==
  ASSUME TypeOK, LostInv, [Next]_vars, NEW r \in Requests, NEW x \in TokenIds, ReadToken(r, x)
  PROVE  LostInv'
  <1>0. PICK f \in DOMAIN families : f = tokens[x].familyId
    BY DEF ReadToken, TypeOK
  <1> DEFINE q == [pc |-> "family", familyId |-> f, token |-> x,
                   revoked |-> tokens[x].revoked]
  <1>1. /\ Goto(r, q)
        /\ req' = [req EXCEPT ![r] = q] /\ req \in [Requests -> Request]
        /\ UNCHANGED <<families, tokens, held>>
        /\ req[r].pc = "idle"
    BY <1>0 DEF ReadToken, Goto, TypeOK
  <1>2. /\ \A g \in DOMAIN families \ {f} : why'[g] = why[g]
        /\ why'[f] = why[f] \cup (IF x = held[f] THEN {} ELSE {"older"})
                       \cup (IF InFlight(f) = {} THEN {} ELSE {"overlap"})
    BY <1>0 DEF ReadToken, Because, TypeOK
  <1>3. q.pc = "family" /\ q.familyId = f /\ q.revoked = tokens[x].revoked
    OBVIOUS
  <1> HIDE DEF q
  <1>4. \A g \in DOMAIN families \ {f} : LostAt(g)'
    BY <1>1, <1>2, <1>3, LostElsewhere
  <1>5. ASSUME why'[f] = {} \/ why'[f] = {"lost"}
        PROVE  why[f] = why'[f] /\ x = held[f] /\ InFlight(f)' = {r} /\ req'[r] = q
    <2>1. "older" \notin why'[f] /\ "overlap" \notin why'[f]
      BY <1>5
    <2>2. x = held[f] /\ InFlight(f) = {}
      BY <1>2, <2>1
    <2> QED BY <1>1, <1>2, <1>3, <2>2 DEF InFlight
  <1>6. LostAt(f)'
    BY <1>1, <1>3, <1>5 DEF LostAt, LostInv
  <1> QED BY <1>1, <1>4, <1>6 DEF LostInv

\* The rotation leaves the token that an honest client holds dead, before the answer
\* is sent; a client that lost an answer rotates no more.
LEMMA LostRotate ==
  ASSUME TypeOK, HonestInv, LostInv, [Next]_vars, NEW r \in Requests, Rotate(r)
  PROVE  LostInv'
  <1>0. PICK f \in DOMAIN families, x \in DOMAIN tokens :
          f = req[r].familyId /\ x = req[r].token /\ tokens[x].familyId = f
    BY DEF Rotate, TypeOK
  <1>1. PICK y \in TokenIds \ DOMAIN tokens :
          /\ Replace(x, y)
          /\ Goto(r, [pc |-> "respond", familyId |-> f, token |-> y])
    BY <1>0 DEF Rotate
  <1> DEFINE q == [pc |-> "respond", familyId |-> f, token |-> y]
  <1>2. /\ UNCHANGED <<families, held, why>>
        /\ r \in InFlight(f) /\ req[r].pc = "rotate"
        /\ q.familyId = f
        /\ Goto(r, q)
    BY <1>0, <1>1 DEF Rotate, InFlight
  <1> HIDE DEF q
  <1>3. \A g \in DOMAIN families \ {f} : LostAt(g)'
    BY <1>0, <1>2, LostElsewhere
  <1>4. why[f] # {"lost"}
    BY <1>2 DEF LostInv, LostAt
  <1>5. ASSUME why[f] = {} PROVE tokens'[held[f]].revoked
    <2>1. x = held[f]
      BY <1>0, <1>2, <1>5 DEF HonestInv, HonestAt
    <2>2. tokens[x] \in Token /\ tokens'[x] = [tokens[x] EXCEPT !.revoked = TRUE, !.replacedById = y]
      BY <1>1, ReplaceEffect DEF TypeOK
    <2> QED BY <2>1, <2>2 DEF Token
  <1>6. LostAt(f)'
    BY <1>2, <1>4, <1>5 DEF LostAt
  <1> QED BY <1>2, <1>3, <1>6 DEF LostInv

\* The steps of a refresh that do not touch the tokens.  The answer that is lost is the
\* only one in flight.
LEMMA LostQuiet ==
  ASSUME TypeOK, HonestInv, LostInv, [Next]_vars, NEW r \in Requests,
         ReuseDetected(r) \/ Accepted(r) \/ Rejected(r) \/ Respond(r) \/ Abort(r)
  PROVE  LostInv'
  <1>0. PICK f \in DOMAIN families : f = req[r].familyId
    BY DEF ReuseDetected, Accepted, Rejected, Respond, Abort, TypeOK
  <1>1. r \in InFlight(f) /\ UNCHANGED <<families, tokens>> /\ Idle.pc = "idle"
    BY <1>0 DEF ReuseDetected, Accepted, Rejected, Respond, Abort, InFlight, Idle
  <1>2. PICK q : Goto(r, q) /\ (q.pc # "idle" => q.familyId = f)
    BY <1>0, <1>1 DEF ReuseDetected, Accepted, Rejected, Respond, Abort
  <1>3. /\ \A g \in DOMAIN families \ {f} : held'[g] = held[g] /\ why'[g] = why[g]
        /\ req \in [Requests -> Request] /\ DOMAIN why = DOMAIN families
    BY <1>0 DEF ReuseDetected, Accepted, Rejected, Respond, Abort, Because, TypeOK
  <1>4. \A g \in DOMAIN families \ {f} : LostAt(g)'
    BY <1>0, <1>2, <1>3, LostElsewhere
  <1>5. LostAt(f)
    BY DEF LostInv
  <1>6. LostAt(f)'
    <2>1. CASE ReuseDetected(r)
      <3>1. /\ req' = [req EXCEPT ![r] = [pc |-> "reuse", familyId |-> f, token |-> req[r].token]]
            /\ req[r].pc = "family" /\ UNCHANGED <<held, why>>
        BY <1>0, <2>1 DEF ReuseDetected, Goto
      <3>2. InFlight(f)' = InFlight(f) /\ req'[r].pc = "reuse"
            /\ \A p \in InFlight(f) \ {r} : req'[p] = req[p]
        BY <1>1, <1>3, <3>1 DEF InFlight
      <3> QED BY <1>1, <1>5, <3>1, <3>2 DEF LostAt
    <2>2. CASE Accepted(r)
      <3>1. /\ req' = [req EXCEPT ![r] = [pc |-> "rotate", familyId |-> f, token |-> req[r].token]]
            /\ req[r].pc = "family" /\ ~ req[r].revoked /\ UNCHANGED <<held, why>>
        BY <1>0, <2>2 DEF Accepted, MayRotate, Goto
      <3>2. InFlight(f)' = InFlight(f) /\ req'[r].pc = "rotate"
            /\ \A p \in InFlight(f) \ {r} : req'[p] = req[p]
        BY <1>1, <1>3, <3>1 DEF InFlight
      <3>3. why[f] # {"lost"}
        BY <1>1, <1>5, <3>1 DEF LostAt
      <3> QED BY <1>1, <1>5, <3>1, <3>2, <3>3 DEF LostAt
    <2>3. CASE Rejected(r)
      BY <1>5, <2>3, LostEnd DEF Rejected
    <2>4. CASE Respond(r)
      <3>1. why[f] # {"lost"} /\ why' = why /\ Goto(r, Idle) /\ req[r].pc = "respond"
        BY <1>1, <1>5, <2>4 DEF LostAt, Respond
      <3>2. ASSUME why[f] = {} PROVE InFlight(f)' = {}
        <4>1. InFlight(f) = {r}
          BY <1>1, <3>2 DEF HonestInv, HonestAt
        <4> QED BY <1>1, <1>3, <3>1, <4>1 DEF InFlight, Goto
      <3> QED BY <3>1, <3>2 DEF LostAt
    <2>5. CASE Abort(r)
      <3>1. CASE req[r].pc # "respond"
        <4>1. why'[f] = why[f] /\ held' = held /\ Goto(r, Idle)
          BY <1>0, <1>3, <2>5, <3>1 DEF Abort, Because
        <4> QED BY <1>5, <4>1, LostEnd
      <3>2. CASE req[r].pc = "respond"
        <4>1. /\ why'[f] = why[f] \cup {"lost"} /\ held' = held
              /\ req' = [req EXCEPT ![r] = Idle]
          BY <1>0, <1>3, <2>5, <3>2 DEF Abort, Because, Goto
        <4>2. why[f] # {"lost"}
          BY <1>1, <1>5, <3>2 DEF LostAt
        <4>3. ASSUME why[f] = {} PROVE LostAt(f)'
          <5>1. InFlight(f) = {r} /\ tokens[held[f]].revoked
            BY <1>1, <1>5, <3>2, <4>3 DEF HonestInv, HonestAt, LostAt
          <5>2. InFlight(f)' = {}
            BY <1>1, <1>3, <4>1, <5>1 DEF InFlight
          <5> QED BY <1>1, <4>1, <4>3, <5>1, <5>2 DEF LostAt
        <4>4. why[f] # {} => why'[f] # {"lost"} /\ why'[f] # {}
          BY <4>1, <4>2
        <4> QED BY <4>3, <4>4 DEF LostAt
      <3> QED BY <3>1, <3>2
    <2> QED BY <2>1, <2>2, <2>3, <2>4, <2>5
  <1> QED BY <1>1, <1>4, <1>6 DEF LostInv

\* Closing a family revives no token.
LEMMA LostRevokeReused ==
  ASSUME TypeOK, LostInv, [Next]_vars, NEW r \in Requests, RevokeReused(r)
  PROVE  LostInv'
  <1>0. PICK f \in DOMAIN families : f = req[r].familyId
    BY DEF RevokeReused, TypeOK
  <1>1. RevokeFamily(f) /\ Goto(r, Idle) /\ UNCHANGED <<held, why>> /\ Idle.pc = "idle"
    BY <1>0 DEF RevokeReused, Idle
  <1>2. DOMAIN families' = DOMAIN families
    BY <1>1, RevokeEffect
  <1>3. LostAt(f)'
    BY <1>1, LostEnd DEF LostInv
  <1>4. \A g \in DOMAIN families \ {f} : LostAt(g)'
    BY <1>0, <1>1, LostElsewhere
  <1> QED BY <1>2, <1>3, <1>4 DEF LostInv

\* A logout is another reason on record.
LEMMA LostLogout ==
  ASSUME TypeOK, LostInv, [Next]_vars, NEW x \in TokenIds, Logout(x)
  PROVE  LostInv'
  <1>0. PICK f \in DOMAIN families : f = tokens[x].familyId
    BY DEF Logout, TypeOK
  <1>1. /\ RevokeFamily(f) /\ UNCHANGED <<held, req>>
        /\ why' = [why EXCEPT ![f] = @ \cup {"logout"}]
    BY <1>0 DEF Logout, Because
  <1>2. /\ why'[f] # {} /\ why'[f] # {"lost"}
        /\ \A g \in DOMAIN families \ {f} : why'[g] = why[g]
    <2>1. /\ why'[f] = why[f] \cup {"logout"}
          /\ \A g \in DOMAIN families \ {f} : why'[g] = why[g]
      BY <1>1 DEF TypeOK
    <2>2. "logout" # "lost"
      OBVIOUS
    <2>3. "logout" \in why'[f]
      BY <2>1
    <2> QED BY <2>1, <2>2, <2>3
  <1>3. DOMAIN families' = DOMAIN families
    BY <1>1, RevokeEffect
  <1>4. LostAt(f)'
    BY <1>2 DEF LostAt
  <1>5. ASSUME NEW g \in DOMAIN families \ {f} PROVE LostAt(g)'
    <2>1. InFlight(g)' \subseteq InFlight(g) /\ \A r \in InFlight(g)' : req'[r] = req[r]
      BY <1>1 DEF InFlight
    <2> QED BY <1>1, <1>2, <2>1, LostFrame DEF LostInv
  <1> QED BY <1>3, <1>4, <1>5 DEF LostInv

\* Every step keeps the invariant.
LEMMA LostNext == TypeOK /\ HonestInv /\ LostInv /\ [Next]_vars => LostInv'
  <1> SUFFICES ASSUME TypeOK, HonestInv, LostInv, [Next]_vars PROVE LostInv'
    OBVIOUS
  <1>1. CASE Tick \/ UNCHANGED vars
    <2>1. UNCHANGED <<families, tokens, req, held, why>>
      BY <1>1 DEF Tick, vars
    <2> QED BY <2>1 DEF LostInv, LostAt, InFlight
  <1>2. ASSUME NEW r \in Requests, Refresh(r) PROVE LostInv'
    BY <1>2, LostRead, LostRotate, LostQuiet, LostRevokeReused DEF Refresh
  <1> QED BY <1>1, <1>2, LostLogin, LostLogout DEF Next

\* A client that lost an answer holds a dead token from then on, and none of its
\* refreshes is accepted.
THEOREM LostAnswerCostsSession == Spec => []LostAnswerFatal
  <1>1. Init => LostInv
    <2> SUFFICES ASSUME Init PROVE LostInv
      OBVIOUS
    <2>1. DOMAIN families = {}
      BY DEF Init, EmptyTable
    <2> QED BY <2>1 DEF LostInv
  <1>2. LostInv => LostAnswerFatal
    BY DEF LostInv, LostAt, LostAnswerFatal
  <1> QED BY <1>1, <1>2, LostNext, HonestInit, HonestNext, SessionTypes, PTL DEF Spec

(***************************************************************************)
(* Closed sessions.                                                        *)
(***************************************************************************)
\* A closed session stays closed, and no refresh that reads its family from then on
\* goes on to rotate.
THEOREM ClosedForGood == Spec => ClosedStaysClosed
  <1> DEFINE A == \A f \in DOMAIN families : families[f].revoked =>
                    /\ families'[f].revoked
                    /\ \A r \in Requests :
                         (req'[r].pc = "rotate" /\ req'[r].familyId = f) => req'[r] = req[r]
  <1>1. TypeOK /\ [Next]_vars => [A]_vars
    <2> SUFFICES ASSUME TypeOK, [Next]_vars, NEW f \in DOMAIN families, families[f].revoked
                 PROVE  /\ families'[f].revoked
                        /\ \A r \in Requests :
                             (req'[r].pc = "rotate" /\ req'[r].familyId = f)
                               => req'[r] = req[r]
      OBVIOUS
    <2>1. families'[f].revoked
      <3>1. CASE UNCHANGED families
        BY <3>1
      <3>2. CASE \E u \in Users : Login(u)
        BY <3>2, LoginEffect
      <3>3. CASE \E g \in DOMAIN families : RevokeFamily(g)
        <4>1. PICK g \in DOMAIN families : RevokeFamily(g)
          BY <3>3
        <4>2. /\ \A h \in DOMAIN families \ {g} : families'[h] = families[h]
              /\ families'[g] = [families[g] EXCEPT !.revoked = TRUE]
          BY <4>1, RevokeEffect
        <4>3. families[g] \in Family
          BY DEF TypeOK
        <4>4. families'[g].revoked
          BY <4>2, <4>3 DEF Family
        <4> QED BY <4>2, <4>4
      <3> QED BY <3>1, <3>2, <3>3, TablesStep
    <2>2. ASSUME NEW r \in Requests, req'[r].pc = "rotate", req'[r].familyId = f
          PROVE  req'[r] = req[r]
      <3>1. CASE UNCHANGED req
        BY <3>1
      <3>2. ASSUME NEW p \in Requests, Refresh(p)
            PROVE  req'[r] = req[r]
        <4>1. \E q : /\ Goto(p, q)
                     /\ q.pc = "rotate" => ~ families[q.familyId].revoked
          <5>1. Idle.pc # "rotate"
            BY DEF Idle
          <5>2. CASE Accepted(p)
            BY <5>2 DEF Accepted, MayRotate
          <5>3. CASE \E x \in TokenIds : ReadToken(p, x)
            BY <5>3 DEF ReadToken
          <5>4. CASE ReuseDetected(p)
            BY <5>4 DEF ReuseDetected
          <5>5. CASE Rotate(p)
            BY <5>5 DEF Rotate
          <5>6. CASE Rejected(p) \/ RevokeReused(p) \/ Respond(p) \/ Abort(p)
            BY <5>1, <5>6 DEF Rejected, RevokeReused, Respond, Abort
          <5> QED BY <3>2, <5>2, <5>3, <5>4, <5>5, <5>6 DEF Refresh
        <4>2. PICK q : Goto(p, q) /\ (q.pc = "rotate" => ~ families[q.familyId].revoked)
          BY <4>1
        <4> QED BY <2>2, <4>2 DEF Goto, TypeOK
      <3> QED BY <3>1, <3>2 DEF Next, Login, Logout, Tick, vars
    <2> QED BY <2>1, <2>2
  <1> QED BY <1>1, SessionTypes, PTL DEF Spec, ClosedStaysClosed

(***************************************************************************)
(* The audit log of sessions.  What counts rows is about finite sets: a    *)
(* login adds one family.                                                  *)
(***************************************************************************)
Opened(u) == {f \in DOMAIN families : families[f].userId = u}

LoggedOut(u) == {f \in Opened(u) : "logout" \in why[f]}

AuditInv == IsFiniteSet(DOMAIN families) /\ SessionsAudited

\* Both sets are finite.
LEMMA OpenedFinite ==
  ASSUME IsFiniteSet(DOMAIN families), NEW u
  PROVE  /\ IsFiniteSet(Opened(u)) /\ Cardinality(Opened(u)) \in Nat
         /\ IsFiniteSet(LoggedOut(u)) /\ Cardinality(LoggedOut(u)) \in Nat
  <1>1. Opened(u) \in SUBSET DOMAIN families /\ LoggedOut(u) \in SUBSET DOMAIN families
    BY DEF Opened, LoggedOut
  <1>2. IsFiniteSet(Opened(u)) /\ IsFiniteSet(LoggedOut(u))
    BY <1>1, FS_Subset
  <1> QED BY <1>2, FS_CardinalityType

\* A login opens one session of its user and logs it.
LEMMA LoginAudited ==
  ASSUME TypeOK, AuditInv, NEW u \in Users, Login(u)
  PROVE  AuditInv'
  <1>1. PICK f \in FamilyIds \ DOMAIN families :
          /\ DOMAIN families' = DOMAIN families \cup {f}
          /\ \A g \in DOMAIN families : families'[g] = families[g]
          /\ families'[f] = [userId |-> u, revoked |-> FALSE]
          /\ \A g \in DOMAIN families : why'[g] = why[g]
          /\ why'[f] = {}
    BY LoginEffect
  <1>2. audit' = [audit EXCEPT ![u].login = @ + 1]
    BY DEF Login
  <1>3. audit \in [Users -> [login : Nat, logout : Nat]]
    BY DEF TypeOK
  <1>4. IsFiniteSet(DOMAIN families')
    BY <1>1, FS_AddElement DEF AuditInv
  <1>5. ASSUME NEW v \in Users
        PROVE  /\ audit'[v].login = Cardinality(Opened(v)')
               /\ Cardinality(LoggedOut(v)') <= audit'[v].logout
    <2>1. /\ audit[v].login = Cardinality(Opened(v))
          /\ Cardinality(LoggedOut(v)) <= audit[v].logout
      BY DEF AuditInv, SessionsAudited, Opened, LoggedOut
    <2>2. /\ IsFiniteSet(Opened(v)) /\ f \notin Opened(v)
          /\ LoggedOut(v)' = LoggedOut(v)
      BY <1>1, OpenedFinite DEF AuditInv, Opened, LoggedOut
    <2>3. CASE v = u
      <3>1. Opened(v)' = Opened(v) \cup {f}
        BY <1>1, <2>3 DEF Opened
      <3>2. Cardinality(Opened(v)') = Cardinality(Opened(v)) + 1
        BY <2>2, <3>1, FS_AddElement
      <3>3. audit'[v].login = audit[v].login + 1 /\ audit'[v].logout = audit[v].logout
        BY <1>2, <1>3, <2>3
      <3> QED BY <2>1, <2>2, <3>2, <3>3
    <2>4. CASE v # u
      <3>1. Opened(v)' = Opened(v)
        BY <1>1, <2>4 DEF Opened
      <3>2. audit'[v] = audit[v]
        BY <1>2, <1>3, <2>4
      <3> QED BY <2>1, <2>2, <3>1, <3>2
    <2> QED BY <2>3, <2>4
  <1> QED BY <1>4, <1>5 DEF AuditInv, SessionsAudited, Opened, LoggedOut

\* A logout closes at most one session that no logout closed before, and logs it.
LEMMA LogoutAudited ==
  ASSUME TypeOK, AuditInv, NEW x \in TokenIds, Logout(x)
  PROVE  AuditInv'
  <1> DEFINE f == tokens[x].familyId
             u == families[f].userId
  <1>1. /\ f \in DOMAIN families /\ u \in Users
        /\ RevokeFamily(f)
        /\ audit' = [audit EXCEPT ![u].logout = @ + 1]
        /\ why' = [why EXCEPT ![f] = @ \cup {"logout"}]
    BY DEF Logout, Because, TypeOK, Family
  <1>2. /\ audit \in [Users -> [login : Nat, logout : Nat]]
        /\ why \in [DOMAIN families -> SUBSET Causes]
        /\ families \in [DOMAIN families -> Family]
    BY DEF TypeOK
  <1> HIDE DEF f, u
  <1>3. /\ DOMAIN families' = DOMAIN families
        /\ \A g \in DOMAIN families : families'[g].userId = families[g].userId
    <2>1. /\ DOMAIN families' = DOMAIN families
          /\ \A g \in DOMAIN families \ {f} : families'[g] = families[g]
          /\ families'[f] = [families[f] EXCEPT !.revoked = TRUE]
      BY <1>1, RevokeEffect
    <2>2. families'[f].userId = families[f].userId
      BY <1>1, <1>2, <2>1 DEF Family
    <2> QED BY <2>1, <2>2
  <1>4. ASSUME NEW v \in Users
        PROVE  /\ audit'[v].login = Cardinality(Opened(v)')
               /\ Cardinality(LoggedOut(v)') <= audit'[v].logout
    <2>1. /\ audit[v].login = Cardinality(Opened(v))
          /\ Cardinality(LoggedOut(v)) <= audit[v].logout
      BY DEF AuditInv, SessionsAudited, Opened, LoggedOut
    <2>2. Opened(v)' = Opened(v)
      BY <1>3 DEF Opened
    <2>3. IsFiniteSet(LoggedOut(v)) /\ Cardinality(LoggedOut(v)) \in Nat
      BY OpenedFinite DEF AuditInv
    <2>4. CASE v = u
      <3>1. LoggedOut(v)' = LoggedOut(v) \cup {f}
        BY <1>1, <1>2, <1>3, <2>2, <2>4 DEF LoggedOut, Opened, u
      <3>2. Cardinality(LoggedOut(v)') \in {Cardinality(LoggedOut(v)), Cardinality(LoggedOut(v)) + 1}
        <4> DEFINE L == LoggedOut(v)
        <4>1. Cardinality(L \cup {f}) = IF f \in L THEN Cardinality(L) ELSE Cardinality(L) + 1
          BY <2>3, FS_AddElement
        <4> QED BY <3>1, <4>1
      <3>3. /\ audit'[v].login = audit[v].login
            /\ audit'[v].logout = audit[v].logout + 1 /\ audit[v].logout \in Nat
        BY <1>1, <1>2, <2>4
      <3> QED BY <2>1, <2>2, <2>3, <3>2, <3>3
    <2>5. CASE v # u
      <3>1. LoggedOut(v)' = LoggedOut(v)
        BY <1>1, <1>2, <1>3, <2>2, <2>5 DEF LoggedOut, Opened, u
      <3>2. audit'[v] = audit[v]
        BY <1>1, <1>2, <2>5
      <3> QED BY <2>1, <2>2, <3>1, <3>2
    <2> QED BY <2>4, <2>5
  <1>5. IsFiniteSet(DOMAIN families')
    BY <1>3 DEF AuditInv
  <1> QED BY <1>4, <1>5 DEF AuditInv, SessionsAudited, Opened, LoggedOut

\* Every other step leaves the log and the sessions it is about alone.
LEMMA QuietAudited ==
  ASSUME AuditInv, audit' = audit,
         DOMAIN families' = DOMAIN families,
         \A f \in DOMAIN families : families'[f].userId = families[f].userId,
         \A f \in DOMAIN families : "logout" \in why'[f] <=> "logout" \in why[f]
  PROVE  AuditInv'
  <1>1. \A u : Opened(u)' = Opened(u) /\ LoggedOut(u)' = LoggedOut(u)
    BY DEF Opened, LoggedOut
  <1> QED BY <1>1 DEF AuditInv, SessionsAudited, Opened, LoggedOut

LEMMA AuditNext == TypeOK /\ AuditInv /\ [Next]_vars => AuditInv'
  <1> SUFFICES ASSUME TypeOK, AuditInv, [Next]_vars PROVE AuditInv'
    OBVIOUS
  <1>0. families \in [DOMAIN families -> Family] /\ why \in [DOMAIN families -> SUBSET Causes]
    BY DEF TypeOK
  <1>1. ASSUME NEW r \in Requests, Refresh(r)
        PROVE  AuditInv'
    <2>1. audit' = audit
      BY <1>1 DEF Refresh, ReadToken, ReuseDetected, Accepted, Rejected, RevokeReused, Rotate,
                  Respond, Abort
    <2>2. \A f \in DOMAIN families : "logout" \in why'[f] <=> "logout" \in why[f]
      <3>1. CASE why' = why
        BY <3>1
      <3>2. ASSUME NEW x \in TokenIds, ReadToken(r, x)
            PROVE  \A f \in DOMAIN families : "logout" \in why'[f] <=> "logout" \in why[f]
        BY <1>0, <3>2 DEF ReadToken, Because
      <3>3. CASE Abort(r)
        BY <1>0, <3>3 DEF Abort, Because
      <3> QED BY <1>1, <3>1, <3>2, <3>3 DEF Refresh, ReuseDetected, Accepted, Rejected,
                                            RevokeReused, Rotate, Respond
    <2>3. /\ DOMAIN families' = DOMAIN families
          /\ \A f \in DOMAIN families : families'[f].userId = families[f].userId
      <3>1. CASE UNCHANGED families
        BY <3>1
      <3>2. CASE RevokeReused(r)
        <4>1. PICK f \in DOMAIN families : RevokeFamily(f)
          BY <3>2 DEF RevokeReused, TypeOK
        <4>2. /\ DOMAIN families' = DOMAIN families
              /\ \A g \in DOMAIN families \ {f} : families'[g] = families[g]
              /\ families'[f] = [families[f] EXCEPT !.revoked = TRUE]
          BY <4>1, RevokeEffect
        <4>3. families'[f].userId = families[f].userId
          BY <1>0, <4>2 DEF Family
        <4> QED BY <4>2, <4>3
      <3> QED BY <1>1, <3>1, <3>2 DEF Refresh, ReadToken, ReuseDetected, Accepted, Rejected,
                                      Rotate, Respond, Abort
    <2> QED BY <2>1, <2>2, <2>3, QuietAudited
  <1>2. CASE Tick \/ UNCHANGED vars
    BY <1>2, QuietAudited DEF Tick, vars
  <1> QED BY <1>1, <1>2, LoginAudited, LogoutAudited DEF Next

\* Every session that was opened is in the audit log, once, and so is every one that a
\* logout closed, however logins, logouts and refreshes interleave.
THEOREM AllSessionsAudited == Spec => []SessionsAudited
  <1>1. Init => AuditInv
    <2> SUFFICES ASSUME Init PROVE AuditInv
      OBVIOUS
    <2>1. DOMAIN families = {} /\ \A u \in Users : audit[u].login = 0 /\ audit[u].logout = 0
      BY DEF Init, EmptyTable
    <2>2. \A u : Opened(u) = {} /\ LoggedOut(u) = {}
      BY <2>1 DEF Opened, LoggedOut
    <2>3. IsFiniteSet({}) /\ Cardinality({}) = 0
      BY FS_EmptySet
    <2> QED BY <2>1, <2>2, <2>3 DEF AuditInv, SessionsAudited, Opened, LoggedOut
  <1>2. AuditInv => SessionsAudited
    BY DEF AuditInv
  <1> QED BY <1>1, <1>2, AuditNext, SessionTypes, PTL DEF Spec

=============================================================================
