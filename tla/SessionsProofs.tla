--------------------------- MODULE SessionsProofs ---------------------------
(***************************************************************************)
(* Rotating refresh tokens, for any number of requests and handlers: the   *)
(* inductive invariant of Sessions and what follows from it.               *)
(***************************************************************************)
EXTENDS Sessions, FiniteSetTheorems, TLAPS

\* The token a logout names its session by is one that was issued.
LEMMA FirstToken ==
  ASSUME TypeOK, References, NEW s \in sessions
  PROVE  (CHOOSE n \in 1..issued : owner[n] = s /\ parent[n] = 0) \in 1..issued
<1>1. \E n \in 1..issued : owner[n] = s /\ parent[n] = 0
  BY DEF TypeOK, References
<1> QED  BY <1>1

\* A rotation that is about to issue a token has one left to issue.
LEMMA TokenLeft ==
  ASSUME TypeOK, Reserved, NEW h \in Handlers, hpc[h] = "issue"
  PROVE  issued + 1 \in Tokens
<1>1. IsFiniteSet(Asking) /\ IsFiniteSet(Rotating)
  BY FiniteActors, FS_Subset DEF Asking, Rotating
<1>2. Cardinality(Asking) \in Nat /\ Cardinality(Rotating) \in Nat
  BY <1>1, FS_CardinalityType
<1>3. Rotating # {}
  BY DEF Rotating
<1>4. Cardinality(Rotating) # 0
  BY <1>1, <1>3, FS_EmptySet
<1> QED  BY <1>2, <1>4, SessionBounds DEF TypeOK, Reserved, Tokens

\* Whoever starts a request or a session does so while a token is left.
LEMMA RoomLeft ==
  ASSUME TypeOK, Room
  PROVE  issued + 1 \in Tokens
<1>1. Cardinality(Asking) \in Nat /\ Cardinality(Rotating) \in Nat
  BY FiniteActors, FS_Subset, FS_CardinalityType DEF Asking, Rotating
<1> QED  BY <1>1, SessionBounds DEF TypeOK, Room, Tokens

\* TypeOK is preserved by every step.
LEMMA TypeStep ==
  ASSUME TypeOK, References, Reserved, Next
  PROVE  TypeOK'
<1> USE SessionBounds DEF TypeOK, store, server, clock, console, history, Goto, HandlerPCs
<1>1. ASSUME NEW h \in Handlers, load_refresh(h) \/ load_session(h)
      PROVE  TypeOK'
  BY <1>1 DEF load_refresh, load_session
<1>2. ASSUME NEW h \in Handlers, MarkUsed(h) \/ ListUsed(h)
      PROVE  TypeOK'
  <2>1. CASE MarkUsed(h)
    BY <2>1 DEF MarkUsed
  <2>2. CASE ListUsed(h)
    BY <2>2 DEF ListUsed, Session
  <2> QED  BY <1>2, <2>1, <2>2
<1>3. ASSUME NEW h \in Handlers, _issue_refresh(h)
      PROVE  TypeOK'
  <2>1. issued + 1 \in Tokens
    BY <1>3, TokenLeft DEF _issue_refresh
  <2>2. Session(h) \in Ids /\ token[h] \in 0..MaxTokens
    BY DEF Session, Tokens
  <2>3. issued' \in 0..MaxTokens /\ tab' \in 0..issued'
    BY <1>3, <2>1 DEF _issue_refresh, Tokens
  <2> QED  BY <1>3, <2>1, <2>2, <2>3 DEF _issue_refresh
<1>4. ASSUME NEW h \in Handlers, ListNew(h)
      PROVE  TypeOK'
  BY <1>4 DEF ListNew, Session
<1>5. ASSUME NEW h \in Handlers, delete_session(h) \/ Members(h) \/ Unlist(h)
      PROVE  TypeOK'
  <2>1. CASE delete_session(h)
    BY <2>1 DEF delete_session
  <2>2. CASE Members(h)
    BY <2>2 DEF Members, Session
  <2>3. CASE Unlist(h)
    BY <2>3 DEF Unlist, Session
  <2> QED  BY <1>5, <2>1, <2>2, <2>3
<1>6. ASSUME NEW h \in Handlers, Purge(h)
      PROVE  TypeOK'
  <2>1. CASE listed[h] = {}
    BY <1>6, <2>1 DEF Purge
  <2>2. CASE listed[h] # {}
    <3>1. PICK n \in listed[h] : /\ refresh' = [refresh EXCEPT ![n] = "none"]
                                 /\ listed' = [listed EXCEPT ![h] = @ \ {n}]
                                 /\ UNCHANGED hpc
      BY <1>6, <2>2 DEF Purge
    <3> QED  BY <1>6, <3>1 DEF Purge
  <2> QED  BY <2>1, <2>2
<1>7. ASSUME NEW h \in Handlers, Granted(h) \/ Denied(h) \/ Unheard(h)
      PROVE  TypeOK'
  <2>1. 1 \in Tokens
    BY DEF Tokens
  <2>2. tab' \in 0..issued
    <3>1. tab \in 0..issued /\ issued \in Nat
      BY DEF Tokens
    <3>2. CASE Granted(h)
      <4>1. fresh[h] \in Nat /\ fresh[h] <= issued
        BY <3>2 DEF Granted, References, Tokens
      <4> QED  BY <3>1, <3>2, <4>1 DEF Granted
    <3> QED  BY <1>7, <3>1, <3>2 DEF Denied, Unheard
  <2>3. rpc' \in [Requests -> {"idle", "sent", "refused", "waiting", "retry"}]
    BY <1>7 DEF Granted, Denied, Unheard, Release
  <2> QED  BY <1>7, <2>1, <2>2, <2>3 DEF Granted, Denied, Unheard, Finish
<1>8. ASSUME NEW h \in Handlers, NEW s \in Ids, logout(h, s)
      PROVE  TypeOK'
  <2>1. s \in sessions
    BY <1>8 DEF logout
  <2>2. (CHOOSE n \in 1..issued : owner[n] = s /\ parent[n] = 0) \in 1..issued
    BY <2>1, FirstToken
  <2>3. 1..issued \subseteq Tokens
    BY DEF Tokens
  <2> QED  BY <1>8, <2>2, <2>3 DEF logout
<1>9. CASE AccessExpires
  BY <1>9 DEF AccessExpires
<1>10. ASSUME NEW s \in Ids, SessionExpires(s)
       PROVE  TypeOK'
  BY <1>10 DEF SessionExpires
<1>11. CASE Login
  <2>1. issued + 1 \in Tokens /\ started + 1 \in Ids
    BY <1>11, RoomLeft DEF Login, Ids
  <2>2. issued' \in 0..MaxTokens /\ tab' \in 0..issued' /\ started' \in 0..MaxSessions
    BY <1>11, <2>1 DEF Login, Tokens, Ids
  <2>3. sessions' \subseteq 1..started'
    BY <1>11 DEF Login
  <2> QED  BY <1>11, <2>1, <2>2, <2>3 DEF Login
<1>12. ASSUME NEW q \in Requests, Send(q) \/ SignOut(q)
       PROVE  TypeOK'
  <2>1. CASE Send(q)
    BY <2>1 DEF Send
  <2>2. CASE SignOut(q)
    BY <2>2 DEF SignOut
  <2> QED  BY <1>12, <2>1, <2>2
<1>13. ASSUME NEW q \in Requests, Answered(q) \/ NoRefresh(q) \/ Retry(q)
       PROVE  TypeOK'
  <2>1. CASE Answered(q)
    BY <2>1 DEF Answered
  <2>2. CASE NoRefresh(q) \/ Retry(q)
    BY <2>2 DEF NoRefresh, Retry
  <2> QED  BY <1>13, <2>1, <2>2
<1>14. ASSUME NEW q \in Requests, Refresh(q)
       PROVE  TypeOK'
  <2>1. CASE inFlight # NoOne
    BY <1>14, <2>1 DEF Refresh
  <2>2. CASE inFlight = NoOne
    <3>1. tab \in Tokens
      BY <1>14 DEF Refresh, Tokens
    <3> QED  BY <1>14, <2>2, <3>1 DEF Refresh
  <2> QED  BY <2>1, <2>2
<1>15. ASSUME NEW q \in Requests, RetryLogout(q)
       PROVE  TypeOK'
  <2>1. tab \in Tokens
    BY <1>15 DEF RetryLogout, Revokes, Tokens
  <2> QED  BY <1>15, <2>1 DEF RetryLogout
<1>16. CASE LoseAnswer \/ Reload
  <2>1. CASE LoseAnswer
    BY <2>1 DEF LoseAnswer, Release
  <2>2. CASE Reload
    <3>1. lost' \in BOOLEAN
      BY <2>2 DEF Reload
    <3> QED  BY <2>2, <3>1 DEF Reload
  <2> QED  BY <1>16, <2>1, <2>2
<1>17. ASSUME NEW h \in Handlers, NEW n \in Tokens, Present(h, n)
       PROVE  TypeOK'
  BY <1>17 DEF Present
<1> QED
  BY <1>1, <1>2, <1>3, <1>4, <1>5, <1>6, <1>7, <1>8, <1>9, <1>10, <1>11, <1>12, <1>13,
     <1>14, <1>15, <1>16, <1>17 DEF Next, HandlerStep, RequestStep

-----------------------------------------------------------------------------
\* A token stays reserved for everyone who may still be given one.
LEMMA ReservedStep ==
  ASSUME TypeOK, Reserved, Next
  PROVE  Reserved'
<1> USE DEF Reserved
<1>1. IsFiniteSet(Asking) /\ IsFiniteSet(Rotating)
  BY FiniteActors, FS_Subset DEF Asking, Rotating
<1>2. Cardinality(Asking) \in Nat /\ Cardinality(Rotating) \in Nat /\ issued \in Nat /\ MaxTokens \in Nat
  BY <1>1, FS_CardinalityType, SessionBounds DEF TypeOK
<1>3. CASE issued' = issued /\ Asking' \subseteq Asking /\ Rotating' \subseteq Rotating
  <2>1. /\ Cardinality(Asking') \in Nat /\ Cardinality(Asking') <= Cardinality(Asking)
        /\ Cardinality(Rotating') \in Nat /\ Cardinality(Rotating') <= Cardinality(Rotating)
    BY <1>1, <1>3, FS_Subset, FS_CardinalityType
  <2> QED  BY <1>2, <1>3, <2>1
<1>4. ASSUME NEW q \in Requests, Send(q) \/ SignOut(q)
      PROVE  Reserved'
  <2>1. Room /\ issued' = issued
    BY <1>4 DEF Send, SignOut, store
  <2>2. Asking' \subseteq Asking \cup {q} /\ Rotating' = Rotating
    BY <1>4 DEF Send, SignOut, Asking, Rotating, server, TypeOK
  <2>3. /\ IsFiniteSet(Asking \cup {q})
        /\ Cardinality(Asking \cup {q}) \in {Cardinality(Asking), Cardinality(Asking) + 1}
    BY <1>1, FS_AddElement
  <2>4. Cardinality(Asking') \in Nat /\ Cardinality(Asking') <= Cardinality(Asking \cup {q})
    BY <2>2, <2>3, FS_Subset, FS_CardinalityType
  <2> QED  BY <1>2, <2>1, <2>2, <2>3, <2>4 DEF Room
<1>5. ASSUME NEW q \in Requests, Refresh(q)
      PROVE  Reserved'
  <2>1. issued' = issued /\ q \in Asking /\ Asking' = Asking \ {q}
    BY <1>5 DEF Refresh, Asking, store, TypeOK
  <2>2. Cardinality(Asking') = Cardinality(Asking) - 1
    BY <1>1, <2>1, FS_RemoveElement
  <2>3. PICK h \in Handlers : Rotating' \subseteq Rotating \cup {h}
    <3>1. CASE inFlight # NoOne
      <4>1. inFlight \in Handlers
        BY <3>1 DEF TypeOK
      <4> QED  BY <1>5, <3>1, <4>1 DEF Refresh, Rotating
    <3>2. CASE inFlight = NoOne
      <4>1. PICK h \in Handlers : hpc' = [hpc EXCEPT ![h] = "load"]
        BY <1>5, <3>2 DEF Refresh
      <4>2. Rotating' \subseteq Rotating \cup {h}
        BY <4>1 DEF Rotating, TypeOK
      <4> QED  BY <4>2
    <3> QED  BY <3>1, <3>2
  <2>4. /\ IsFiniteSet(Rotating \cup {h})
        /\ Cardinality(Rotating \cup {h}) \in {Cardinality(Rotating), Cardinality(Rotating) + 1}
    BY <1>1, FS_AddElement
  <2>5. Cardinality(Rotating') \in Nat /\ Cardinality(Rotating') <= Cardinality(Rotating \cup {h})
    BY <2>3, <2>4, FS_Subset, FS_CardinalityType
  <2> QED  BY <1>2, <2>1, <2>2, <2>4, <2>5
<1>6. CASE Login
  <2>1. Room /\ issued' = issued + 1 /\ Asking' = Asking /\ Rotating' = Rotating
    BY <1>6 DEF Login, Asking, Rotating
  <2> QED  BY <1>2, <2>1 DEF Room
<1>7. ASSUME NEW h \in Handlers, _issue_refresh(h)
      PROVE  Reserved'
  <2>1. issued' = issued + 1 /\ Asking' = Asking /\ h \in Rotating /\ Rotating' = Rotating \ {h}
    BY <1>7 DEF _issue_refresh, Goto, Asking, Rotating, console, TypeOK
  <2>2. Cardinality(Rotating') = Cardinality(Rotating) - 1
    BY <1>1, <2>1, FS_RemoveElement
  <2> QED  BY <1>2, <2>1, <2>2
<1>8. ASSUME NEW h \in Handlers, HandlerStep(h), ~_issue_refresh(h)
      PROVE  issued' = issued /\ Asking' \subseteq Asking /\ Rotating' \subseteq Rotating
  <2>1. issued' = issued
    BY <1>8 DEF HandlerStep, load_refresh, load_session, MarkUsed, ListUsed, ListNew,
         delete_session, Members, Purge, Unlist, Granted, Denied, Unheard, store
  <2>2. Asking' \subseteq Asking
    BY <1>8 DEF HandlerStep, load_refresh, load_session, MarkUsed, ListUsed, ListNew,
         delete_session, Members, Purge, Unlist, Granted, Denied, Unheard, Release, console, Asking
  <2>3. Rotating' \subseteq Rotating
    BY <1>8 DEF HandlerStep, load_refresh, load_session, MarkUsed, ListUsed, ListNew,
         delete_session, Members, Purge, Unlist, Granted, Denied, Unheard, Finish, Goto, Rotating, TypeOK
  <2> QED  BY <2>1, <2>2, <2>3
<1>9. ASSUME NEW h \in Handlers, NEW s \in Ids, logout(h, s)
      PROVE  issued' = issued /\ Asking' \subseteq Asking /\ Rotating' \subseteq Rotating
  BY <1>9 DEF logout, store, console, Asking, Rotating, TypeOK
<1>10. ASSUME NEW q \in Requests, Answered(q) \/ NoRefresh(q) \/ Retry(q) \/ RetryLogout(q)
       PROVE  issued' = issued /\ Asking' \subseteq Asking /\ Rotating' \subseteq Rotating
  <2>1. issued' = issued /\ Asking' \subseteq Asking
    BY <1>10 DEF Answered, NoRefresh, Retry, RetryLogout, store, Asking, TypeOK
  <2>2. Rotating' \subseteq Rotating
    BY <1>10 DEF Answered, NoRefresh, Retry, RetryLogout, server, Rotating, TypeOK
  <2> QED  BY <2>1, <2>2
<1>11. CASE AccessExpires \/ (\E s \in Ids : SessionExpires(s)) \/ LoseAnswer \/ Reload
  <2>1. issued' = issued /\ Asking' \subseteq Asking /\ Rotating' \subseteq Rotating
    BY <1>11 DEF AccessExpires, SessionExpires, LoseAnswer, Reload, Release, store, server,
                 console, Asking, Rotating
  <2> QED  BY <1>3, <2>1
<1>12. ASSUME NEW h \in Handlers, NEW n \in Tokens, Present(h, n)
       PROVE  Reserved'
  <2>1. Room /\ issued' = issued /\ Asking' = Asking
    BY <1>12 DEF Present, store, console, Asking
  <2>2. Rotating' \subseteq Rotating \cup {h}
    BY <1>12 DEF Present, Rotating, TypeOK
  <2>3. /\ IsFiniteSet(Rotating \cup {h})
        /\ Cardinality(Rotating \cup {h}) \in {Cardinality(Rotating), Cardinality(Rotating) + 1}
    BY <1>1, FS_AddElement
  <2>4. Cardinality(Rotating') \in Nat /\ Cardinality(Rotating') <= Cardinality(Rotating \cup {h})
    BY <2>2, <2>3, FS_Subset, FS_CardinalityType
  <2> QED  BY <1>2, <2>1, <2>3, <2>4 DEF Room
<1> QED
  BY <1>3, <1>4, <1>5, <1>6, <1>7, <1>8, <1>9, <1>10, <1>11, <1>12 DEF Next, RequestStep
-----------------------------------------------------------------------------
\* Steps that issue no token and start no session leave the tokens as they are.
LEMMA TokensFrame ==
  ASSUME Next, ~Login, \A h \in Handlers : ~_issue_refresh(h)
  PROVE  UNCHANGED <<started, issued, owner, parent>>
<1>1. ASSUME NEW h \in Handlers, HandlerStep(h)
      PROVE  UNCHANGED <<started, issued, owner, parent>>
  BY <1>1 DEF HandlerStep, load_refresh, load_session, MarkUsed, ListUsed, ListNew,
       delete_session, Members, Purge, Unlist, Granted, Denied, Unheard, Finish, store
<1>2. ASSUME NEW q \in Requests, Send(q) \/ RequestStep(q) \/ SignOut(q)
      PROVE  UNCHANGED <<started, issued, owner, parent>>
  BY <1>2 DEF Send, RequestStep, SignOut, Answered, Refresh, NoRefresh, Retry, RetryLogout,
       store, server
<1> QED  BY <1>1, <1>2 DEF Next, logout, Present, AccessExpires, SessionExpires, LoseAnswer, Reload,
              store, server

\* A handler begins with a token that was issued, and goes on with it.
LEMMA HandlerTokens ==
  ASSUME TypeOK, References, Next, ~Login, \A h \in Handlers : ~_issue_refresh(h),
         NEW g \in Handlers
  PROVE  /\ Busy(g)' => token'[g] <= issued
         /\ hpc'[g] \in {"list_new", "granted"} => hpc[g] \in {"list_new", "granted"} /\ fresh'[g] = fresh[g]
<1> USE SessionBounds DEF TypeOK, References, Busy, Goto
<1>1. ASSUME NEW h \in Handlers, Granted(h) \/ Denied(h) \/ Unheard(h)
      PROVE  /\ Busy(g)' => token'[g] <= issued
             /\ hpc'[g] \in {"list_new", "granted"} => hpc[g] \in {"list_new", "granted"} /\ fresh'[g] = fresh[g]
  BY <1>1 DEF Granted, Denied, Unheard, Finish
<1>2. ASSUME NEW h \in Handlers, HandlerStep(h), ~(Granted(h) \/ Denied(h) \/ Unheard(h))
      PROVE  /\ Busy(g)' => token'[g] <= issued
             /\ hpc'[g] \in {"list_new", "granted"} => hpc[g] \in {"list_new", "granted"} /\ fresh'[g] = fresh[g]
  BY <1>2 DEF HandlerStep, load_refresh, load_session, MarkUsed, ListUsed, ListNew,
       delete_session, Members, Purge, Unlist
<1>3. ASSUME NEW h \in Handlers, NEW s \in Ids, logout(h, s)
      PROVE  /\ Busy(g)' => token'[g] <= issued
             /\ hpc'[g] \in {"list_new", "granted"} => hpc[g] \in {"list_new", "granted"} /\ fresh'[g] = fresh[g]
  <2>1. s \in sessions
    BY <1>3 DEF logout
  <2>2. (CHOOSE n \in 1..issued : owner[n] = s /\ parent[n] = 0) \in 1..issued
    BY <2>1, FirstToken
  <2>3. PICK n \in 1..issued : token' = [token EXCEPT ![h] = n] /\ hpc' = [hpc EXCEPT ![h] = "delete"]
    BY <1>3, <2>2 DEF logout
  <2> QED  BY <1>3, <2>3 DEF logout
<1>4. ASSUME NEW q \in Requests, Refresh(q) \/ RetryLogout(q)
      PROVE  /\ Busy(g)' => token'[g] <= issued
             /\ hpc'[g] \in {"list_new", "granted"} => hpc[g] \in {"list_new", "granted"} /\ fresh'[g] = fresh[g]
  <2>1. CASE UNCHANGED <<hpc, token, fresh>>
    BY <2>1
  <2>2. CASE ~UNCHANGED <<hpc, token, fresh>>
    <3>1. PICK h \in Handlers : /\ token' = [token EXCEPT ![h] = tab] /\ fresh' = fresh
                                /\ \/ hpc' = [hpc EXCEPT ![h] = "load"]
                                   \/ hpc' = [hpc EXCEPT ![h] = "delete"]
      BY <1>4, <2>2 DEF Refresh, RetryLogout
    <3> QED  BY <3>1
  <2> QED  BY <2>1, <2>2
<1>5. CASE UNCHANGED <<hpc, token, fresh>>
  BY <1>5
<1>8. ASSUME NEW h \in Handlers, NEW n \in Tokens, Present(h, n)
      PROVE  /\ Busy(g)' => token'[g] <= issued
             /\ hpc'[g] \in {"list_new", "granted"} => hpc[g] \in {"list_new", "granted"} /\ fresh'[g] = fresh[g]
  BY <1>8 DEF Present
<1>6. \A q \in Requests : Send(q) \/ SignOut(q) \/ Answered(q) \/ NoRefresh(q) \/ Retry(q)
        => UNCHANGED <<hpc, token, fresh>>
  BY DEF Send, SignOut, Answered, NoRefresh, Retry, server
<1>7. AccessExpires \/ (\E s \in Ids : SessionExpires(s)) \/ LoseAnswer \/ Reload
        => UNCHANGED <<hpc, token, fresh>>
  BY DEF AccessExpires, SessionExpires, LoseAnswer, Reload, server
<1> QED  BY <1>1, <1>2, <1>3, <1>4, <1>5, <1>6, <1>7, <1>8 DEF Next, RequestStep

\* Tokens, sessions and handlers keep referring to one another.
LEMMA ReferencesStep ==
  ASSUME TypeOK, References, Reserved, Next
  PROVE  References'
<1> USE SessionBounds DEF TypeOK, References, Busy
<1>1. ASSUME NEW h \in Handlers, _issue_refresh(h)
      PROVE  References'
  <2>1. issued + 1 \in Tokens /\ issued' = issued + 1 /\ started' = started
    BY <1>1, TokenLeft DEF _issue_refresh
  <2>2. owner' = [owner EXCEPT ![issued + 1] = Session(h)] /\ parent' = [parent EXCEPT ![issued + 1] = token[h]]
    BY <1>1 DEF _issue_refresh
  <2>3. token[h] \in 1..issued /\ Session(h) <= started
    BY <1>1 DEF _issue_refresh, Session, Tokens
  <2>4. \A n \in 1..issued : n \in Tokens /\ n # issued + 1 /\ owner'[n] = owner[n] /\ parent'[n] = parent[n]
    BY <2>1, <2>2 DEF Tokens
  <2>5. owner'[issued + 1] = Session(h) /\ parent'[issued + 1] = token[h]
    BY <2>1, <2>2
  <2>6. \A n \in 1..issued' : owner'[n] <= started' /\ parent'[n] <= issued'
    <3> TAKE n \in 1..issued'
    <3>1. CASE n = issued + 1
      BY <2>1, <2>3, <2>5, <3>1
    <3>2. CASE n \in 1..issued
      <4>1. parent[n] \in 0..MaxTokens /\ owner[n] \in Ids /\ owner[n] <= started /\ parent[n] <= issued
        BY <2>4, <3>2
      <4>2. owner'[n] = owner[n] /\ parent'[n] = parent[n]
        BY <2>4, <3>2
      <4>3. issued \in Nat /\ started \in Nat /\ parent[n] \in Int /\ owner[n] \in Int
        BY <4>1 DEF Ids
      <4> HIDE DEF TypeOK, References, Busy
      <4> QED  BY <2>1, <4>1, <4>2, <4>3
    <3> QED  BY <2>1, <3>1, <3>2
  <2>7. \A s \in 1..started' : \E n \in 1..issued' : owner'[n] = s /\ parent'[n] = 0
    BY SMTT(30), <2>1, <2>4
  <2>8. \A g \in Handlers : Busy(g)' => token'[g] <= issued'
    BY <1>1, <2>1 DEF _issue_refresh, Goto, Tokens
  <2>9. \A g \in Handlers : hpc'[g] \in {"list_new", "granted"} => fresh'[g] <= issued'
    BY <1>1, <2>1 DEF _issue_refresh, Goto, Tokens
  <2> QED  BY <2>6, <2>7, <2>8, <2>9
<1>2. CASE Login
  <2>1. issued + 1 \in Tokens /\ issued' = issued + 1 /\ started' = started + 1 /\ started + 1 \in Ids
    BY <1>2, RoomLeft DEF Login, Ids
  <2>2. owner' = [owner EXCEPT ![issued + 1] = started + 1] /\ parent' = [parent EXCEPT ![issued + 1] = 0]
    BY <1>2 DEF Login
  <2>3. \A n \in 1..issued : n \in Tokens /\ n # issued + 1 /\ owner'[n] = owner[n] /\ parent'[n] = parent[n]
    BY <2>1, <2>2 DEF Tokens
  <2>4. owner'[issued + 1] = started + 1 /\ parent'[issued + 1] = 0
    BY <2>1, <2>2
  <2>5. \A n \in 1..issued' : owner'[n] <= started' /\ parent'[n] <= issued'
    <3> TAKE n \in 1..issued'
    <3>1. CASE n = issued + 1
      BY <2>1, <2>4, <3>1
    <3>2. CASE n \in 1..issued
      <4>1. parent[n] \in 0..MaxTokens /\ owner[n] \in Ids /\ owner[n] <= started /\ parent[n] <= issued
        BY <2>3, <3>2
      <4>2. owner'[n] = owner[n] /\ parent'[n] = parent[n]
        BY <2>3, <3>2
      <4>3. issued \in Nat /\ started \in Nat /\ parent[n] \in Int /\ owner[n] \in Int
        BY <4>1 DEF Ids
      <4> HIDE DEF TypeOK, References, Busy
      <4> QED  BY <2>1, <4>1, <4>2, <4>3
    <3> QED  BY <2>1, <3>1, <3>2
  <2>6. \A s \in 1..started' : \E n \in 1..issued' : owner'[n] = s /\ parent'[n] = 0
    <3> TAKE s \in 1..started'
    <3>1. CASE s = started + 1
      BY <2>1, <2>4, <3>1
    <3>2. CASE s # started + 1
      BY <2>1, <2>3, <3>2
    <3> QED  BY <3>1, <3>2
  <2>7. \A g \in Handlers : Busy(g)' => token'[g] <= issued'
    BY <1>2, <2>1 DEF Login, Tokens
  <2>8. \A g \in Handlers : hpc'[g] \in {"list_new", "granted"} => fresh'[g] <= issued'
    BY <1>2, <2>1 DEF Login, Tokens
  <2> QED  BY <2>5, <2>6, <2>7, <2>8
<1>3. CASE ~Login /\ \A h \in Handlers : ~_issue_refresh(h)
  <2>1. UNCHANGED <<started, issued, owner, parent>>
    BY <1>3, TokensFrame
  <2> QED  BY <1>3, <2>1, HandlerTokens
<1> QED  BY <1>1, <1>2, <1>3

-----------------------------------------------------------------------------
\* A session that is over stays over for the handlers that began after its end, and
\* none of them gets past load_session.
LEMMA DeadStep ==
  ASSUME TypeOK, References, Reserved, DeadStaysDead, RevokedYieldsNothing, Next
  PROVE  DeadStaysDead' /\ RevokedYieldsNothing'
<1> USE SessionBounds DEF TypeOK, References, DeadStaysDead, RevokedYieldsNothing, Busy, Session
<1>1. ASSUME NEW h \in Handlers, _issue_refresh(h)
      PROVE  DeadStaysDead' /\ RevokedYieldsNothing'
  <2>1. issued + 1 \in Tokens
    BY <1>1, TokenLeft DEF _issue_refresh
  <2>2. \A g \in Handlers : Busy(g) => owner'[token[g]] = owner[token[g]]
    BY <1>1, <2>1 DEF _issue_refresh, Tokens
  <2>3. \A g \in Handlers : (Busy(g)' <=> Busy(g)) /\ token'[g] = token[g] /\ deadAt'[g] = deadAt[g]
    BY <1>1 DEF _issue_refresh, Goto
  <2>4. RevokedYieldsNothing'
    BY <1>1 DEF _issue_refresh, Goto
  <2> QED  BY <1>1, <2>2, <2>3, <2>4 DEF _issue_refresh
<1>2. CASE Login
  <2>1. issued + 1 \in Tokens
    BY <1>2, RoomLeft DEF Login
  <2>2. \A g \in Handlers : Busy(g) => owner'[token[g]] = owner[token[g]] /\ owner[token[g]] <= started
    BY <1>2, <2>1 DEF Login, Tokens
  <2>3. \A g \in Handlers : Busy(g) => owner[token[g]] # started + 1
    BY <2>2 DEF Ids
  <2> QED  BY <1>2, <2>2, <2>3 DEF Login
<1>3. CASE ~Login /\ \A h \in Handlers : ~_issue_refresh(h)
  <2>1. UNCHANGED <<started, issued, owner, parent>>
    BY <1>3, TokensFrame
  <2>2. sessions' \subseteq sessions
    BY <1>3 DEF Next, HandlerStep, RequestStep, load_refresh, load_session, MarkUsed, ListUsed,
         ListNew, delete_session, Members, Purge, Unlist, Granted, Denied, Unheard, logout,
         AccessExpires, SessionExpires, Send, SignOut, Answered, Refresh, NoRefresh, Retry,
         RetryLogout, Present, LoseAnswer, Reload, store
  <2>3. ASSUME NEW h \in Handlers, Granted(h) \/ Denied(h) \/ Unheard(h)
        PROVE  DeadStaysDead' /\ RevokedYieldsNothing'
    <3>1. hpc' = [hpc EXCEPT ![h] = "idle"] /\ token' = [token EXCEPT ![h] = 1]
          /\ deadAt' = [deadAt EXCEPT ![h] = FALSE]
      BY <2>3 DEF Granted, Denied, Unheard, Finish, Goto
    <3>2. ~deadAt'[h] /\ \A g \in Handlers \ {h} : deadAt'[g] = deadAt[g]
      BY <3>1
    <3>3. \A g \in Handlers \ {h} : hpc'[g] = hpc[g] /\ token'[g] = token[g]
      BY <3>1
    <3>4. DeadStaysDead'
      BY ZenonT(60), <2>1, <2>2, <3>2, <3>3
    <3>5. RevokedYieldsNothing'
      BY <3>1, <3>2, <3>3
    <3> QED  BY <3>4, <3>5
  <2>4. ASSUME NEW h \in Handlers, HandlerStep(h), ~(Granted(h) \/ Denied(h) \/ Unheard(h))
        PROVE  DeadStaysDead' /\ RevokedYieldsNothing'
    <3>1. UNCHANGED <<token, deadAt>> /\ Busy(h)
      BY <1>3, <2>4 DEF HandlerStep, load_refresh, load_session, MarkUsed, ListUsed, ListNew,
           delete_session, Members, Purge, Unlist
    <3>2. \A g \in Handlers : Busy(g)' <=> Busy(g)
      BY <1>3, <2>4 DEF HandlerStep, load_refresh, load_session, MarkUsed, ListUsed, ListNew,
           delete_session, Members, Purge, Unlist, Goto
    <3>3. \A g \in Handlers : hpc'[g] \in {"mark", "list_used", "issue", "list_new", "granted"}
            => hpc[g] \in {"mark", "list_used", "issue", "list_new", "granted"} \/ owner[token[g]] \in sessions
      BY <1>3, <2>4 DEF HandlerStep, load_refresh, load_session, MarkUsed, ListUsed, ListNew,
           delete_session, Members, Purge, Unlist, Goto
    <3> QED  BY <2>1, <2>2, <3>1, <3>2, <3>3
  <2>5. ASSUME NEW h \in Handlers, NEW s \in Ids, logout(h, s)
        PROVE  DeadStaysDead' /\ RevokedYieldsNothing'
    <3>1. PICK n : /\ hpc' = [hpc EXCEPT ![h] = "delete"] /\ token' = [token EXCEPT ![h] = n]
                   /\ deadAt' = deadAt /\ ~Busy(h)
      BY <2>5 DEF logout
    <3>2. \A g \in Handlers : deadAt[g] => g # h
      BY <3>1
    <3>3. \A g \in Handlers \ {h} : hpc'[g] = hpc[g] /\ token'[g] = token[g]
      BY <3>1
    <3>4. DeadStaysDead'
      BY ZenonT(60), <2>1, <2>2, <3>1, <3>2, <3>3
    <3>5. RevokedYieldsNothing'
      BY <3>1, <3>2, <3>3
    <3> QED  BY <3>4, <3>5
  <2>6. ASSUME NEW q \in Requests, Refresh(q)
        PROVE  DeadStaysDead' /\ RevokedYieldsNothing'
    <3>1. CASE inFlight # NoOne
      <4>1. UNCHANGED <<hpc, token, deadAt>>
        BY <2>6, <3>1 DEF Refresh
      <4> QED  BY <2>1, <2>2, <4>1
    <3>2. CASE inFlight = NoOne
      <4>1. PICK h \in Handlers :
              /\ hpc' = [hpc EXCEPT ![h] = "load"]
              /\ token' = [token EXCEPT ![h] = tab]
              /\ deadAt' = [deadAt EXCEPT ![h] = owner[tab] \notin sessions]
        BY <2>6, <3>2 DEF Refresh
      <4>2. tab \in Tokens
        BY <2>6 DEF Refresh, Tokens
      <4>3. deadAt'[h] <=> owner[tab] \notin sessions
        BY <4>1
      <4> QED  BY <2>1, <2>2, <4>1, <4>2, <4>3
    <3> QED  BY <3>1, <3>2
  <2>7. ASSUME NEW q \in Requests, RetryLogout(q)
        PROVE  DeadStaysDead' /\ RevokedYieldsNothing'
    <3>1. PICK h \in Handlers : /\ hpc' = [hpc EXCEPT ![h] = "delete"] /\ token' = [token EXCEPT ![h] = tab]
                                /\ deadAt' = deadAt /\ ~Busy(h)
      BY <2>7 DEF RetryLogout
    <3>2. \A g \in Handlers : deadAt[g] => g # h
      BY <3>1
    <3>3. \A g \in Handlers \ {h} : hpc'[g] = hpc[g] /\ token'[g] = token[g]
      BY <3>1
    <3>4. DeadStaysDead'
      BY ZenonT(60), <2>1, <2>2, <3>1, <3>2, <3>3
    <3>5. RevokedYieldsNothing'
      BY <3>1, <3>2, <3>3
    <3> QED  BY <3>4, <3>5
  <2>8. CASE UNCHANGED <<hpc, token, deadAt>>
    BY <2>1, <2>2, <2>8
  <2>9. \A q \in Requests : Send(q) \/ SignOut(q) \/ Answered(q) \/ NoRefresh(q) \/ Retry(q)
          => UNCHANGED <<hpc, token, deadAt>>
    BY DEF Send, SignOut, Answered, NoRefresh, Retry, server
  <2>10. AccessExpires \/ (\E s \in Ids : SessionExpires(s)) \/ LoseAnswer \/ Reload
          => UNCHANGED <<hpc, token, deadAt>>
    BY DEF AccessExpires, SessionExpires, LoseAnswer, Reload, server
  <2>11. ASSUME NEW h \in Handlers, NEW n \in Tokens, Present(h, n)
         PROVE  DeadStaysDead' /\ RevokedYieldsNothing'
    <3>1. /\ hpc' = [hpc EXCEPT ![h] = "load"]
          /\ token' = [token EXCEPT ![h] = n]
          /\ deadAt' = [deadAt EXCEPT ![h] = owner[n] \notin sessions]
      BY <2>11 DEF Present
    <3>2. deadAt'[h] <=> owner[n] \notin sessions
      BY <3>1
    <3> QED  BY <2>1, <2>2, <3>1, <3>2
  <2> QED  BY <1>3, <2>3, <2>4, <2>5, <2>6, <2>7, <2>8, <2>9, <2>10, <2>11 DEF Next, RequestStep
<1> QED  BY <1>1, <1>2, <1>3

-----------------------------------------------------------------------------
\* The refresh in flight keeps its handler.
LEMMA FlightStep ==
  ASSUME TypeOK, FlightHasHandler, Next
  PROVE  FlightHasHandler'
<1> USE NoOneIsNone, SessionBounds DEF TypeOK, FlightHasHandler, Busy
<1>1. ASSUME NEW h \in Handlers, HandlerStep(h)
      PROVE  FlightHasHandler'
  <2>1. CASE Granted(h) \/ Denied(h)
    BY <2>1 DEF Granted, Denied
  <2>2. CASE Unheard(h)
    BY <2>2 DEF Unheard, Finish, Goto, console
  <2>3. CASE ~(Granted(h) \/ Denied(h) \/ Unheard(h))
    <3>1. UNCHANGED <<token, tab, inFlight, leaving>>
      BY <1>1, <2>3 DEF HandlerStep, load_refresh, load_session, MarkUsed, ListUsed, _issue_refresh,
           ListNew, delete_session, Members, Purge, Unlist, console
    <3>2. \A g \in Handlers : Busy(g) => Busy(g)'
      BY <1>1, <2>3 DEF HandlerStep, load_refresh, load_session, MarkUsed, ListUsed, _issue_refresh,
           ListNew, delete_session, Members, Purge, Unlist, Goto
    <3> QED  BY <3>1, <3>2
  <2> QED  BY <2>1, <2>2, <2>3
<1>2. ASSUME NEW h \in Handlers, NEW s \in Ids, logout(h, s)
      PROVE  FlightHasHandler'
  BY <1>2 DEF logout, console
<1>3. CASE Login
  BY <1>3 DEF Login, Tokens
<1>4. ASSUME NEW q \in Requests, Refresh(q)
      PROVE  FlightHasHandler'
  <2>1. CASE inFlight # NoOne
    BY <1>4, <2>1 DEF Refresh
  <2>2. CASE inFlight = NoOne
    BY <1>4, <2>2 DEF Refresh
  <2> QED  BY <2>1, <2>2
<1>5. ASSUME NEW q \in Requests, RetryLogout(q)
      PROVE  FlightHasHandler'
  BY <1>5 DEF RetryLogout
<1>6. ASSUME NEW q \in Requests, SignOut(q)
      PROVE  FlightHasHandler'
  BY <1>6 DEF SignOut, server
<1>7. ASSUME NEW q \in Requests, Send(q) \/ Answered(q) \/ NoRefresh(q) \/ Retry(q)
      PROVE  FlightHasHandler'
  BY <1>7 DEF Send, Answered, NoRefresh, Retry, server
<1>8. CASE LoseAnswer \/ Reload
  BY <1>8 DEF LoseAnswer, Reload
<1>9. CASE AccessExpires \/ \E s \in Ids : SessionExpires(s)
  BY <1>9 DEF AccessExpires, SessionExpires, server, console
<1>10. ASSUME NEW h \in Handlers, NEW n \in Tokens, Present(h, n)
       PROVE  FlightHasHandler'
  BY <1>10 DEF Present, console
<1> QED
  BY <1>1, <1>2, <1>3, <1>4, <1>5, <1>6, <1>7, <1>8, <1>9, <1>10 DEF Next, RequestStep

-----------------------------------------------------------------------------
\* A step that rotates no token, gives none out and lets the tab's token go at most
\* leaves every token in its one place.
LEMMA OnePlaceFrame ==
  ASSUME TypeOK, OnePlaceEach, UNCHANGED <<issued, parent, lost>>,
         Rotating' \subseteq Rotating, Holding' \subseteq Holding,
         \A h \in Rotating' : token'[h] = token[h],
         \A h \in Rotating' : hpc'[h] \in {"load", "session", "mark"} => hpc[h] \in {"load", "session", "mark"},
         \A h \in Holding' : fresh'[h] = fresh[h],
         \A n \in Tokens : refresh'[n] = "used" => refresh[n] = "used",
         tab' \in {0, tab},
         tab' # 0 /\ inFlight' = NoOne => inFlight = NoOne
  PROVE  OnePlaceEach'
<1> SUFFICES ASSUME ~lost
             PROVE  OnePlaceEach'
  BY DEF OnePlaceEach
<1>1. \A n \in Tokens : Untouched(n) => Untouched(n)'
  BY DEF Untouched
<1>2. \A h \in Rotating : token[h] \in Tokens
  BY DEF TypeOK, Rotating
<1>3. \A h \in Holding : fresh[h] \in Tokens /\ fresh[h] # 0
  BY SessionBounds DEF TypeOK, Holding, Tokens
<1>4. tab # 0 => tab \in Tokens
  BY SessionBounds DEF TypeOK, Tokens
<1>5. \A h \in Rotating' : \A m \in 1..issued' : parent'[m] # token'[h]
  BY DEF OnePlaceEach
<1>6. \A h \in Rotating' : hpc'[h] \in {"load", "session", "mark"} => refresh'[token'[h]] # "used"
  BY <1>2 DEF OnePlaceEach
<1>7. \A g, h \in Rotating' : token'[g] = token'[h] => g = h
  BY DEF OnePlaceEach
<1>8. tab' # 0 /\ inFlight' = NoOne => Untouched(tab)'
  <2> SUFFICES ASSUME tab' # 0, inFlight' = NoOne
               PROVE  Untouched(tab)'
    OBVIOUS
  <2>1. tab' = tab /\ Untouched(tab)
    BY DEF OnePlaceEach
  <2> QED  BY <2>1, <1>1, <1>4 DEF Untouched
<1>9. \A h \in Holding' : Untouched(fresh[h])' /\ fresh'[h] # tab'
  <2> SUFFICES ASSUME NEW h \in Holding'
               PROVE  Untouched(fresh[h])' /\ fresh'[h] # tab'
    OBVIOUS
  <2>1. h \in Holding /\ fresh'[h] = fresh[h] /\ Untouched(fresh[h]) /\ fresh[h] # tab
    BY DEF OnePlaceEach
  <2> QED  BY <2>1, <1>1, <1>3 DEF Untouched
<1>10. \A g, h \in Holding' : fresh'[g] = fresh'[h] => g = h
  BY DEF OnePlaceEach
<1> QED  BY <1>5, <1>6, <1>7, <1>8, <1>9, <1>10 DEF OnePlaceEach

\* What is issued next is a token that nobody has seen.
LEMMA NewToken ==
  ASSUME TypeOK, References, issued + 1 \in Tokens
  PROVE  /\ \A m \in 1..issued : parent[m] # issued + 1
         /\ \A h \in Rotating : token[h] \in 1..issued
         /\ \A h \in Holding : fresh[h] \in 1..issued
         /\ tab # issued + 1
<1> USE SessionBounds DEF TypeOK, References
<1>1. \A m \in 1..issued : parent[m] # issued + 1
  BY DEF Tokens
<1>2. \A h \in Rotating : token[h] \in 1..issued
  BY DEF Rotating, Busy, Tokens
<1>3. \A h \in Holding : fresh[h] \in 1..issued
  BY DEF Holding, Tokens
<1> QED  BY <1>1, <1>2, <1>3

\* Rotation moves a token from the tab to a handler, and its successor from the
\* handler to the tab.
LEMMA OnePlaceStep ==
  ASSUME TypeOK, References, Reserved, FlightHasHandler, OnePlaceEach, Next
  PROVE  OnePlaceEach'
<1> SUFFICES ASSUME ~lost
             PROVE  OnePlaceEach'
  <2>1. lost => lost'
    BY DEF Next, HandlerStep, RequestStep, load_refresh, load_session, MarkUsed, ListUsed, _issue_refresh,
         ListNew, delete_session, Members, Purge, Unlist, Granted, Denied, Unheard, logout,
         AccessExpires, SessionExpires, Login, Send, SignOut, Answered, Refresh, NoRefresh, Retry,
         RetryLogout, Present, LoseAnswer, Reload, history
  <2> QED  BY <2>1 DEF OnePlaceEach
<1>1. ASSUME NEW h \in Handlers, MarkUsed(h)
      PROVE  OnePlaceEach'
  <2>1. h \in Rotating /\ Rotating' = Rotating /\ Holding' = Holding
    BY <1>1 DEF MarkUsed, Goto, Rotating, Holding, TypeOK
  <2>2. UNCHANGED <<issued, parent, lost, token, fresh, tab, inFlight>>
    BY <1>1 DEF MarkUsed, console, history
  <2>3. refresh' = [refresh EXCEPT ![token[h]] = "used"] /\ hpc' = [hpc EXCEPT ![h] = "list_used"]
    BY <1>1 DEF MarkUsed, Goto
  <2>4. \A n : Untouched(n) => Untouched(n)'
    BY <2>1, <2>2, <2>3 DEF Untouched, TypeOK
  <2>5. \A g \in Rotating : hpc'[g] \in {"load", "session", "mark"} => refresh'[token[g]] # "used"
    <3> TAKE g \in Rotating
    <3> HAVE hpc'[g] \in {"load", "session", "mark"}
    <3>1. g # h /\ hpc[g] \in {"load", "session", "mark"} /\ g \in Handlers
      BY <2>3 DEF TypeOK, Rotating
    <3>2. token[g] # token[h] /\ refresh[token[g]] # "used"
      BY <2>1, <3>1 DEF OnePlaceEach
    <3> QED  BY <2>3, <3>1, <3>2 DEF TypeOK
  <2>6. tab' # 0 /\ inFlight' = NoOne => Untouched(tab)'
    BY <2>2, <2>4 DEF OnePlaceEach, Untouched
  <2>7. \A g \in Holding' : Untouched(fresh[g])' /\ fresh'[g] # tab'
    BY <2>1, <2>2, <2>4 DEF OnePlaceEach, Untouched
  <2> QED  BY <2>1, <2>2, <2>5, <2>6, <2>7 DEF OnePlaceEach
<1>2. ASSUME NEW h \in Handlers, _issue_refresh(h)
      PROVE  OnePlaceEach'
  <2>1. h \in Rotating /\ Rotating' = Rotating \ {h} /\ Holding' = Holding \cup {h}
    BY <1>2 DEF _issue_refresh, Goto, Rotating, Holding, TypeOK
  <2>2. UNCHANGED <<lost, token, tab, inFlight>> /\ issued' = issued + 1 /\ issued \in Nat
    BY <1>2 DEF _issue_refresh, console, history, TypeOK
  <2>3. /\ refresh' = [refresh EXCEPT ![issued + 1] = "unused"]
        /\ parent' = [parent EXCEPT ![issued + 1] = token[h]]
        /\ fresh' = [fresh EXCEPT ![h] = issued + 1]
        /\ hpc' = [hpc EXCEPT ![h] = "list_new"]
    BY <1>2 DEF _issue_refresh, Goto
  <2>4. issued + 1 \in Tokens
    BY <1>2, TokenLeft DEF _issue_refresh
  <2>5. /\ \A m \in 1..issued : parent[m] # issued + 1
        /\ \A g \in Rotating : token[g] \in 1..issued
        /\ \A g \in Holding : fresh[g] \in 1..issued
        /\ tab # issued + 1
    BY <2>4, NewToken
  <2>6. \A m \in 1..issued' : m = issued + 1 \/ m \in 1..issued
    BY <2>2
  <2>7. parent'[issued + 1] = token[h] /\ \A m \in 1..issued : parent'[m] = parent[m]
    BY <2>3, <2>4 DEF TypeOK, Tokens
  <2>8. refresh'[issued + 1] = "unused" /\ \A m \in 1..issued : refresh'[m] = refresh[m]
    BY <2>3, <2>4 DEF TypeOK, Tokens
  <2>9. fresh'[h] = issued + 1 /\ \A g \in Handlers \ {h} : fresh'[g] = fresh[g] /\ hpc'[g] = hpc[g]
    BY <2>3 DEF TypeOK
  <2>10. Untouched(fresh[h])'
    <3>1. refresh'[fresh'[h]] # "used"
      BY <2>8, <2>9
    <3>2. \A m \in 1..issued' : parent'[m] # fresh'[h]
      BY <2>1, <2>2, <2>5, <2>6, <2>7, <2>9
    <3>3. \A g \in Rotating' : token'[g] # fresh'[h]
      BY <2>1, <2>2, <2>5, <2>9
    <3> QED  BY <3>1, <3>2, <3>3 DEF Untouched
  <2>11. \A n \in 1..issued : Untouched(n) => Untouched(n)'
    <3> SUFFICES ASSUME NEW n \in 1..issued, Untouched(n)
                 PROVE  Untouched(n)'
      OBVIOUS
    <3>1. refresh'[n] # "used"
      BY <2>8 DEF Untouched
    <3>2. \A m \in 1..issued' : parent'[m] # n
      BY <2>1, <2>6, <2>7 DEF Untouched
    <3>3. \A g \in Rotating' : token'[g] # n
      BY <2>1, <2>2 DEF Untouched
    <3> QED  BY <3>1, <3>2, <3>3 DEF Untouched
  <2>12. \A g \in Rotating' : \A m \in 1..issued' : parent'[m] # token'[g]
    BY <2>1, <2>2, <2>6, <2>7 DEF OnePlaceEach
  <2>13. \A g \in Rotating' : hpc'[g] \in {"load", "session", "mark"} => refresh'[token'[g]] # "used"
    BY <2>1, <2>2, <2>5, <2>8, <2>9 DEF OnePlaceEach, Rotating
  <2>14. \A f, g \in Rotating' : token'[f] = token'[g] => f = g
    BY <2>1, <2>2 DEF OnePlaceEach
  <2>15. tab' # 0 /\ inFlight' = NoOne => Untouched(tab)'
    <3> SUFFICES ASSUME tab # 0, inFlight = NoOne
                 PROVE  Untouched(tab)'
      BY <2>2
    <3>1. Untouched(tab) /\ tab \in 1..issued /\ tab' = tab
      BY <2>2 DEF OnePlaceEach, TypeOK
    <3> QED  BY <2>11, <3>1 DEF Untouched
  <2>16. \A g \in Holding' : Untouched(fresh[g])' /\ fresh'[g] # tab'
    <3> SUFFICES ASSUME NEW g \in Holding'
                 PROVE  Untouched(fresh[g])' /\ fresh'[g] # tab'
      OBVIOUS
    <3>1. CASE g = h
      BY <2>2, <2>5, <2>9, <2>10, <3>1
    <3>2. CASE g # h
      <4>1. g \in Holding /\ fresh'[g] = fresh[g] /\ fresh[g] \in 1..issued
        BY <2>1, <2>5, <2>9, <3>2 DEF Holding
      <4>2. Untouched(fresh[g]) /\ fresh[g] # tab
        BY <4>1 DEF OnePlaceEach
      <4> QED  BY <2>2, <2>11, <4>1, <4>2 DEF Untouched
    <3> QED  BY <3>1, <3>2
  <2>17. \A f, g \in Holding' : fresh'[f] = fresh'[g] => f = g
    <3>1. \A g \in Holding : g \in Handlers /\ issued + 1 # fresh[g]
      BY <2>2, <2>5 DEF Holding
    <3> QED  BY <2>1, <2>9, <3>1 DEF OnePlaceEach
  <2> QED  BY <2>12, <2>13, <2>14, <2>15, <2>16, <2>17 DEF OnePlaceEach
<1>3. CASE Login
  <2>1. Rotating' = Rotating /\ Holding' = Holding
    BY <1>3 DEF Login, Rotating, Holding
  <2>2. /\ UNCHANGED <<lost, token, fresh, hpc, inFlight>>
        /\ issued' = issued + 1 /\ tab' = issued + 1 /\ issued \in Nat
    BY <1>3 DEF Login, history, TypeOK
  <2>3. issued + 1 \in Tokens
    BY <1>3, RoomLeft DEF Login
  <2>4. /\ \A m \in 1..issued : parent[m] # issued + 1
        /\ \A g \in Rotating : token[g] \in 1..issued
        /\ \A g \in Holding : fresh[g] \in 1..issued
    BY <2>3, NewToken
  <2>5. \A m \in 1..issued' : m = issued + 1 \/ m \in 1..issued
    BY <2>2
  <2>6. parent'[issued + 1] = 0 /\ \A m \in 1..issued : parent'[m] = parent[m]
    BY <1>3, <2>3 DEF Login, TypeOK, Tokens
  <2>7. refresh'[issued + 1] = "unused" /\ \A m \in 1..issued : refresh'[m] = refresh[m]
    BY <1>3, <2>3 DEF Login, TypeOK, Tokens
  <2>8. Untouched(tab)'
    <3>1. refresh'[tab'] # "used"
      BY <2>2, <2>7
    <3>2. \A m \in 1..issued' : parent'[m] # tab'
      BY <2>2, <2>4, <2>5, <2>6
    <3>3. \A g \in Rotating' : token'[g] # tab'
      BY <2>1, <2>2, <2>4
    <3> QED  BY <3>1, <3>2, <3>3 DEF Untouched
  <2>9. \A n \in 1..issued : Untouched(n) => Untouched(n)'
    <3> SUFFICES ASSUME NEW n \in 1..issued, Untouched(n)
                 PROVE  Untouched(n)'
      OBVIOUS
    <3>1. \A m \in 1..issued' : parent'[m] # n
      BY <2>5, <2>6 DEF Untouched
    <3> QED  BY <2>1, <2>2, <2>7, <3>1 DEF Untouched
  <2>10. \A g \in Rotating' : \A m \in 1..issued' : parent'[m] # token'[g]
    <3>1. \A g \in Rotating : token[g] # 0
      BY <2>4
    <3> QED  BY <2>1, <2>2, <2>5, <2>6, <3>1 DEF OnePlaceEach
  <2>11. \A g \in Rotating' : hpc'[g] \in {"load", "session", "mark"} => refresh'[token'[g]] # "used"
    BY <2>1, <2>2, <2>4, <2>7 DEF OnePlaceEach
  <2>12. \A g \in Holding' : Untouched(fresh[g])' /\ fresh'[g] # tab'
    <3> SUFFICES ASSUME NEW g \in Holding
                 PROVE  Untouched(fresh[g])' /\ fresh'[g] # tab'
      BY <2>1
    <3>1. fresh[g] \in 1..issued /\ Untouched(fresh[g]) /\ fresh'[g] = fresh[g]
      BY <2>2, <2>4 DEF OnePlaceEach
    <3> QED  BY <2>2, <2>9, <3>1 DEF Untouched
  <2> QED  BY <2>1, <2>2, <2>8, <2>10, <2>11, <2>12 DEF OnePlaceEach
<1>4. ASSUME NEW q \in Requests, Refresh(q), inFlight = NoOne
      PROVE  OnePlaceEach'
  <2>1. PICK h \in Handlers : /\ ~Busy(h)
                              /\ inFlight' = h
                              /\ hpc' = [hpc EXCEPT ![h] = "load"]
                              /\ token' = [token EXCEPT ![h] = tab]
    BY <1>4 DEF Refresh
  <2>2. UNCHANGED <<issued, refresh, parent, fresh, tab, lost>>
    BY <1>4 DEF Refresh, store, history
  <2>3. Rotating' = Rotating \cup {h} /\ h \notin Rotating /\ Holding' = Holding
    BY <2>1 DEF Rotating, Holding, Busy, TypeOK
  <2>4. token'[h] = tab /\ \A g \in Rotating : token'[g] = token[g] /\ hpc'[g] = hpc[g]
    BY <2>1, <2>3 DEF Rotating, TypeOK
  <2>5. Untouched(tab)
    BY <1>4 DEF Refresh, OnePlaceEach
  <2>6. \A n : Untouched(n) /\ n # tab => Untouched(n)'
    BY <2>2, <2>3, <2>4 DEF Untouched
  <2>7. \A g \in Rotating' : \A m \in 1..issued' : parent'[m] # token'[g]
    BY <2>2, <2>3, <2>4, <2>5 DEF OnePlaceEach, Untouched
  <2>8. \A g \in Rotating' : hpc'[g] \in {"load", "session", "mark"} => refresh'[token'[g]] # "used"
    BY <2>2, <2>3, <2>4, <2>5 DEF OnePlaceEach, Untouched
  <2>9. \A f, g \in Rotating' : token'[f] = token'[g] => f = g
    BY <2>3, <2>4, <2>5 DEF OnePlaceEach, Untouched
  <2>10. \A g \in Holding' : Untouched(fresh[g])' /\ fresh'[g] # tab'
    <3> SUFFICES ASSUME NEW g \in Holding
                 PROVE  Untouched(fresh[g])' /\ fresh'[g] # tab'
      BY <2>3
    <3>1. Untouched(fresh[g]) /\ fresh[g] # tab /\ fresh'[g] = fresh[g]
      BY <2>2 DEF OnePlaceEach
    <3> QED  BY <2>2, <2>6, <3>1 DEF Untouched
  <2>11. inFlight' # NoOne
    BY <2>1, NoOneIsNone
  <2> QED  BY <2>2, <2>3, <2>7, <2>8, <2>9, <2>10, <2>11 DEF OnePlaceEach
<1>5. ASSUME NEW h \in Handlers, Granted(h)
      PROVE  OnePlaceEach'
  <2>1. UNCHANGED <<issued, refresh, parent, lost>> /\ tab' = fresh[h]
    BY <1>5 DEF Granted, Finish, store, history
  <2>2. Rotating' = Rotating /\ h \in Holding /\ Holding' = Holding \ {h}
    BY <1>5 DEF Granted, Finish, Goto, Rotating, Holding, TypeOK
  <2>3. \A g \in Handlers \ {h} : token'[g] = token[g] /\ fresh'[g] = fresh[g] /\ hpc'[g] = hpc[g]
    BY <1>5 DEF Granted, Finish, Goto, TypeOK
  <2>4. \A g \in Rotating : g \in Handlers \ {h}
    BY <2>2 DEF Rotating, Holding
  <2>5. \A n : Untouched(n) => Untouched(n)'
    BY <2>1, <2>2, <2>3, <2>4 DEF Untouched
  <2>6. Untouched(tab)'
    <3>1. Untouched(fresh[h])
      BY <2>2 DEF OnePlaceEach
    <3> QED  BY <2>1, <2>5, <3>1 DEF Untouched
  <2>7. \A g \in Holding' : Untouched(fresh[g])' /\ fresh'[g] # tab'
    <3> SUFFICES ASSUME NEW g \in Holding, g # h
                 PROVE  Untouched(fresh[g])' /\ fresh'[g] # tab'
      BY <2>2
    <3>1. Untouched(fresh[g]) /\ fresh'[g] = fresh[g] /\ fresh[g] # fresh[h]
      BY <2>2, <2>3 DEF OnePlaceEach, Holding
    <3> QED  BY <2>1, <2>5, <3>1 DEF Untouched
  <2>8. \A f, g \in Holding' : fresh'[f] = fresh'[g] => f = g
    BY <2>2, <2>3 DEF OnePlaceEach, Holding
  <2>9. /\ \A g \in Rotating' : \A m \in 1..issued' : parent'[m] # token'[g]
        /\ \A g \in Rotating' : hpc'[g] \in {"load", "session", "mark"} => refresh'[token'[g]] # "used"
        /\ \A f, g \in Rotating' : token'[f] = token'[g] => f = g
    BY <2>1, <2>2, <2>3, <2>4 DEF OnePlaceEach
  <2> QED  BY <2>6, <2>7, <2>8, <2>9 DEF OnePlaceEach
<1>6. CASE LoseAnswer \/ Reload
  <2>1. CASE lost'
    BY <2>1 DEF OnePlaceEach
  <2>2. CASE ~lost'
    <3>0. Reload /\ ~(inFlight # NoOne /\ tab # 0)
      BY <1>6, <2>2 DEF LoseAnswer, Reload
    <3>1. Reload /\ lost' = lost /\ ~(inFlight # NoOne /\ tab # 0)
      BY <3>0 DEF Reload, TypeOK
    <3>2. UNCHANGED <<issued, parent, refresh, hpc, token, fresh, tab>>
      BY <3>1 DEF Reload, store, server
    <3>3. Rotating' = Rotating /\ Holding' = Holding
      BY <3>2 DEF Rotating, Holding
    <3> QED  BY <3>1, <3>2, <3>3, OnePlaceFrame
  <2> QED  BY <2>1, <2>2
<1>7. ASSUME NEW h \in Handlers, HandlerStep(h), ~MarkUsed(h), ~_issue_refresh(h), ~Granted(h)
      PROVE  OnePlaceEach'
  <2>1. UNCHANGED <<issued, parent, lost>>
    BY <1>7 DEF HandlerStep, load_refresh, load_session, ListUsed, ListNew, delete_session, Members,
         Purge, Unlist, Denied, Unheard, Finish, store, history
  <2>2. tab' \in {0, tab} /\ (tab' # 0 /\ inFlight' = NoOne => inFlight = NoOne)
    BY <1>7 DEF HandlerStep, load_refresh, load_session, ListUsed, ListNew, delete_session, Members,
         Purge, Unlist, Denied, Unheard, Finish, console
  <2>3. \A n \in Tokens : refresh'[n] = "used" => refresh[n] = "used"
    BY <1>7 DEF HandlerStep, load_refresh, load_session, ListUsed, ListNew, delete_session, Members,
         Purge, Unlist, Denied, Unheard, Finish, store, TypeOK
  <2>4. CASE Denied(h) \/ Unheard(h)
    <3>1. /\ hpc' = [hpc EXCEPT ![h] = "idle"]
          /\ \A g \in Handlers \ {h} : token'[g] = token[g] /\ fresh'[g] = fresh[g] /\ hpc'[g] = hpc[g]
      BY <2>4 DEF Denied, Unheard, Finish, Goto, TypeOK
    <3>2. Rotating' \subseteq Rotating \ {h} /\ Holding' \subseteq Holding \ {h}
      BY <3>1 DEF Rotating, Holding, TypeOK
    <3>3. \A g \in Rotating \cup Holding : g \in Handlers
      BY DEF Rotating, Holding
    <3> QED  BY <2>1, <2>2, <2>3, <3>1, <3>2, <3>3, OnePlaceFrame
  <2>5. CASE ~(Denied(h) \/ Unheard(h))
    <3>1. UNCHANGED <<token, fresh>>
      BY <1>7, <2>5 DEF HandlerStep, load_refresh, load_session, ListUsed, ListNew, delete_session, Members,
           Purge, Unlist
    <3>2. Rotating' \subseteq Rotating /\ Holding' \subseteq Holding
      BY <1>7, <2>5 DEF HandlerStep, load_refresh, load_session, ListUsed, ListNew, delete_session, Members,
           Purge, Unlist, Goto, Rotating, Holding, TypeOK
    <3>3. \A g \in Rotating' : hpc'[g] \in {"load", "session", "mark"} => hpc[g] \in {"load", "session", "mark"}
      BY <1>7, <2>5 DEF HandlerStep, load_refresh, load_session, ListUsed, ListNew, delete_session, Members,
           Purge, Unlist, Goto, Rotating, TypeOK
    <3> QED  BY <2>1, <2>2, <2>3, <3>1, <3>2, <3>3, OnePlaceFrame
  <2> QED  BY <2>4, <2>5
<1>8. ASSUME NEW h \in Handlers, NEW n, ~Busy(h), hpc' = [hpc EXCEPT ![h] = "delete"],
             token' = [token EXCEPT ![h] = n], fresh' = fresh,
             UNCHANGED <<issued, refresh, parent, tab, inFlight, lost>>
      PROVE  OnePlaceEach'
  <2>1. Rotating' \subseteq Rotating \ {h} /\ Holding' \subseteq Holding
    BY <1>8 DEF Rotating, Holding, TypeOK
  <2>2. \A g \in Rotating' : token'[g] = token[g] /\ hpc'[g] = hpc[g]
    BY <1>8, <2>1 DEF Rotating, TypeOK
  <2> QED  BY <1>8, <2>1, <2>2, OnePlaceFrame
<1>9. ASSUME NEW h \in Handlers, NEW s \in Ids, logout(h, s)
      PROVE  OnePlaceEach'
  BY <1>8, <1>9 DEF logout, store, console, history
<1>10. ASSUME NEW q \in Requests, RetryLogout(q)
      PROVE  OnePlaceEach'
  BY <1>8, <1>10 DEF RetryLogout, store, history
<1>11. ASSUME UNCHANGED <<issued, parent, lost, hpc, token, fresh, inFlight>>, tab' \in {0, tab},
              \A n \in Tokens : refresh'[n] = "used" => refresh[n] = "used"
       PROVE  OnePlaceEach'
  <2>1. Rotating' = Rotating /\ Holding' = Holding
    BY <1>11 DEF Rotating, Holding
  <2> QED  BY <1>11, <2>1, OnePlaceFrame
<1>12. ASSUME NEW q \in Requests,
              Send(q) \/ SignOut(q) \/ Answered(q) \/ NoRefresh(q) \/ Retry(q)
       PROVE  OnePlaceEach'
  BY <1>11, <1>12 DEF Send, SignOut, Answered, NoRefresh, Retry, store, server, history
<1>13. ASSUME NEW q \in Requests, Refresh(q), inFlight # NoOne
       PROVE  OnePlaceEach'
  BY <1>11, <1>13 DEF Refresh, store, history
<1>14. CASE AccessExpires
  BY <1>11, <1>14 DEF AccessExpires, store, server, console, history
<1>15. ASSUME NEW s \in Ids, SessionExpires(s)
       PROVE  OnePlaceEach'
  BY <1>11, <1>15 DEF SessionExpires, server, console, history
<1>16. ASSUME NEW h \in Handlers, NEW n \in Tokens, Present(h, n)
       PROVE  OnePlaceEach'
  BY <1>16 DEF Present, OnePlaceEach
<1> QED
  BY <1>1, <1>2, <1>3, <1>4, <1>5, <1>6, <1>7, <1>9, <1>10, <1>12, <1>13, <1>14, <1>15, <1>16
     DEF Next, HandlerStep, RequestStep

-----------------------------------------------------------------------------
\* SessionInv holds at first, and no step leads out of it.
LEMMA SessionStep ==
  /\ Init => SessionInv
  /\ SessionInv /\ [Next]_vars => SessionInv'
<1>1. Init => SessionInv
  <2> SUFFICES ASSUME Init
               PROVE  SessionInv
    OBVIOUS
  <2> USE SessionBounds, NoOneIsNone DEF Init
  <2>1. TypeOK
    <3>1. deadAt \in [Handlers -> BOOLEAN] /\ lost \in BOOLEAN /\ replayed \in BOOLEAN
      OBVIOUS
    <3>2. started \in 0..MaxSessions /\ issued \in 0..MaxTokens /\ expired \in 0..MaxTokens /\ tab \in 0..issued
      OBVIOUS
    <3>3. 1 \in Tokens /\ 1 \in Ids /\ 0 \in 0..MaxTokens
      BY DEF Tokens, Ids
    <3> QED  BY <3>1, <3>2, <3>3 DEF TypeOK, HandlerPCs
  <2>2. References
    BY DEF References, Busy
  <2>3. Asking = {} /\ Rotating = {} /\ Holding = {}
    BY DEF Asking, Rotating, Holding
  <2>4. Reserved
    BY <2>3, FS_EmptySet DEF Reserved
  <2>5. DeadStaysDead /\ RevokedYieldsNothing
    BY DEF DeadStaysDead, RevokedYieldsNothing
  <2>6. FlightHasHandler
    BY DEF FlightHasHandler
  <2>7. OnePlaceEach
    BY <2>3 DEF OnePlaceEach
  <2> QED  BY <2>1, <2>2, <2>4, <2>5, <2>6, <2>7 DEF SessionInv
<1>2. SessionInv /\ Next => SessionInv'
  BY TypeStep, ReferencesStep, ReservedStep, DeadStep, FlightStep, OnePlaceStep DEF SessionInv
<1>3. SessionInv /\ UNCHANGED vars => SessionInv'
  <2> SUFFICES ASSUME SessionInv, UNCHANGED vars
               PROVE  SessionInv'
    OBVIOUS
  <2> USE DEF SessionInv, vars, store, server, clock, console, history
  <2>1. TypeOK'
    BY DEF TypeOK
  <2>2. References' /\ DeadStaysDead' /\ RevokedYieldsNothing'
    BY DEF References, DeadStaysDead, RevokedYieldsNothing, Busy, Session
  <2>3. Reserved'
    BY DEF Reserved, Asking, Rotating
  <2>4. FlightHasHandler'
    BY DEF FlightHasHandler, Busy
  <2>5. OnePlaceEach'
    BY DEF OnePlaceEach, Rotating, Holding, Untouched
  <2> QED  BY <2>1, <2>2, <2>3, <2>4, <2>5
<1> QED  BY <1>1, <1>2, <1>3

\* For any number of requests and handlers, and at every moment of their overlap,
\* the store is well formed, a session that is over gives out no token, and until
\* an answer is lost or a copy of a token shows up every token is in one place
\* (rotate, revoke, client.ts).
THEOREM SessionsAreSound == Spec => []SessionInv
BY SessionStep, PTL DEF Spec

\* A token that was exchanged, or is being exchanged, is never on record as unused.
Spent ==
  /\ \A m \in 1..issued : parent[m] \in Tokens => refresh[parent[m]] # "unused"
  /\ \A h \in Handlers : hpc[h] \in Exchanged => refresh[token[h]] # "unused"

\* Only a new token is written down as unused, and only marking its token takes a
\* rotation on to the exchange.
LEMMA SpentStep ==
  ASSUME TypeOK, References, Reserved, Spent, Next
  PROVE  Spent'
<1> USE SessionBounds DEF TypeOK, References, Spent, Busy, Exchanged
<1>1. ASSUME issued + 1 \in Tokens, issued' = issued + 1,
             refresh' = [refresh EXCEPT ![issued + 1] = "unused"],
             NEW p, parent' = [parent EXCEPT ![issued + 1] = p],
             p \in Tokens => p <= issued /\ refresh[p] # "unused",
             \A h \in Handlers : hpc'[h] \in Exchanged =>
                                  hpc[h] \in Exchanged /\ token'[h] = token[h]
      PROVE  Spent'
  <2>1. issued \in Nat /\ \A n \in Tokens : n <= issued => n # issued + 1
    BY DEF Tokens
  <2>2. \A n \in Tokens : n <= issued => refresh'[n] = refresh[n]
    BY <1>1, <2>1
  <2>3. ASSUME NEW m \in 1..issued', parent'[m] \in Tokens
        PROVE  refresh'[parent'[m]] # "unused"
    <3>1. CASE m = issued + 1
      BY <1>1, <2>2, <2>3, <3>1
    <3>2. CASE m # issued + 1
      <4>1. m \in 1..issued /\ parent'[m] = parent[m]
        BY <1>1, <2>1, <2>3, <3>2 DEF Tokens
      <4> QED  BY <2>2, <2>3, <4>1
    <3> QED  BY <3>1, <3>2
  <2>4. \A h \in Handlers : hpc'[h] \in Exchanged => refresh'[token'[h]] # "unused"
    BY <1>1, <2>2
  <2> QED  BY <2>3, <2>4
<1>2. ASSUME NEW h \in Handlers, _issue_refresh(h)
      PROVE  Spent'
  <2>1. issued + 1 \in Tokens
    BY <1>2, TokenLeft DEF _issue_refresh
  <2>2. token[h] <= issued /\ refresh[token[h]] # "unused"
    BY <1>2 DEF _issue_refresh
  <2>3. \A g \in Handlers : hpc'[g] \in Exchanged => hpc[g] \in Exchanged /\ token'[g] = token[g]
    BY <1>2 DEF _issue_refresh, Goto
  <2> QED  BY <1>1, <1>2, <2>1, <2>2, <2>3 DEF _issue_refresh
<1>3. CASE Login
  <2>1. issued + 1 \in Tokens
    BY <1>3, RoomLeft DEF Login
  <2>2. 0 \notin Tokens
    BY DEF Tokens
  <2> QED  BY <1>1, <1>3, <2>1, <2>2 DEF Login
<1>4. ASSUME UNCHANGED <<issued, parent>>,
             \A n \in Tokens : refresh'[n] = "unused" => refresh[n] = "unused",
             \A g \in Handlers : hpc'[g] \in Exchanged =>
                                  \/ hpc[g] \in Exchanged /\ token'[g] = token[g]
                                  \/ token'[g] \in Tokens /\ refresh'[token'[g]] = "used"
      PROVE  Spent'
  BY <1>4
<1>5. CASE ~Login /\ \A h \in Handlers : ~_issue_refresh(h)
  <2>1. UNCHANGED <<issued, parent>>
    BY <1>5, TokensFrame
  <2>2. ASSUME NEW h \in Handlers, HandlerStep(h)
        PROVE  Spent'
    <3>1. \A n \in Tokens : refresh'[n] = "unused" => refresh[n] = "unused"
      BY <1>5, <2>2 DEF HandlerStep, load_refresh, load_session, MarkUsed, ListUsed, ListNew,
           delete_session, Members, Purge, Unlist, Granted, Denied, Unheard, store
    <3>2. CASE Granted(h) \/ Denied(h) \/ Unheard(h)
      BY <1>4, <2>1, <3>1, <3>2 DEF Granted, Denied, Unheard, Finish, Goto
    <3>3. CASE MarkUsed(h)
      BY <1>4, <2>1, <3>1, <3>3 DEF MarkUsed, Goto
    <3>4. CASE ~(Granted(h) \/ Denied(h) \/ Unheard(h) \/ MarkUsed(h))
      <4>1. token' = token /\ \A g \in Handlers : hpc'[g] \in Exchanged => hpc[g] \in Exchanged
        BY <1>5, <2>2, <3>4 DEF HandlerStep, load_refresh, load_session, ListUsed, ListNew,
             delete_session, Members, Purge, Unlist, Goto
      <4> QED  BY <1>4, <2>1, <3>1, <4>1
    <3> QED  BY <3>2, <3>3, <3>4
  <2>3. ASSUME NEW h \in Handlers, NEW n, refresh' = refresh, token' = [token EXCEPT ![h] = n],
               hpc' = [hpc EXCEPT ![h] = "load"] \/ hpc' = [hpc EXCEPT ![h] = "delete"]
        PROVE  Spent'
    BY <1>4, <2>1, <2>3
  <2>4. ASSUME UNCHANGED <<hpc, token>>,
               \A n \in Tokens : refresh'[n] = "unused" => refresh[n] = "unused"
        PROVE  Spent'
    BY <1>4, <2>1, <2>4
  <2>5. ASSUME NEW h \in Handlers, NEW s \in Ids, logout(h, s)
        PROVE  Spent'
    BY <2>3, <2>5 DEF logout, store
  <2>6. ASSUME NEW h \in Handlers, NEW n \in Tokens, Present(h, n)
        PROVE  Spent'
    BY <2>3, <2>6 DEF Present, store
  <2>7. ASSUME NEW q \in Requests, Send(q) \/ RequestStep(q) \/ SignOut(q)
        PROVE  Spent'
    <3>1. CASE Refresh(q) /\ inFlight = NoOne
      BY <2>3, <3>1 DEF Refresh, store
    <3>2. CASE RetryLogout(q)
      BY <2>3, <3>2 DEF RetryLogout, store
    <3>3. CASE ~RetryLogout(q) /\ ~(Refresh(q) /\ inFlight = NoOne)
      <4>1. UNCHANGED <<hpc, token, refresh>>
        BY <2>7, <3>3 DEF RequestStep, Send, SignOut, Answered, Refresh, NoRefresh, Retry, store, server
      <4> QED  BY <2>4, <4>1
    <3> QED  BY <3>1, <3>2, <3>3
  <2>8. CASE AccessExpires \/ LoseAnswer \/ Reload \/ \E s \in Ids : SessionExpires(s)
    BY <2>4, <2>8 DEF AccessExpires, LoseAnswer, Reload, SessionExpires, store, server
  <2> QED  BY <1>5, <2>2, <2>5, <2>6, <2>7, <2>8 DEF Next
<1> QED  BY <1>2, <1>3, <1>5

\* A rotation never gets past the check of load_refresh with a token that was
\* exchanged before or that another rotation has marked, whoever presents it and
\* whatever was revoked, purged and written again (SessionService.rotate).
THEOREM ReuseNeverAccepted == Spec => ReuseIsRefused
<1>1. Init => Spent
  BY DEF Init, Spent, Exchanged
<1>2. SessionInv /\ Spent /\ [Next]_vars => Spent'
  <2>1. SessionInv /\ Spent /\ Next => Spent'
    BY SpentStep DEF SessionInv
  <2>2. Spent /\ UNCHANGED vars => Spent'
    BY DEF Spent, vars, store, server
  <2> QED  BY <2>1, <2>2
<1>3. SessionInv /\ Spent /\ [Next]_vars =>
        [\A h \in Handlers : (hpc[h] = "load" /\ hpc'[h] = "session") =>
           /\ \A m \in 1..issued : parent[m] # token[h]
           /\ \A g \in Handlers : token[g] = token[h] => hpc[g] \notin Exchanged]_vars
  <2> SUFFICES ASSUME SessionInv, Spent, Next,
                      NEW h \in Handlers, hpc[h] = "load", hpc'[h] = "session"
               PROVE  /\ \A m \in 1..issued : parent[m] # token[h]
                      /\ \A g \in Handlers : token[g] = token[h] => hpc[g] \notin Exchanged
    OBVIOUS
  <2> USE DEF SessionInv
  <2>1. hpc \in [Handlers -> HandlerPCs] /\ token[h] \in Tokens
        /\ refresh[token[h]] \in {"none", "unused", "used"}
    BY DEF TypeOK
  <2>2. PICK g \in Handlers : load_refresh(g)
    BY <2>1 DEF Next, HandlerStep, RequestStep, load_session, MarkUsed, ListUsed, _issue_refresh,
         ListNew, delete_session, Members, Purge, Unlist, Granted, Denied, Unheard, Finish, logout,
         Present, AccessExpires, SessionExpires, Login, Send, SignOut, Answered, Refresh, NoRefresh,
         Retry, RetryLogout, LoseAnswer, Reload, Goto, server
  <2>3. refresh[token[h]] = "unused"
    BY <2>1, <2>2 DEF load_refresh, Goto
  <2> QED  BY <2>1, <2>3 DEF Spent
<1> QED  BY <1>1, <1>2, <1>3, SessionsAreSound, PTL DEF Spec, ReuseIsRefused

\* The console is never taken for a thief as long as no answer was lost and nobody
\* else has its tokens: the token a refresh presents was not rotated before
\* (client.ts, SessionService.rotate).
THEOREM NeverAThief == Spec => []NoFalseAlarm
<1>1. Init => NoFalseAlarm
  BY DEF Init, NoFalseAlarm
<1>2. SessionInv /\ NoFalseAlarm /\ [Next]_vars => NoFalseAlarm'
  <2> SUFFICES ASSUME SessionInv, NoFalseAlarm, [Next]_vars
               PROVE  NoFalseAlarm'
    OBVIOUS
  <2>1. lost => lost'
    BY DEF Next, HandlerStep, RequestStep, load_refresh, load_session, MarkUsed, ListUsed, _issue_refresh,
         ListNew, delete_session, Members, Purge, Unlist, Granted, Denied, Unheard, logout,
         AccessExpires, SessionExpires, Login, Send, SignOut, Answered, Refresh, NoRefresh, Retry,
         RetryLogout, Present, LoseAnswer, Reload, history, vars
  <2>2. ASSUME NEW h \in Handlers, load_refresh(h), ~lost
        PROVE  ~replayed'
    <3>1. refresh[token[h]] # "used"
      BY <2>2 DEF SessionInv, OnePlaceEach, Rotating, load_refresh
    <3> QED  BY <2>2, <3>1 DEF load_refresh, NoFalseAlarm
  <2>3. CASE \A h \in Handlers : ~load_refresh(h)
    <3>1. replayed' = replayed
      BY <2>3 DEF Next, HandlerStep, RequestStep, load_session, MarkUsed, ListUsed, _issue_refresh,
           ListNew, delete_session, Members, Purge, Unlist, Granted, Denied, Unheard, logout,
           AccessExpires, SessionExpires, Login, Send, SignOut, Answered, Refresh, NoRefresh, Retry,
           RetryLogout, Present, LoseAnswer, Reload, history, vars
    <3> QED  BY <2>1, <3>1 DEF NoFalseAlarm
  <2> QED  BY <2>1, <2>2, <2>3 DEF NoFalseAlarm
<1> QED  BY <1>1, <1>2, SessionsAreSound, PTL DEF Spec
=============================================================================
