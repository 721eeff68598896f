------------------------------ MODULE Sessions ------------------------------
(***************************************************************************)
(* Sessions and rotating refresh tokens: SessionService on the Redis store *)
(* (backend/auth/sessions.py), and the console's HTTP client that renews   *)
(* its tokens after a 401 (frontend/src/api/client.ts).                    *)
(*                                                                         *)
(* The server runs HANDLERS, one call of rotate or revoke each; a step is  *)
(* one command to the store, and handlers interleave between commands.     *)
(* The console is one tab: several requests at once, one refresh at most.  *)
(* Tokens are numbered as they are issued; access token n is the one that  *)
(* came with refresh token n.                                              *)
(***************************************************************************)
EXTENDS Integers, FiniteSets

CONSTANTS
  Requests,     \* API requests the console has under way at a time
  Handlers,     \* calls of rotate or revoke the server works on at a time
  NoOne,        \* stands for no request and for no handler
  MaxSessions,  \* bound: logins
  MaxTokens,    \* bound: refresh tokens issued
  Lossy         \* may an answer to a refresh be lost, or a token be copied?

ASSUME NoOneIsNone == NoOne \notin Handlers \cup Requests
ASSUME SessionBounds == MaxSessions \in Nat \ {0} /\ MaxTokens \in Nat \ {0}
ASSUME LossyBoolean == Lossy \in BOOLEAN
ASSUME FiniteActors == IsFiniteSet(Requests) /\ IsFiniteSet(Handlers)

Ids    == 1..MaxSessions
Tokens == 1..MaxTokens

VARIABLES
  \* the store
  started,   \* sessions started so far
  sessions,  \* sessions on record
  issued,    \* refresh tokens issued so far
  refresh,   \* the record of each refresh token
  index,     \* the refresh tokens listed under each session
  \* the server
  hpc,       \* where each handler is
  token,     \* the refresh token it was given
  owner,     \* the session each token belongs to
  fresh,     \* the token it issued
  listed,    \* the tokens it is deleting
  deadAt,    \* history: was the session already over when it began?
  parent,    \* history: the token each one was rotated from, 0 for a login
  expired,   \* access tokens up to this one have expired
  over,      \* sessions whose lifetime is over
  \* the console
  tab,       \* the refresh token in the tab, 0 without one
  rpc,       \* where each request is
  carries,   \* the access token it was sent with, 0 without one or once answered
  inFlight,  \* inFlightRefresh: the handler of the refresh, or NoOne
  leaving,   \* the logout request of signOut, while the page is still there
  \* history
  lost,      \* has an answer to a refresh been lost, or a copy been presented?
  replayed   \* has a rotated token been presented again?

store   == <<started, sessions, issued, refresh, index>>
server  == <<hpc, token, owner, fresh, listed, deadAt, parent>>
clock   == <<expired, over>>
console == <<tab, rpc, carries, inFlight, leaving>>
history == <<lost, replayed>>
vars    == <<store, server, clock, console, history>>

HandlerPCs == {"idle", "load", "session", "mark", "list_used", "issue", "list_new",
               "granted", "denied",
               "delete", "members", "purge", "unlist"}

TypeOK ==
  /\ started \in 0..MaxSessions
  /\ sessions \subseteq 1..started
  /\ issued \in 0..MaxTokens
  /\ refresh \in [Tokens -> {"none", "unused", "used"}]
  /\ index \in [Ids -> SUBSET Tokens]
  /\ hpc \in [Handlers -> HandlerPCs]
  /\ token \in [Handlers -> Tokens]
  /\ owner \in [Tokens -> Ids]
  /\ fresh \in [Handlers -> Tokens]
  /\ listed \in [Handlers -> SUBSET Tokens]
  /\ deadAt \in [Handlers -> BOOLEAN]
  /\ parent \in [Tokens -> 0..MaxTokens]
  /\ expired \in 0..MaxTokens
  /\ over \subseteq Ids
  /\ tab \in 0..issued
  /\ rpc \in [Requests -> {"idle", "sent", "refused", "waiting", "retry"}]
  /\ carries \in [Requests -> 0..MaxTokens]
  /\ inFlight \in Handlers \cup {NoOne}
  /\ leaving \in Requests \cup {NoOne}
  /\ lost \in BOOLEAN
  /\ replayed \in BOOLEAN

Init ==
  /\ started = 0 /\ sessions = {} /\ issued = 0
  /\ refresh = [n \in Tokens |-> "none"]
  /\ index = [s \in Ids |-> {}]
  /\ hpc = [h \in Handlers |-> "idle"]
  /\ token = [h \in Handlers |-> 1]
  /\ owner = [n \in Tokens |-> 1]
  /\ fresh = [h \in Handlers |-> 1]
  /\ listed = [h \in Handlers |-> {}]
  /\ deadAt = [h \in Handlers |-> FALSE]
  /\ parent = [n \in Tokens |-> 0]
  /\ expired = 0 /\ over = {}
  /\ tab = 0 /\ leaving = NoOne
  /\ rpc = [q \in Requests |-> "idle"]
  /\ carries = [q \in Requests |-> 0]
  /\ inFlight = NoOne
  /\ lost = FALSE /\ replayed = FALSE

Active(q) == rpc[q] # "idle"
Busy(h)   == hpc[h] # "idle"

\* The requests that may still refresh, and the rotations that may still issue.
Asking   == {q \in Requests : rpc[q] \in {"sent", "refused"}}
Rotating == {h \in Handlers : hpc[h] \in {"load", "session", "mark", "list_used", "issue"}}

\* The bound on tokens, reserved before a request starts so that no handler
\* stops half way.
Room == issued + Cardinality(Asking) + Cardinality(Rotating) < MaxTokens

-----------------------------------------------------------------------------
(***************************************************************************)
(* SessionService.rotate, command by command.                              *)
(***************************************************************************)
Session(h) == owner[token[h]]

Goto(h, l) == hpc' = [hpc EXCEPT ![h] = l]

\* A handler that has answered forgets what it worked on.
Finish(h) ==
  /\ Goto(h, "idle")
  /\ token' = [token EXCEPT ![h] = 1]
  /\ fresh' = [fresh EXCEPT ![h] = 1]
  /\ deadAt' = [deadAt EXCEPT ![h] = FALSE]
  /\ UNCHANGED <<owner, listed, parent>>

\* load_refresh: unknown and expired tokens are refused, a used one is a replay.
load_refresh(h) ==
  /\ hpc[h] = "load"
  /\ Goto(h, IF refresh[token[h]] = "none" \/ Session(h) \in over THEN "denied"
             ELSE IF refresh[token[h]] = "used" THEN "delete" ELSE "session")
  /\ replayed' = (replayed \/ (refresh[token[h]] = "used" /\ Session(h) \notin over))
  /\ UNCHANGED <<store, token, owner, fresh, listed, deadAt, parent, clock, console,
                 lost>>

\* Variant for the mutants: the token alone is enough.
SessionUnchecked(h) ==
  /\ hpc[h] = "session"
  /\ Goto(h, "mark")
  /\ UNCHANGED <<store, token, owner, fresh, listed, deadAt, parent, clock, console,
                 history>>

\* load_session: the session must still be there.
load_session(h) ==
  /\ hpc[h] = "session"
  /\ Goto(h, IF Session(h) \in sessions THEN "mark" ELSE "denied")
  /\ UNCHANGED <<store, token, owner, fresh, listed, deadAt, parent, clock, console,
                 history>>

\* Variant for the mutants: the new token is issued and the old one forgotten.
MarkNothing(h) ==
  /\ hpc[h] = "mark"
  /\ Goto(h, "list_used")
  /\ UNCHANGED <<store, token, owner, fresh, listed, deadAt, parent, clock, console,
                 history>>

\* save_refresh writes the record, whether or not it is still there, and then
\* lists the token under its session.
MarkUsed(h) ==
  /\ hpc[h] = "mark"
  /\ refresh' = [refresh EXCEPT ![token[h]] = "used"]
  /\ Goto(h, "list_used")
  /\ UNCHANGED <<started, sessions, issued, index, token, owner, fresh, listed, deadAt,
                 parent, clock, console, history>>

ListUsed(h) ==
  /\ hpc[h] = "list_used"
  /\ index' = [index EXCEPT ![Session(h)] = @ \cup {token[h]}]
  /\ Goto(h, "issue")
  /\ UNCHANGED <<started, sessions, issued, refresh, token, owner, fresh, listed, deadAt,
                 parent, clock, console, history>>

_issue_refresh(h) ==
  /\ hpc[h] = "issue"
  /\ issued' = issued + 1
  /\ refresh' = [refresh EXCEPT ![issued + 1] = "unused"]
  /\ owner' = [owner EXCEPT ![issued + 1] = Session(h)]
  /\ parent' = [parent EXCEPT ![issued + 1] = token[h]]
  /\ fresh' = [fresh EXCEPT ![h] = issued + 1]
  /\ Goto(h, "list_new")
  /\ UNCHANGED <<started, sessions, index, token, listed, deadAt, clock, console, history>>

ListNew(h) ==
  /\ hpc[h] = "list_new"
  /\ index' = [index EXCEPT ![Session(h)] = @ \cup {fresh[h]}]
  /\ Goto(h, "granted")
  /\ UNCHANGED <<started, sessions, issued, refresh, token, owner, fresh, listed, deadAt,
                 parent, clock, console, history>>

-----------------------------------------------------------------------------
(***************************************************************************)
(* Revocation: the end of a replay and all of revoke (logout).             *)
(***************************************************************************)
delete_session(h) ==
  /\ hpc[h] = "delete"
  /\ sessions' = sessions \ {Session(h)}
  /\ Goto(h, "members")
  /\ UNCHANGED <<started, issued, refresh, index, token, owner, fresh, listed, deadAt,
                 parent, clock, console, history>>

\* delete_refreshes_for_session: the members, their records, then the list.
Members(h) ==
  /\ hpc[h] = "members"
  /\ listed' = [listed EXCEPT ![h] = index[Session(h)]]
  /\ Goto(h, "purge")
  /\ UNCHANGED <<store, token, owner, fresh, deadAt, parent, clock, console, history>>

Purge(h) ==
  /\ hpc[h] = "purge"
  /\ IF listed[h] = {}
     THEN Goto(h, "unlist") /\ UNCHANGED <<refresh, listed>>
     ELSE \E n \in listed[h] :
            /\ refresh' = [refresh EXCEPT ![n] = "none"]
            /\ listed' = [listed EXCEPT ![h] = @ \ {n}]
            /\ UNCHANGED hpc
  /\ UNCHANGED <<started, sessions, issued, index, token, owner, fresh, deadAt, parent,
                 clock, console, history>>

Unlist(h) ==
  /\ hpc[h] = "unlist"
  /\ index' = [index EXCEPT ![Session(h)] = {}]
  /\ Goto(h, "denied")
  /\ UNCHANGED <<started, sessions, issued, refresh, token, owner, fresh, listed, deadAt,
                 parent, clock, console, history>>

\* logout, by any client with an access token of session s that is still valid.
\* The handler names the session by its first token.  Bound: nobody logs out of
\* a session that is no longer on record.
logout(h, s) ==
  /\ ~Busy(h)
  /\ s \in sessions
  /\ \E n \in 1..issued : owner[n] = s /\ n > expired
  /\ hpc' = [hpc EXCEPT ![h] = "delete"]
  /\ token' = [token EXCEPT ![h] = CHOOSE n \in 1..issued : owner[n] = s /\ parent[n] = 0]
  /\ UNCHANGED <<store, owner, fresh, listed, deadAt, parent, clock, console, history>>

-----------------------------------------------------------------------------
(***************************************************************************)
(* Time: an access token, or a session with all its refresh tokens, ends.  *)
(***************************************************************************)
AccessExpires ==
  /\ expired < issued
  /\ expired' = expired + 1
  /\ UNCHANGED <<store, server, over, console, history>>

SessionExpires(s) ==
  /\ s <= started /\ s \notin over
  /\ over' = over \cup {s}
  /\ sessions' = sessions \ {s}
  /\ refresh' = [n \in Tokens |-> IF owner[n] = s THEN "none" ELSE refresh[n]]
  /\ index' = [index EXCEPT ![s] = {}]
  /\ UNCHANGED <<started, issued, server, expired, console, history>>

-----------------------------------------------------------------------------
(***************************************************************************)
(* The console.                                                            *)
(***************************************************************************)

\* callback and start_session: nobody knows the new session before its answer.
Login ==
  /\ tab = 0 /\ leaving = NoOne
  /\ \A q \in Requests : ~Active(q)
  /\ started < MaxSessions
  /\ Room
  /\ started' = started + 1
  /\ sessions' = sessions \cup {started + 1}
  /\ issued' = issued + 1
  /\ refresh' = [refresh EXCEPT ![issued + 1] = "unused"]
  /\ index' = [index EXCEPT ![started + 1] = {issued + 1}]
  /\ owner' = [owner EXCEPT ![issued + 1] = started + 1]
  /\ parent' = [parent EXCEPT ![issued + 1] = 0]
  /\ tab' = issued + 1
  /\ UNCHANGED <<hpc, token, fresh, listed, deadAt, clock, rpc, carries, inFlight,
                 leaving, history>>

Send(q) ==
  /\ ~Active(q)
  /\ tab # 0 /\ leaving = NoOne
  /\ Room
  /\ rpc' = [rpc EXCEPT ![q] = "sent"]
  /\ carries' = [carries EXCEPT ![q] = tab]
  /\ UNCHANGED <<store, server, clock, tab, inFlight, leaving, history>>

\* get_current_principal looks at the access token alone.
Answered(q) ==
  /\ rpc[q] = "sent"
  /\ rpc' = [rpc EXCEPT ![q] = IF carries[q] > expired THEN "idle" ELSE "refused"]
  /\ carries' = [carries EXCEPT ![q] = 0]
  /\ UNCHANGED <<store, server, clock, tab, inFlight, leaving, history>>

\* Variant for the mutants: every 401 starts a refresh of its own.
RefreshEach(q) ==
  /\ rpc[q] = "refused"
  /\ tab # 0
  /\ \E h \in Handlers :
       /\ ~Busy(h)
       /\ inFlight' = h
       /\ hpc' = [hpc EXCEPT ![h] = "load"]
       /\ token' = [token EXCEPT ![h] = tab]
       /\ deadAt' = [deadAt EXCEPT ![h] = owner[tab] \notin sessions]
  /\ rpc' = [rpc EXCEPT ![q] = "waiting"]
  /\ UNCHANGED <<store, owner, fresh, listed, parent, clock, tab, carries, leaving,
                 history>>

\* refresh(): join the refresh in flight, or start one with the tab's token.
Refresh(q) ==
  /\ rpc[q] = "refused"
  /\ tab # 0
  /\ IF inFlight # NoOne
     THEN UNCHANGED <<inFlight, hpc, token, deadAt>>
     ELSE \E h \in Handlers :
            /\ ~Busy(h)
            /\ inFlight' = h
            /\ hpc' = [hpc EXCEPT ![h] = "load"]
            /\ token' = [token EXCEPT ![h] = tab]
            /\ deadAt' = [deadAt EXCEPT ![h] = owner[tab] \notin sessions]
  /\ rpc' = [rpc EXCEPT ![q] = "waiting"]
  /\ UNCHANGED <<store, owner, fresh, listed, parent, clock, tab, carries, leaving,
                 history>>

\* Without a token there is nothing to refresh with: the 401 is the answer.
NoRefresh(q) ==
  /\ rpc[q] = "refused"
  /\ tab = 0
  /\ rpc' = [rpc EXCEPT ![q] = "idle"]
  /\ UNCHANGED <<store, server, clock, tab, carries, inFlight, leaving, history>>

\* Is q a logout request that now carries a valid access token?
Revokes(q) == q = leaving /\ tab > expired

\* Everyone who waits for the refresh goes on with its result.
Release(l) ==
  rpc' = [q \in Requests |-> IF rpc[q] = "waiting" THEN l ELSE rpc[q]]

\* Variant for the mutants: the waiting requests are not woken.
GrantedToNobody(h) ==
  /\ hpc[h] = "granted"
  /\ inFlight = h
  /\ tab' = fresh[h]
  /\ inFlight' = NoOne
  /\ Finish(h)
  /\ UNCHANGED <<store, clock, rpc, carries, leaving, history>>

Granted(h) ==
  /\ hpc[h] = "granted"
  /\ inFlight = h
  /\ tab' = fresh[h]
  /\ Release("retry")
  /\ inFlight' = NoOne
  /\ Finish(h)
  /\ UNCHANGED <<store, clock, carries, leaving, history>>

\* An error response clears the tab's tokens.
Denied(h) ==
  /\ hpc[h] = "denied"
  /\ inFlight = h
  /\ tab' = 0
  /\ Release("idle")
  /\ inFlight' = NoOne
  /\ Finish(h)
  /\ UNCHANGED <<store, clock, carries, leaving, history>>

\* The answer of a handler nobody waits for: a logout, or a lost refresh.
Unheard(h) ==
  /\ hpc[h] \in {"granted", "denied"}
  /\ inFlight # h
  /\ Finish(h)
  /\ UNCHANGED <<store, clock, console, history>>

\* The second attempt, whose answer is final.
Retry(q) ==
  /\ rpc[q] = "retry"
  /\ ~Revokes(q)
  /\ rpc' = [rpc EXCEPT ![q] = "idle"]
  /\ UNCHANGED <<store, server, clock, tab, carries, inFlight, leaving, history>>

\* The second attempt of a logout request.
RetryLogout(q) ==
  /\ rpc[q] = "retry"
  /\ Revokes(q)
  /\ \E h \in Handlers :
       /\ ~Busy(h)
       /\ hpc' = [hpc EXCEPT ![h] = "delete"]
       /\ token' = [token EXCEPT ![h] = tab]
  /\ rpc' = [rpc EXCEPT ![q] = "idle"]
  /\ UNCHANGED <<store, owner, fresh, listed, deadAt, parent, clock, tab, carries,
                 inFlight, leaving, history>>

\* The connection of the refresh breaks: fetch rejects, the tokens stay, and the
\* server goes on with what it received.  Bound: one loss.
LoseAnswer ==
  /\ Lossy /\ ~lost
  /\ inFlight # NoOne
  /\ inFlight' = NoOne
  /\ Release("idle")
  /\ lost' = TRUE
  /\ UNCHANGED <<store, server, clock, tab, carries, leaving, replayed>>

\* Somebody else who holds a copy of token n presents it.  Bound: once, and not in
\* a run that loses an answer.
Present(h, n) ==
  /\ Lossy /\ ~lost
  /\ ~Busy(h)
  /\ n <= issued
  /\ Room
  /\ hpc' = [hpc EXCEPT ![h] = "load"]
  /\ token' = [token EXCEPT ![h] = n]
  /\ deadAt' = [deadAt EXCEPT ![h] = owner[n] \notin sessions]
  /\ lost' = TRUE
  /\ UNCHANGED <<store, owner, fresh, listed, parent, clock, console, replayed>>

\* signOut clears the tab first: the logout request that follows carries no
\* token.  Its 401 finds one to refresh with only if a refresh already in flight
\* put it back.
SignOut(q) ==
  /\ tab # 0 /\ leaving = NoOne
  /\ ~Active(q)
  /\ Room
  /\ tab' = 0
  /\ leaving' = q
  /\ rpc' = [rpc EXCEPT ![q] = "sent"]
  /\ carries' = [carries EXCEPT ![q] = 0]
  /\ UNCHANGED <<store, server, clock, inFlight, lost, replayed>>

\* window.location.assign, or the analyst: the page and everything it waited for
\* is gone, the tokens in the tab's storage are not.
Reload ==
  /\ leaving # NoOne \/ (Lossy /\ ~lost)
  /\ leaving' = NoOne
  /\ rpc' = [q \in Requests |-> "idle"]
  /\ carries' = [q \in Requests |-> 0]
  /\ inFlight' = NoOne
  /\ lost' = (lost \/ (inFlight # NoOne /\ tab # 0))
  /\ UNCHANGED <<store, server, clock, tab, replayed>>

-----------------------------------------------------------------------------
HandlerStep(h) ==
  \/ load_refresh(h) \/ load_session(h) \/ MarkUsed(h) \/ ListUsed(h)
  \/ _issue_refresh(h) \/ ListNew(h)
  \/ delete_session(h) \/ Members(h) \/ Purge(h) \/ Unlist(h)
  \/ Granted(h) \/ Denied(h) \/ Unheard(h)

RequestStep(q) ==
  Answered(q) \/ Refresh(q) \/ NoRefresh(q) \/ Retry(q) \/ RetryLogout(q)

Next ==
  \/ \E h \in Handlers : HandlerStep(h)
  \/ \E h \in Handlers, s \in Ids : logout(h, s)
  \/ \E h \in Handlers, n \in Tokens : Present(h, n)
  \/ AccessExpires
  \/ \E s \in Ids : SessionExpires(s)
  \/ Login
  \/ \E q \in Requests : Send(q) \/ RequestStep(q)
  \/ \E q \in Requests : SignOut(q)
  \/ LoseAnswer \/ Reload

Spec == Init /\ [][Next]_vars

\* The server works on what it has begun, requests are answered, and a page that
\* is being left goes away.  Nobody has to log in, send, sign out or expire.
FairSpec ==
  /\ Spec
  /\ \A h \in Handlers : WF_vars(HandlerStep(h))
  /\ \A q \in Requests : WF_vars(RequestStep(q))
  /\ WF_vars(leaving # NoOne /\ Reload)

-----------------------------------------------------------------------------
\* The rotations that have marked their token.
Exchanged == {"list_used", "issue", "list_new", "granted"}

\* Reuse is detected: a rotation gets past load_refresh only with a token that was
\* not exchanged before, by whomever, and that no rotation has marked.  So two
\* tokens come from one only when both rotations read it before either marked it
\* (rotate; sessions.py speaks of single use without that exception).
ReuseIsRefused ==
  [][\A h \in Handlers : (hpc[h] = "load" /\ hpc'[h] = "session") =>
       /\ \A m \in 1..issued : parent[m] # token[h]
       /\ \A g \in Handlers : token[g] = token[h] => hpc[g] \notin Exchanged]_vars

\* The console never looks like a thief: as long as no answer was lost and nobody
\* else has its tokens, it does not present a rotated one, however many requests
\* meet a 401 at once (client.ts).
NoFalseAlarm == replayed => lost

\* A rotation that begins after its session was revoked or expired issues nothing,
\* whatever records of the session are left or written again.
RevokedYieldsNothing ==
  \A h \in Handlers :
    hpc[h] \in {"mark", "list_used", "issue", "list_new", "granted"} => ~deadAt[h]

(***************************************************************************)
(* Why, as parts of one inductive invariant.                               *)
(***************************************************************************)

\* Tokens, sessions and handlers refer to one another within what was issued and
\* started, and every session has a first token.
References ==
  /\ \A h \in Handlers : Busy(h) => token[h] <= issued
  /\ \A h \in Handlers : hpc[h] \in {"list_new", "granted"} => fresh[h] <= issued
  /\ \A n \in 1..issued : owner[n] <= started /\ parent[n] <= issued
  /\ \A s \in 1..started : \E n \in 1..issued : owner[n] = s /\ parent[n] = 0

\* A token is left for everyone who may still be given one.
Reserved == issued + Cardinality(Asking) + Cardinality(Rotating) <= MaxTokens

\* A session that was over when a handler began stays over.
DeadStaysDead == \A h \in Handlers : deadAt[h] => Busy(h) /\ Session(h) \notin sessions

\* The refresh in flight has a handler, and the tab its token, unless it was signed
\* out meanwhile and the page is about to go.
FlightHasHandler ==
  inFlight # NoOne => /\ Busy(inFlight)
                      /\ tab # token[inFlight] => tab = 0 /\ leaving # NoOne

\* The handlers whose new token is on its way to the console.
Holding == {h \in Handlers : hpc[h] \in {"list_new", "granted"}}

\* Nobody has rotated token n, or is about to.
Untouched(n) ==
  /\ refresh[n] # "used"
  /\ \A m \in 1..issued : parent[m] # n
  /\ \A h \in Rotating : token[h] # n

\* Until an answer is lost or a copy shows up, each token is in one place: rotations
\* work on different tokens that have no successor yet, and the token of the tab,
\* and the ones on their way to it, are untouched.
OnePlaceEach ==
  lost \/
    /\ \A h \in Rotating : \A m \in 1..issued : parent[m] # token[h]
    /\ \A h \in Rotating : hpc[h] \in {"load", "session", "mark"} => refresh[token[h]] # "used"
    /\ \A g, h \in Rotating : token[g] = token[h] => g = h
    /\ tab # 0 /\ inFlight = NoOne => Untouched(tab)
    /\ \A h \in Holding : Untouched(fresh[h]) /\ fresh[h] # tab
    /\ \A g, h \in Holding : fresh[g] = fresh[h] => g = h

\* At every moment of any overlap of handlers and requests: the store is well
\* formed, a session that is over gives out no token (rotate, revoke), and until an
\* answer is lost or a copy shows up every token is in one place.  No step leads out
\* of it.
SessionInv ==
  /\ TypeOK
  /\ References
  /\ Reserved
  /\ DeadStaysDead
  /\ RevokedYieldsNothing
  /\ FlightHasHandler
  /\ OnePlaceEach

\* Every request is answered, those that wait for another one's refresh included.
RequestsAnswered == \A q \in Requests : Active(q) ~> ~Active(q)
=============================================================================
