----------------------------- MODULE Connections -----------------------------
(***************************************************************************)
(* A user's connections to third-party accounts: the /connections pages    *)
(* that obtain and drop OAuth grants, the connection store, and the worker *)
(* that turns a stored connection into an access token.                    *)
(*                                                                         *)
(* One user with one browser; rows of different users share nothing.  The  *)
(* development modes without WorkOS or without KMS are left out.           *)
(*                                                                         *)
(* A token is known by the grant it belongs to; what else is told apart is *)
(* how far it is from its expiry: "fresh" is outside the refresh window,   *)
(* "near" inside it, "expired" past it, "never" is expires_at NULL.        *)
(***************************************************************************)
EXTENDS Integers, FiniteSets

CONSTANTS
  Providers,   \* provider slugs
  Refreshed,   \* providers whose tokens expire and whose action has a refresher
  Workers,     \* executions that may be under way at the same time
  MaxFlows,    \* bound on the redirects to a consent or login page
  MaxGrants,   \* bound on the grants the providers give
  NoRow        \* no row for the provider

ASSUME ConnectionsAssumption ==
  /\ "workos" \notin Providers
  /\ Refreshed \subseteq Providers
  /\ MaxFlows \in Nat
  /\ MaxGrants \in Nat
  /\ NoRow \notin [grant : 1 .. MaxGrants, offline : BOOLEAN,
                   age : {"fresh", "near", "expired", "never"}]

VARIABLES
  session,     \* the browser holds a valid session cookie
  cookie,      \* the oauth_state cookie; 0 if there is none
  flows,       \* redirects the user has not come back from
  issued,      \* state values issued so far (bounded by MaxFlows)
  row,         \* oauth_connections, by provider
  grants,      \* grants given so far (bounded by MaxGrants)
  live,        \* grants the provider still honours
  storing,     \* callbacks that have exchanged their code and not committed
  leaving,     \* progress of a disconnect of each provider
  target,      \* the grant that disconnect read; 0 if none
  dropped,     \* grants whose row a disconnect deleted
  wpc,         \* progress of each execution
  wProvider,   \* the provider it needs
  wToken,      \* the token data it holds
  wAged        \* its token has aged a step while it was in use

webVars    == <<session, cookie, flows, issued>>
storeVars  == <<row, grants, live, storing, leaving, target, dropped>>
workerVars == <<wpc, wProvider, wToken, wAged>>
vars == <<session, cookie, flows, issued, row, grants, live, storing, leaving, target,
          dropped, wpc, wProvider, wToken, wAged>>

----------------------------------------------------------------------------
(* Values *)

GrantIds == 1 .. MaxGrants
Ages     == {"fresh", "near", "expired", "never"}
Token    == [grant : GrantIds, offline : BOOLEAN, age : Ages]
Flow     == [to : Providers \union {"workos"}, state : 1 .. MaxFlows]

TypeOK ==
  /\ session \in BOOLEAN
  /\ cookie \in 0 .. MaxFlows
  /\ flows \subseteq Flow
  /\ issued \in 0 .. MaxFlows
  /\ row \in [Providers -> Token \union {NoRow}]
  /\ grants \in 0 .. MaxGrants
  /\ live \subseteq GrantIds
  /\ storing \subseteq [provider : Providers, token : Token]
  /\ leaving \in [Providers -> {"idle", "revoking", "deleting"}]
  /\ target \in [Providers -> 0 .. MaxGrants]
  /\ dropped \subseteq GrantIds
  /\ wpc \in [Workers -> {"idle", "verify", "verifyRefresh", "fetch", "fetchRefresh", "using"}]
  /\ wProvider \in [Workers -> Providers]
  /\ wToken \in [Workers -> Token \union {NoRow}]
  /\ wAged \in [Workers -> BOOLEAN]

Init ==
  /\ session = FALSE /\ cookie = 0 /\ flows = {} /\ issued = 0
  /\ row = [p \in Providers |-> NoRow]
  /\ grants = 0 /\ live = {} /\ storing = {} /\ dropped = {}
  /\ leaving = [p \in Providers |-> "idle"]
  /\ target = [p \in Providers |-> 0]
  /\ wpc = [w \in Workers |-> "idle"]
  /\ wProvider \in [Workers -> Providers]
  /\ wToken = [w \in Workers |-> NoRow]
  /\ wAged = [w \in Workers |-> FALSE]

----------------------------------------------------------------------------
(* The browser *)

\* A redirect to the page `to` with a new state value, kept in the one cookie
\* all flows share.
Redirect(to) ==
  /\ issued < MaxFlows
  /\ issued' = issued + 1
  /\ flows' = flows \union {[to |-> to, state |-> issued + 1]}
  /\ cookie' = issued + 1

\* _connections_login
Login ==
  /\ Redirect("workos")
  /\ UNCHANGED <<session, storeVars, workerVars>>

\* _github_connect, _slack_connect, _google_connect
Connect(p) ==
  /\ session
  /\ Redirect(p)
  /\ UNCHANGED <<session, storeVars, workerVars>>

\* Another flow has replaced the cookie since: "Invalid state".
StateMatches(f) == cookie \in {0, f.state}

\* _workos_auth_callback
LoggedIn(f) ==
  /\ f \in flows /\ f.to = "workos" /\ StateMatches(f)
  /\ session' = TRUE
  /\ cookie' = 0
  /\ flows' = flows \ {f}
  /\ UNCHANGED <<issued, storeVars, workerVars>>

\* The user turns back, or a callback answers with an error or sends the
\* browser to the login page: the code is lost, the cookie stays.
FlowEnds(f) ==
  /\ f \in flows
  /\ flows' = flows \ {f}
  /\ UNCHANGED <<session, cookie, issued, storeVars, workerVars>>

\* _connections_logout, or the session cookie's 24 hours are over.
Logout ==
  /\ session
  /\ session' = FALSE
  /\ UNCHANGED <<cookie, flows, issued, storeVars, workerVars>>

\* The state cookie's 10 minutes are over.
CookieExpires ==
  /\ cookie # 0
  /\ cookie' = 0
  /\ UNCHANGED <<session, flows, issued, storeVars, workerVars>>

----------------------------------------------------------------------------
(* The provider callbacks *)

\* _exchange_github_code, _exchange_slack_code, _exchange_google_code: only
\* Google's answer gets an expires_at, and it may lack a refresh token.
CallbackExchanges(f, offline) ==
  /\ f \in flows /\ f.to \in Providers /\ session /\ StateMatches(f)
  /\ grants < MaxGrants
  /\ grants' = grants + 1
  /\ live' = live \union {grants + 1}
  /\ storing' = storing \union
       {[provider |-> f.to,
         token |-> [grant |-> grants + 1, offline |-> offline,
                    age |-> IF f.to \in Refreshed THEN "fresh" ELSE "never"]]}
  /\ flows' = flows \ {f}
  /\ UNCHANGED <<session, cookie, issued, row, leaving, target, dropped, workerVars>>

\* ConnectionStore.upsert and the commit.
CallbackStores(h) ==
  /\ h \in storing
  /\ row' = [row EXCEPT ![h.provider] = h.token]
  /\ storing' = storing \ {h}
  /\ cookie' = 0
  /\ UNCHANGED <<session, flows, issued, grants, live, leaving, target, dropped, workerVars>>

\* The insert fails, or the server stops: a grant nobody remembers.
CallbackFails(h) ==
  /\ h \in storing
  /\ storing' = storing \ {h}
  /\ UNCHANGED <<webVars, row, grants, live, leaving, target, dropped, workerVars>>

----------------------------------------------------------------------------
(* _github_disconnect, _slack_disconnect, _google_disconnect *)

\* The row is read (no refresher); ConnectionMiss leads straight to the delete.
\* One disconnect of a provider at a time.
DisconnectReads(p) ==
  /\ session /\ leaving[p] = "idle"
  /\ leaving' = [leaving EXCEPT ![p] = IF row[p] = NoRow THEN "deleting" ELSE "revoking"]
  /\ target' = [target EXCEPT ![p] = IF row[p] = NoRow THEN 0 ELSE row[p].grant]
  /\ UNCHANGED <<webVars, row, grants, live, storing, dropped, workerVars>>

\* _revoke_github_token, _revoke_slack_token, _revoke_google_token: best effort,
\* errors are swallowed.
DisconnectRevokes(p) ==
  /\ leaving[p] = "revoking"
  /\ leaving' = [leaving EXCEPT ![p] = "deleting"]
  /\ live' \in {live, live \ {target[p]}}
  /\ UNCHANGED <<webVars, row, grants, storing, target, dropped, workerVars>>

\* ConnectionStore.delete, whatever the row is by now, and the commit.
DisconnectDeletes(p) ==
  /\ leaving[p] = "deleting"
  /\ leaving' = [leaving EXCEPT ![p] = "idle"]
  /\ target' = [target EXCEPT ![p] = 0]
  /\ row' = [row EXCEPT ![p] = NoRow]
  /\ dropped' = dropped \union {g \in GrantIds : row[p] # NoRow /\ row[p].grant = g}
  /\ UNCHANGED <<webVars, grants, live, storing, workerVars>>

\* The request ends early: its transaction rolls back.
DisconnectFails(p) ==
  /\ leaving[p] # "idle"
  /\ leaving' = [leaving EXCEPT ![p] = "idle"]
  /\ target' = [target EXCEPT ![p] = 0]
  /\ UNCHANGED <<webVars, row, grants, live, storing, dropped, workerVars>>

----------------------------------------------------------------------------
(* An execution: check_oauth_for_execute, then get_token, then the request *)

\* Faulty variant of NeedsRefresh: without the window.
NeedsRefreshExpired(p, t) == p \in Refreshed /\ t.age = "expired"

\* A refresher is given and _needs_refresh holds.
NeedsRefresh(p, t) == p \in Refreshed /\ t.age \in {"near", "expired"}

\* check_oauth_for_execute reads the row: without one the run fails with
\* MISSING_CONNECTION; an expired one is first refreshed by get_fresh_token.
WorkerChecks(w, p) ==
  /\ wpc[w] = "idle" /\ row[p] # NoRow
  /\ wpc' = [wpc EXCEPT ![w] = IF row[p].age = "expired" THEN "verify" ELSE "fetch"]
  /\ wProvider' = [wProvider EXCEPT ![w] = p]
  /\ UNCHANGED <<webVars, storeVars, wToken, wAged>>

\* Where get_fresh_token returns to: from the check to get_token, from
\* get_token to the action's request.
Return(s) == IF s \in {"verify", "verifyRefresh"} THEN "fetch" ELSE "using"

\* ConnectionStore.get_fresh_token loads and decrypts the row.
WorkerLoads(w) ==
  LET t == row[wProvider[w]] IN
  /\ wpc[w] \in {"verify", "fetch"} /\ t # NoRow
  /\ wToken' = [wToken EXCEPT ![w] = t]
  /\ wpc' = [wpc EXCEPT ![w] = IF ~NeedsRefresh(wProvider[w], t) THEN Return(@)
                               ELSE IF @ = "verify" THEN "verifyRefresh" ELSE "fetchRefresh"]
  /\ wAged' = [wAged EXCEPT ![w] = FALSE]
  /\ UNCHANGED <<webVars, storeVars, wProvider>>

\* The run ends before its request: MISSING_CONNECTION (the row has gone, or the
\* refresh of the check failed) or the exception of a refresh in get_token.
WorkerFails(w) ==
  /\ \/ wpc[w] \in {"verify", "fetch"} /\ row[wProvider[w]] = NoRow
     \/ wpc[w] \in {"verifyRefresh", "fetchRefresh"} /\ wToken[w].offline
  /\ wpc' = [wpc EXCEPT ![w] = "idle"]
  /\ wToken' = [wToken EXCEPT ![w] = NoRow]
  /\ UNCHANGED <<webVars, storeVars, wProvider, wAged>>

\* Faulty variant of RefreshedToken: the answer alone, which leaves out the
\* refresh token.
RefreshedTokenAnswerOnly(t) ==
  IF t.offline THEN [grant |-> t.grant, age |-> "fresh"] ELSE t

\* What the refresher returns: new data for a live grant; the old data, without
\* asking the provider, if there is no refresh token.
RefreshedToken(t) == IF t.offline THEN [t EXCEPT !.age = "fresh"] ELSE t

\* Faulty variant of WorkerRefreshes: the upsert is committed.
WorkerRefreshesCommitted(w) ==
  /\ wpc[w] \in {"verifyRefresh", "fetchRefresh"}
  /\ wToken[w].offline => wToken[w].grant \in live
  /\ wToken' = [wToken EXCEPT ![w] = RefreshedToken(@)]
  /\ wpc' = [wpc EXCEPT ![w] = Return(@)]
  /\ row' = [row EXCEPT ![wProvider[w]] = RefreshedToken(wToken[w])]
  /\ UNCHANGED <<webVars, grants, live, storing, leaving, target, dropped, wProvider, wAged>>

\* The refresher, then the upsert.  Both callers close the session without a
\* commit, which rolls the upsert back: the row stays as it is.
WorkerRefreshes(w) ==
  /\ wpc[w] \in {"verifyRefresh", "fetchRefresh"}
  /\ wToken[w].offline => wToken[w].grant \in live
  /\ wToken' = [wToken EXCEPT ![w] = RefreshedToken(@)]
  /\ wpc' = [wpc EXCEPT ![w] = Return(@)]
  /\ UNCHANGED <<webVars, storeVars, wProvider, wAged>>

\* The action's request to the provider is over.
WorkerUses(w) ==
  /\ wpc[w] = "using"
  /\ wpc' = [wpc EXCEPT ![w] = "idle"]
  /\ wToken' = [wToken EXCEPT ![w] = NoRow]
  /\ UNCHANGED <<webVars, storeVars, wProvider, wAged>>

----------------------------------------------------------------------------
(* The environment *)

\* The user withdraws a grant on the provider's own pages.
ProviderRevokes(g) ==
  /\ g \in live
  /\ live' = live \ {g}
  /\ UNCHANGED <<webVars, row, grants, storing, leaving, target, dropped, workerVars>>

Older(t) ==
  IF t = NoRow THEN t
  ELSE [t EXCEPT !.age = CASE @ = "fresh" -> "near"
                           [] @ \in {"near", "expired"} -> "expired"
                           [] OTHER -> @]

\* Time passes for the tokens of provider p, in the row and in the hands of an
\* execution.  The refresh window (300 s) is longer than an action's timeout
\* (30 s), so a token ages at most one step while it is in use.
TimePasses(p) ==
  LET holders == {w \in Workers : /\ wpc[w] \in {"verifyRefresh", "fetchRefresh", "using"}
                                  /\ wProvider[w] = p}
      users == {w \in holders : wpc[w] = "using"} IN
  /\ p \in Refreshed
  /\ \A w \in users : ~wAged[w]
  /\ row' = [row EXCEPT ![p] = Older(@)]
  /\ wToken' = [w \in Workers |-> IF w \in holders THEN Older(wToken[w]) ELSE wToken[w]]
  /\ wAged' = [w \in Workers |-> wAged[w] \/ w \in users]
  /\ UNCHANGED <<webVars, grants, live, storing, leaving, target, dropped, wpc, wProvider>>

----------------------------------------------------------------------------
BrowserStep ==
  \/ Login \/ Logout \/ CookieExpires
  \/ \E p \in Providers : Connect(p)
  \/ \E f \in flows : LoggedIn(f) \/ FlowEnds(f)

CallbackStep ==
  \/ \E f \in flows, o \in BOOLEAN : CallbackExchanges(f, o)
  \/ \E h \in storing : CallbackStores(h) \/ CallbackFails(h)

DisconnectStep(p) ==
  DisconnectReads(p) \/ DisconnectRevokes(p) \/ DisconnectDeletes(p) \/ DisconnectFails(p)

WorkerStep(w) ==
  \/ \E p \in Providers : WorkerChecks(w, p)
  \/ WorkerLoads(w) \/ WorkerFails(w) \/ WorkerRefreshes(w) \/ WorkerUses(w)

Next ==
  \/ BrowserStep
  \/ CallbackStep
  \/ \E p \in Providers : DisconnectStep(p) \/ TimePasses(p)
  \/ \E w \in Workers : WorkerStep(w)
  \/ \E g \in GrantIds : ProviderRevokes(g)

Spec == Init /\ [][Next]_vars
----------------------------------------------------------------------------
(* Properties *)

\* No request is made with a token past its expiry, however the check, the
\* refreshes, a reconnect and the passing of time interleave; the exception is
\* a grant that came without a refresh token (_make_google_refresher).
NoExpiredUse ==
  \A w \in Workers :
    wpc[w] = "using" /\ wToken[w].age = "expired" => ~wToken[w].offline

\* A connection the user dropped is not brought back by an execution that read
\* it before: only a new consent makes a new row.
DroppedStaysDropped ==
  \A p \in Providers : row[p] # NoRow => row[p].grant \notin dropped

\* A token that was refreshed is in the store when it is used: the row, as long
\* as it is of the same grant, does not expire before the token in use does.
\* Row and token age together, so only a refresh can set them apart
\* (get_fresh_token: "the new token data is upserted before returning").
RefreshIsStored ==
  \A w \in Workers :
    LET t == row[wProvider[w]] IN
    wpc[w] = "using" /\ wToken[w].offline /\ t # NoRow /\ t.grant = wToken[w].grant
      => (t.age = "expired" => wToken[w].age = "expired")
=============================================================================
