-------------------------- MODULE ConnectionsProofs --------------------------
(***************************************************************************)
(* Proofs about Connections, for any number of providers, executions,      *)
(* redirects and grants.                                                   *)
(***************************************************************************)
EXTENDS Connections, TLAPS

\* An execution that is refreshing or using a token holds one; while it is
\* refreshing, its provider has a refresher and the use of the token has not begun.
Holds(w) ==
  /\ wpc[w] \in {"verifyRefresh", "fetchRefresh", "using"} => wToken[w] \in Token
  /\ wpc[w] \in {"verifyRefresh", "fetchRefresh"} => wProvider[w] \in Refreshed /\ ~wAged[w]

\* Only tokens of providers with a refresher expire.
OnlyRefreshedExpire ==
  /\ \A p \in Providers \ Refreshed : row[p] # NoRow => row[p].age = "never"
  /\ \A h \in storing : h.provider \notin Refreshed => h.token.age = "never"
  /\ \A w \in Workers :
       wpc[w] = "using" /\ wProvider[w] \notin Refreshed => wToken[w].age = "never"

\* A token in use that can be refreshed was outside the window when the request
\* began, and has aged by at most one step since.
InUse(w) ==
  wpc[w] = "using" /\ wToken[w].offline =>
    \/ wToken[w].age \in {"fresh", "never"}
    \/ wToken[w].age = "near" /\ wAged[w]

\* A grant is in one place: in the row of its provider, in the hands of a
\* callback, or dropped.
GrantInOnePlace ==
  /\ dropped \subseteq 1 .. grants
  /\ \A p \in Providers : row[p] # NoRow =>
       /\ row[p].grant <= grants /\ row[p].grant \notin dropped
       /\ \A q \in Providers : row[q] # NoRow /\ row[q].grant = row[p].grant => q = p
       /\ \A h \in storing : h.token.grant # row[p].grant
  /\ \A h \in storing :
       /\ h.token.grant <= grants /\ h.token.grant \notin dropped
       /\ \A g \in storing : g.token.grant = h.token.grant => g = h

\* The inductive invariant.
IInv ==
  /\ TypeOK
  /\ OnlyRefreshedExpire
  /\ \A w \in Workers : Holds(w) /\ InUse(w)
  /\ GrantInOnePlace

----------------------------------------------------------------------------
\* A token that is aged or refreshed is a token of the same grant.
LEMMA TokenOps ==
  ASSUME NEW t \in Token
  PROVE  /\ t # NoRow
         /\ Older(t) \in Token /\ Older(t).grant = t.grant /\ Older(t).offline = t.offline
         /\ t.age = "never" => Older(t).age = "never"
         /\ t.age = "fresh" => Older(t).age = "near"
         /\ RefreshedToken(t) \in Token
         /\ t.offline => RefreshedToken(t).age = "fresh"
         /\ RefreshedToken(t).offline = t.offline
<1>1. t # NoRow
  BY ConnectionsAssumption DEF Token, Ages, GrantIds
<1>2. /\ Older(t) \in Token /\ Older(t).grant = t.grant /\ Older(t).offline = t.offline
      /\ t.age = "never" => Older(t).age = "never"
      /\ t.age = "fresh" => Older(t).age = "near"
  BY <1>1 DEF Older, Token, Ages
<1>3. /\ RefreshedToken(t) \in Token
      /\ t.offline => RefreshedToken(t).age = "fresh"
      /\ RefreshedToken(t).offline = t.offline
  BY DEF RefreshedToken, Token, Ages
<1> QED
  BY <1>1, <1>2, <1>3

\* Nobody has connected and nothing is under way.
LEMMA InitInv == Init => IInv
<1> SUFFICES ASSUME Init PROVE IInv
  OBVIOUS
<1> USE ConnectionsAssumption DEF Init
<1>1. session \in BOOLEAN /\ wAged \in [Workers -> BOOLEAN]
  OBVIOUS
<1>2. TypeOK
  BY <1>1 DEF TypeOK
<1>3. OnlyRefreshedExpire /\ GrantInOnePlace
  BY DEF OnlyRefreshedExpire, GrantInOnePlace
<1>4. \A w \in Workers : Holds(w) /\ InUse(w)
  BY DEF Holds, InUse
<1> QED
  BY <1>2, <1>3, <1>4 DEF IInv

\* What the browser does touches neither the store nor an execution.
LEMMA BrowserInv ==
  ASSUME IInv, BrowserStep
  PROVE  IInv'
<1>1. UNCHANGED <<storeVars, workerVars>>
  BY DEF BrowserStep, Login, Logout, CookieExpires, Connect, LoggedIn, FlowEnds, Redirect
<1>2. session' \in BOOLEAN
  <2>1. session' \in {session, TRUE, FALSE}
    BY Zenon DEF BrowserStep, Login, Logout, CookieExpires, Connect, LoggedIn, FlowEnds, Redirect
  <2> QED
    BY <2>1, Zenon DEF IInv, TypeOK
<1>3. cookie' \in 0 .. MaxFlows /\ flows' \subseteq Flow /\ issued' \in 0 .. MaxFlows
  BY ConnectionsAssumption
  DEF IInv, TypeOK, Flow, BrowserStep, Login, Logout, CookieExpires, Connect, LoggedIn, FlowEnds,
      Redirect
<1>4. TypeOK'
  BY <1>1, <1>2, <1>3 DEF IInv, TypeOK, storeVars, workerVars
<1> QED
  BY <1>1, <1>4 DEF IInv, OnlyRefreshedExpire, Holds, InUse, GrantInOnePlace, storeVars, workerVars

\* A callback stores a grant that is new, or loses it.
LEMMA CallbackInv ==
  ASSUME IInv, CallbackStep
  PROVE  IInv'
<1> USE ConnectionsAssumption DEF IInv, TypeOK, workerVars, webVars
<1>1. ASSUME NEW f \in flows, NEW o \in BOOLEAN, CallbackExchanges(f, o)
      PROVE  IInv'
  <2> DEFINE t == [grant |-> grants + 1, offline |-> o,
                   age |-> IF f.to \in Refreshed THEN "fresh" ELSE "never"]
             h == [provider |-> f.to, token |-> t]
  <2>1. t \in Token /\ h \in [provider : Providers, token : Token]
    BY <1>1 DEF CallbackExchanges, Token, GrantIds, Ages
  <2>2. storing' = storing \union {h}
    BY <1>1 DEF CallbackExchanges
  <2>3. TypeOK'
    BY <1>1, <2>1, <2>2 DEF CallbackExchanges, GrantIds
  <2>4. OnlyRefreshedExpire' /\ \A w \in Workers : Holds(w)' /\ InUse(w)'
    BY <1>1, <2>2 DEF CallbackExchanges, OnlyRefreshedExpire, Holds, InUse
  <2>5. GrantInOnePlace'
    <3>1. \A g \in storing : g.token \in Token /\ g.token.grant \in Int
      BY DEF Token, GrantIds
    <3>2. \A p \in Providers : row[p] # NoRow => row[p].grant \in Int
      BY DEF Token, GrantIds
    <3>3. h.token.grant = grants + 1 /\ grants' = grants + 1 /\ row' = row /\ dropped' = dropped
      BY <1>1 DEF CallbackExchanges
    <3> HIDE DEF h, t
    <3> QED
      BY <2>2, <3>1, <3>2, <3>3 DEF GrantInOnePlace
  <2> QED
    BY <2>3, <2>4, <2>5
<1>2. ASSUME NEW h \in storing, CallbackStores(h)
      PROVE  IInv'
  <2>1. TypeOK'
    BY <1>2 DEF CallbackStores
  <2>2. OnlyRefreshedExpire' /\ \A w \in Workers : Holds(w)' /\ InUse(w)'
    BY <1>2 DEF CallbackStores, OnlyRefreshedExpire, Holds, InUse
  <2>3. GrantInOnePlace'
    BY <1>2 DEF CallbackStores, GrantInOnePlace
  <2> QED
    BY <2>1, <2>2, <2>3
<1>3. ASSUME NEW h \in storing, CallbackFails(h)
      PROVE  IInv'
  BY <1>3 DEF CallbackFails, OnlyRefreshedExpire, Holds, InUse, GrantInOnePlace
<1> QED
  BY <1>1, <1>2, <1>3 DEF CallbackStep

\* A disconnect moves a grant from the row to the dropped ones.
LEMMA DisconnectInv ==
  ASSUME IInv, NEW p \in Providers, DisconnectStep(p)
  PROVE  IInv'
<1> USE ConnectionsAssumption DEF IInv, TypeOK, workerVars, webVars
<1>1. CASE DisconnectReads(p)
  <2>1. \A q \in Providers : row[q] # NoRow => row[q].grant \in 1 .. MaxGrants
    BY DEF Token, GrantIds
  <2>2. TypeOK'
    BY <1>1, <2>1 DEF DisconnectReads
  <2> QED
    BY <1>1, <2>2 DEF DisconnectReads, OnlyRefreshedExpire, Holds, InUse, GrantInOnePlace
<1>2. CASE DisconnectRevokes(p) \/ DisconnectFails(p)
  <2>1. TypeOK'
    BY <1>2 DEF DisconnectRevokes, DisconnectFails
  <2> QED
    BY <1>2, <2>1
    DEF DisconnectRevokes, DisconnectFails, OnlyRefreshedExpire, Holds, InUse, GrantInOnePlace
<1>3. CASE DisconnectDeletes(p)
  <2>1. TypeOK'
    BY <1>3 DEF DisconnectDeletes
  <2>2. OnlyRefreshedExpire' /\ \A w \in Workers : Holds(w)' /\ InUse(w)'
    BY <1>3 DEF DisconnectDeletes, OnlyRefreshedExpire, Holds, InUse
  <2>3. GrantInOnePlace'
    <3>1. CASE row[p] = NoRow
      BY <1>3, <3>1 DEF DisconnectDeletes, GrantInOnePlace
    <3>2. CASE row[p] # NoRow
      <4>1. row[p].grant \in GrantIds /\ row[p].grant \in 1 .. grants
        BY <3>2 DEF GrantInOnePlace, GrantIds, Token
      <4>2. dropped' = dropped \union {row[p].grant}
        BY <1>3, <3>2, <4>1 DEF DisconnectDeletes
      <4> QED
        BY <1>3, <3>2, <4>1, <4>2 DEF DisconnectDeletes, GrantInOnePlace
    <3> QED
      BY <3>1, <3>2
  <2> QED
    BY <2>1, <2>2, <2>3
<1> QED
  BY <1>1, <1>2, <1>3 DEF DisconnectStep

\* An execution reads the store and never writes it.
LEMMA WorkerInv ==
  ASSUME IInv, NEW w \in Workers, WorkerStep(w)
  PROVE  IInv'
<1> USE ConnectionsAssumption DEF IInv, TypeOK
<1>0. UNCHANGED <<webVars, storeVars>>
  BY DEF WorkerStep, WorkerChecks, WorkerLoads, WorkerFails, WorkerRefreshes, WorkerUses
<1>1. GrantInOnePlace'
  BY <1>0 DEF GrantInOnePlace, storeVars
<1>2. ASSUME NEW p \in Providers, WorkerChecks(w, p) PROVE IInv'
  BY <1>0, <1>1, <1>2 DEF WorkerChecks, OnlyRefreshedExpire, Holds, InUse, webVars, storeVars
<1>3. CASE WorkerFails(w) \/ WorkerUses(w)
  BY <1>0, <1>1, <1>3 DEF WorkerFails, WorkerUses, OnlyRefreshedExpire, Holds, InUse, webVars, storeVars
<1>4. CASE WorkerLoads(w)
  <2> DEFINE t == row[wProvider[w]]
  <2>1. t \in Token /\ wProvider[w] \in Providers
    BY <1>4 DEF WorkerLoads
  <2>2. /\ wToken' = [wToken EXCEPT ![w] = t] /\ wAged' = [wAged EXCEPT ![w] = FALSE]
        /\ wProvider' = wProvider
        /\ wpc'[w] \in {"verifyRefresh", "fetchRefresh", "fetch", "using"}
        /\ wpc' \in [Workers -> {"idle", "verify", "verifyRefresh", "fetch", "fetchRefresh", "using"}]
        /\ \A x \in Workers \ {w} : wpc'[x] = wpc[x]
        /\ wpc'[w] = "using" => ~NeedsRefresh(wProvider[w], t)
        /\ wpc'[w] \in {"verifyRefresh", "fetchRefresh"} => NeedsRefresh(wProvider[w], t)
    BY <1>4 DEF WorkerLoads, Return
  <2>3. TypeOK'
    BY <1>0, <2>1, <2>2 DEF webVars, storeVars
  <2>4. t.age \in Ages /\ (wProvider[w] \notin Refreshed => t.age = "never")
    BY <2>1, TokenOps DEF Token, OnlyRefreshedExpire
  <2>5. OnlyRefreshedExpire'
    BY <1>0, <2>1, <2>2, <2>4 DEF OnlyRefreshedExpire, storeVars
  <2>6. \A x \in Workers : Holds(x)'
    BY <2>1, <2>2 DEF Holds, NeedsRefresh
  <2>7. \A x \in Workers : InUse(x)'
    BY <2>1, <2>2, <2>4 DEF InUse, NeedsRefresh, Ages
  <2> QED
    BY <1>1, <2>3, <2>5, <2>6, <2>7
<1>5. CASE WorkerRefreshes(w)
  <2> DEFINE t == wToken[w]
  <2>1. t \in Token /\ wProvider[w] \in Refreshed /\ ~wAged[w]
    BY <1>5 DEF WorkerRefreshes, Holds
  <2>2. /\ wToken' = [wToken EXCEPT ![w] = RefreshedToken(t)]
        /\ wpc' \in [Workers -> {"idle", "verify", "verifyRefresh", "fetch", "fetchRefresh", "using"}]
        /\ wpc'[w] \in {"fetch", "using"}
        /\ \A x \in Workers \ {w} : wpc'[x] = wpc[x]
        /\ wProvider' = wProvider /\ wAged' = wAged
    BY <1>5 DEF WorkerRefreshes, Return
  <2>3. RefreshedToken(t) \in Token /\ (t.offline => RefreshedToken(t).age = "fresh")
        /\ RefreshedToken(t).offline = t.offline
    BY <2>1, TokenOps
  <2>4. TypeOK'
    BY <1>0, <2>2, <2>3 DEF webVars, storeVars
  <2>5. OnlyRefreshedExpire'
    BY <1>0, <2>1, <2>2, <2>3 DEF OnlyRefreshedExpire, storeVars
  <2>6. \A x \in Workers : Holds(x)' /\ InUse(x)'
    BY <2>2, <2>3 DEF Holds, InUse
  <2> QED
    BY <1>1, <2>4, <2>5, <2>6
<1> QED
  BY <1>2, <1>3, <1>4, <1>5 DEF WorkerStep

\* Time ages a token in use by one step at most.
LEMMA TimeInv ==
  ASSUME IInv, NEW p \in Providers, TimePasses(p)
  PROVE  IInv'
<1> USE ConnectionsAssumption DEF IInv, TypeOK
<1> DEFINE holders == {w \in Workers : /\ wpc[w] \in {"verifyRefresh", "fetchRefresh", "using"}
                                       /\ wProvider[w] = p}
           users == {w \in holders : wpc[w] = "using"}
<1>1. /\ p \in Refreshed
      /\ \A w \in users : ~wAged[w]
      /\ row' = [row EXCEPT ![p] = Older(@)]
      /\ \A w \in Workers : wToken'[w] = IF w \in holders THEN Older(wToken[w]) ELSE wToken[w]
      /\ \A w \in Workers : wAged'[w] = (wAged[w] \/ w \in users)
      /\ UNCHANGED <<webVars, grants, live, storing, leaving, target, dropped, wpc, wProvider>>
  BY DEF TimePasses
<1>2. \A w \in holders : wToken[w] \in Token
  BY DEF Holds
<1>3. Older(NoRow) = NoRow
  BY DEF Older
<1>4. \A q \in Providers : row'[q] = (IF q = p THEN Older(row[q]) ELSE row[q])
  BY <1>1
<1>5. \A q \in Providers : /\ row'[q] \in Token \union {NoRow}
                           /\ row'[q] # NoRow => row[q] # NoRow /\ row'[q].grant = row[q].grant
  BY <1>3, <1>4, TokenOps
<1>6. TypeOK'
  <2>1. row' \in [Providers -> Token \union {NoRow}]
    BY <1>1, <1>5
  <2>2. wToken' \in [Workers -> Token \union {NoRow}]
    BY <1>2, TokenOps DEF TimePasses
  <2>3. wAged' \in [Workers -> BOOLEAN]
    BY DEF TimePasses
  <2> QED
    BY <1>1, <2>1, <2>2, <2>3 DEF webVars
<1>7. OnlyRefreshedExpire'
  BY <1>1, <1>4 DEF OnlyRefreshedExpire
<1>8. \A w \in Workers : Holds(w)'
  BY <1>1, <1>2, TokenOps DEF Holds
<1>9. \A w \in Workers : InUse(w)'
  <2> SUFFICES ASSUME NEW w \in Workers, wpc[w] = "using", wToken'[w].offline
               PROVE  \/ wToken'[w].age \in {"fresh", "never"}
                      \/ wToken'[w].age = "near" /\ wAged'[w]
    BY <1>1 DEF InUse
  <2>1. CASE w \in users
    <3>1. wToken'[w] = Older(wToken[w]) /\ wAged'[w] /\ ~wAged[w]
      BY <1>1, <2>1
    <3>2. wToken[w].offline /\ wToken[w].age \in {"fresh", "never"}
      BY <1>2, <2>1, <3>1, TokenOps DEF InUse
    <3> QED
      BY <1>2, <2>1, <3>1, <3>2, TokenOps
  <2>2. CASE w \notin users
    <3>1. wToken'[w] = wToken[w] /\ (wAged[w] => wAged'[w])
      BY <1>1, <2>2
    <3> QED
      BY <3>1 DEF InUse
  <2> QED
    BY <2>1, <2>2
<1>10. GrantInOnePlace'
  BY <1>1, <1>5 DEF GrantInOnePlace
<1> QED
  BY <1>6, <1>7, <1>8, <1>9, <1>10

\* The invariant is inductive.
LEMMA NextInv == IInv /\ [Next]_vars => IInv'
<1> SUFFICES ASSUME IInv, [Next]_vars PROVE IInv'
  OBVIOUS
<1>1. CASE UNCHANGED vars
  BY <1>1 DEF vars, IInv, TypeOK, OnlyRefreshedExpire, Holds, InUse, GrantInOnePlace
<1>2. ASSUME NEW g \in GrantIds, ProviderRevokes(g) PROVE IInv'
  BY <1>2 DEF ProviderRevokes, webVars, workerVars, IInv, TypeOK, OnlyRefreshedExpire, Holds,
              InUse, GrantInOnePlace
<1> QED
  BY <1>1, <1>2, BrowserInv, CallbackInv, DisconnectInv, WorkerInv, TimeInv DEF Next

\* The invariant holds throughout.
THEOREM ConnectionsInvariance == Spec => []IInv
  BY InitInv, NextInv, PTL DEF Spec

\* Every variable keeps its type: an execution that refreshes holds a token.
THEOREM ConnectionsTypeCorrect == Spec => []TypeOK
<1>1. IInv => TypeOK
  BY DEF IInv
<1> QED
  BY <1>1, ConnectionsInvariance, PTL

\* No request is made with a token past its expiry that could be refreshed.
THEOREM NeverExpired == Spec => []NoExpiredUse
<1>1. IInv => NoExpiredUse
  BY DEF IInv, InUse, Holds, Token, NoExpiredUse
<1> QED
  BY <1>1, ConnectionsInvariance, PTL

\* No execution brings back a connection the user dropped.
THEOREM DropsAreFinal == Spec => []DroppedStaysDropped
<1>1. IInv => DroppedStaysDropped
  BY DEF IInv, GrantInOnePlace, DroppedStaysDropped
<1> QED
  BY <1>1, ConnectionsInvariance, PTL
=============================================================================
