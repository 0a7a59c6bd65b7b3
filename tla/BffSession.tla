------------------------------ MODULE BffSession -----------------------------
(***************************************************************************)
(* The sign-in of the frontend: one browser with several tabs, the Next    *)
(* server that keeps the tokens behind an opaque session id, the identity  *)
(* provider and Django's verification of the access token.                 *)
(*                                                                         *)
(* A step is what a handler runs between two awaits; a cookie is attached  *)
(* when a request leaves the browser and written when a response arrives.  *)
(* Each sign-in attempt is one value l \in Logins: it stands for its state *)
(* and verifier, its grant at the provider and the session id minted for   *)
(* it.  The tokens of a grant are numbered in the order they were issued.  *)
(***************************************************************************)
EXTENDS Naturals

CONSTANTS
  Logins,      \* sign-in attempts
  Requests,    \* requests the browser has outstanding
  Nil,         \* no cookie, no record, no token
  Rotation,    \* does the provider invalidate a refresh token once used
  MaxRefresh,  \* bound: the most times a grant is refreshed
  Faults       \* the kinds of fault the environment may produce

(***************************************************************************)
(* unreachable  a call to the token endpoint never gets there              *)
(* lost         the provider answers, the answer does not arrive           *)
(* truncated    its answer breaks off after the status line                *)
(* upstream     Django cannot be reached                                   *)
(* denied       the provider sends the browser back with an error, no code *)
(* keys         Django cannot fetch the provider's signing keys            *)
(***************************************************************************)
FaultKinds == {"unreachable", "lost", "truncated", "upstream", "denied", "keys"}

Versions == 0 .. MaxRefresh
Record == [access : Versions, refresh : Versions \cup {Nil}]
Cookie == Logins \cup {Nil}
Grant == [issued : Versions, active : BOOLEAN, refreshable : BOOLEAN]
Ages == {"fresh", "stale", "expired"}

ASSUME NilAssumption == Nil \notin Logins \cup Versions \cup Record
ASSUME RotationAssumption == Rotation \in BOOLEAN
ASSUME BoundAssumption == MaxRefresh \in Nat
ASSUME FaultsAssumption == Faults \subseteq FaultKinds

VARIABLES
  session, tx,              \* the browser's cookies: the session, the login transaction
  login, redirect,          \* where an attempt is, what its callback answered
  store,                    \* the session records
  old,                      \* the records past SESSION_TTL_MS
  grant,                    \* at the provider: the tokens it issued last, is it active,
                            \* did it issue a refresh token
  life,                     \* how old each access token is
  pc, kind, sid, rec, reply \* the requests

cookieVars == <<session, tx>>
loginVars == <<login, redirect>>
idpVars == <<grant, life>>
requestVars == <<pc, kind, sid, rec, reply>>
vars == <<cookieVars, loginVars, store, old, idpVars, requestVars>>

TypeOK ==
  /\ session \in {l \in Logins : redirect[l] = "signed_in"} \cup {Nil}
  /\ tx \in Cookie
  /\ login \in [Logins -> {"idle", "authorizing", "exchanging", "answered", "done"}]
  /\ redirect \in [Logins -> {"none", "signed_in", "retry", "retry_keep"}]
  /\ store \in [Logins -> Record \cup {Nil}]
  /\ old \subseteq Logins
  /\ grant \in [Logins -> Grant]
  /\ life \in [Logins -> [Versions -> Ages]]
  /\ pc \in [Requests -> {"idle", "sent", "refreshing", "refreshed", "forwarding", "verified", "answered"}]
  /\ kind \in [Requests -> {"api", "page", "logout"}]
  /\ sid \in [Requests -> Cookie]
  /\ rec \in [Requests -> Record \cup {Nil}]
  /\ reply \in [Requests -> {"none", "granted", "rejected", "unreachable", "accepted", "refused",
                             "relayed", "expired", "signed_out"}]

Init ==
  /\ session = Nil /\ tx = Nil
  /\ login = [l \in Logins |-> "idle"]
  /\ redirect = [l \in Logins |-> "none"]
  /\ store = [l \in Logins |-> Nil]
  /\ old = {}
  /\ grant = [l \in Logins |-> [issued |-> 0, active |-> FALSE, refreshable |-> FALSE]]
  /\ life = [l \in Logins |-> [v \in Versions |-> "fresh"]]
  /\ pc = [r \in Requests |-> "idle"]
  /\ kind = [r \in Requests |-> "api"]
  /\ sid = [r \in Requests |-> Nil]
  /\ rec = [r \in Requests |-> Nil]
  /\ reply = [r \in Requests |-> "none"]

-----------------------------------------------------------------------------
(* The session store.                                                      *)

Drop(l) == store' = [store EXCEPT ![l] = Nil]

\* Variant: the record is written whether or not it is still there.
PatchAlways(l, new) == store' = [store EXCEPT ![l] = new]
\* updateSession patches the record only if it is still there.
Patch(l, new) == store' = [store EXCEPT ![l] = IF @ = Nil THEN Nil ELSE new]

\* getSession drops a record past its lifetime; finding one sweeps the others.
Found(l) == l # Nil /\ store[l] # Nil /\ l \notin old
Swept == [l \in Logins |-> IF l \in old THEN Nil ELSE store[l]]

\* needsRefresh: expired, or within REFRESH_SKEW_SECONDS of it.
NeedsRefresh(l, record) == life[l][record.access] # "fresh"

-----------------------------------------------------------------------------
(* Signing in.                                                             *)

\* POST /api/auth/login: one cookie name for the transactions of all tabs.
StartLogin(l) ==
  /\ login[l] = "idle"
  /\ login' = [login EXCEPT ![l] = "authorizing"]
  /\ tx' = l
  /\ UNCHANGED <<session, redirect, store, old, idpVars, requestVars>>

Answer(l, r) ==
  /\ login' = [login EXCEPT ![l] = "answered"]
  /\ redirect' = [redirect EXCEPT ![l] = r]

\* A mismatched transaction belongs to another attempt and is left alone.
Mismatch(l) == IF tx = Nil THEN "retry" ELSE "retry_keep"

(***************************************************************************)
(* GET /api/auth/callback up to its first await, with the cookie the       *)
(* browser had when the provider sent it back.  A callback without a code  *)
(* is treated like one of another attempt.                                 *)
(***************************************************************************)
Callback(l) ==
  /\ login[l] = "authorizing"
  /\ \/ tx # l /\ Answer(l, Mismatch(l))
     \/ tx = l /\ "denied" \in Faults /\ Answer(l, "retry_keep")
     \/ tx = l /\ login' = [login EXCEPT ![l] = "exchanging"] /\ UNCHANGED redirect
  /\ UNCHANGED <<cookieVars, store, old, idpVars, requestVars>>

\* The code is exchanged and a session minted; not every provider issues a refresh token.
Exchange(l) ==
  /\ login[l] = "exchanging"
  /\ \E refreshable \in BOOLEAN :
       /\ grant' = [grant EXCEPT ![l] = [issued |-> 0, active |-> TRUE, refreshable |-> refreshable]]
       /\ store' = [store EXCEPT ![l] = [access |-> 0, refresh |-> IF refreshable THEN 0 ELSE Nil]]
  /\ Answer(l, "signed_in")
  /\ UNCHANGED <<cookieVars, old, life, requestVars>>

\* Discovery, the exchange or the claims of the ID token fail.
ExchangeFails(l) ==
  /\ login[l] = "exchanging"
  /\ Answer(l, "retry")
  /\ UNCHANGED <<cookieVars, store, old, idpVars, requestVars>>

\* Variant: a failed sign-in leaves the transaction cookie to expire.
KeepsTransaction(l) == redirect[l] = "signed_in"
ClearsTransaction(l) == redirect[l] \in {"signed_in", "retry"}

\* Variant: the session cookie is set whatever the outcome.
SignsInAlways(l) == TRUE
SignsIn(l) == redirect[l] = "signed_in"

\* The callback's response arrives.
LandLogin(l) ==
  /\ login[l] = "answered"
  /\ login' = [login EXCEPT ![l] = "done"]
  /\ session' = IF SignsIn(l) THEN l ELSE session
  /\ tx' = IF ClearsTransaction(l) THEN Nil ELSE tx
  /\ redirect' = [redirect EXCEPT ![l] = IF @ = "signed_in" THEN @ ELSE "none"]
  /\ UNCHANGED <<store, old, idpVars, requestVars>>

-----------------------------------------------------------------------------
(* A request of a signed-in page: an API call through the proxy, a page    *)
(* rendered on the server, or the sign-out.                                *)

Goto(r, l) == pc' = [pc EXCEPT ![r] = l]
Reply(r, what) == reply' = [reply EXCEPT ![r] = what]
Use(r, record) == rec' = [rec EXCEPT ![r] = record]
Respond(r, what) ==
  /\ Goto(r, "answered") /\ Reply(r, what)
  /\ sid' = [sid EXCEPT ![r] = Nil] /\ Use(r, Nil)

\* A page load without a cookie is redirected by the gate and goes no further.
Send(r, k) ==
  /\ pc[r] = "idle"
  /\ k = "page" => session # Nil
  /\ Goto(r, "sent")
  /\ kind' = [kind EXCEPT ![r] = k]
  /\ sid' = [sid EXCEPT ![r] = session]
  /\ UNCHANGED <<cookieVars, loginVars, store, old, idpVars, rec, reply>>

\* No cookie, no record, or a record past its lifetime.
NoSession(r) ==
  LET l == sid[r] IN
  /\ pc[r] = "sent" /\ ~Found(l)
  /\ store' = IF l = Nil THEN store ELSE [store EXCEPT ![l] = Nil]
  /\ Respond(r, IF kind[r] = "logout" THEN "signed_out" ELSE "expired")
  /\ UNCHANGED <<cookieVars, loginVars, old, idpVars, kind>>

SignOut(r) ==
  LET l == sid[r] IN
  /\ pc[r] = "sent" /\ kind[r] = "logout" /\ Found(l)
  /\ store' = [Swept EXCEPT ![l] = Nil]
  /\ Respond(r, "signed_out")
  /\ UNCHANGED <<cookieVars, loginVars, old, idpVars, kind>>

\* ensureFreshSession up to its await: use the token, refresh it, or give up.
Admit(r) ==
  LET l == sid[r] IN
  /\ pc[r] = "sent" /\ kind[r] # "logout" /\ Found(l)
  /\ \/ /\ ~NeedsRefresh(l, store[l])
        /\ store' = Swept /\ Use(r, store[l])
        /\ Goto(r, "forwarding") /\ UNCHANGED <<sid, reply>>
     \/ /\ NeedsRefresh(l, store[l]) /\ store[l].refresh # Nil
        /\ store' = Swept /\ Use(r, store[l])
        /\ Goto(r, "refreshing") /\ UNCHANGED <<sid, reply>>
     \/ /\ NeedsRefresh(l, store[l]) /\ store[l].refresh = Nil
        /\ store' = [Swept EXCEPT ![l] = Nil]
        /\ Respond(r, "expired")
  /\ UNCHANGED <<cookieVars, loginVars, old, idpVars, kind>>

Refreshed(r, what) == Goto(r, "refreshed") /\ Reply(r, what)

\* The token endpoint issues the next tokens for a refresh token it honours.
Honours(l, v) == grant[l].active /\ (Rotation => v = grant[l].issued)

\* At the bound a provider that does not rotate goes on issuing the last tokens.
NextVersion(l) == IF grant[l].issued < MaxRefresh THEN grant[l].issued + 1 ELSE MaxRefresh

\* A provider that does not rotate returns none and the one at hand is kept.
RefreshAfter(r, v) == IF Rotation THEN v ELSE rec[r].refresh

\* A timeout while the body is read is taken for an answer without a token.
Grants(r) ==
  LET l == sid[r]
      v == NextVersion(l) IN
  /\ pc[r] = "refreshing" /\ Honours(l, rec[r].refresh)
  /\ Rotation => grant[l].issued < MaxRefresh
  /\ grant' = [grant EXCEPT ![l].issued = v]
  /\ \/ Refreshed(r, "granted") /\ Use(r, [access |-> v, refresh |-> RefreshAfter(r, v)])
     \/ "lost" \in Faults /\ Refreshed(r, "unreachable") /\ UNCHANGED rec
     \/ "truncated" \in Faults /\ Refreshed(r, "rejected") /\ UNCHANGED rec
  /\ UNCHANGED <<cookieVars, loginVars, store, old, life, kind, sid>>

Rejects(r) ==
  /\ pc[r] = "refreshing" /\ ~Honours(sid[r], rec[r].refresh)
  /\ Refreshed(r, "rejected")
  /\ UNCHANGED <<cookieVars, loginVars, store, old, idpVars, kind, sid, rec>>

Unreachable(r) ==
  /\ pc[r] = "refreshing" /\ "unreachable" \in Faults
  /\ Refreshed(r, "unreachable")
  /\ UNCHANGED <<cookieVars, loginVars, store, old, idpVars, kind, sid, rec>>

\* ensureFreshSession after its await.
Renew(r) ==
  /\ pc[r] = "refreshed" /\ reply[r] = "granted"
  /\ Patch(sid[r], rec[r])
  /\ Goto(r, "forwarding") /\ Reply(r, "none")
  /\ UNCHANGED <<cookieVars, loginVars, old, idpVars, kind, sid, rec>>

\* Variant: a failed refresh ends the session, whatever failed.
EndsOnFailure(r) == TRUE
\* Only a definite answer of the provider ends the session.
EndsSession(r) == reply[r] = "rejected"

RefreshFailed(r) ==
  /\ pc[r] = "refreshed" /\ reply[r] # "granted" /\ EndsSession(r)
  /\ Drop(sid[r])
  /\ Respond(r, "expired")
  /\ UNCHANGED <<cookieVars, loginVars, old, idpVars, kind>>

\* An unreachable provider: the proxy answers 503, a page goes on with the token it has.
RefreshUnavailable(r) ==
  /\ pc[r] = "refreshed" /\ reply[r] # "granted" /\ ~EndsSession(r)
  /\ \/ kind[r] = "api" /\ Respond(r, "relayed")
     \/ kind[r] = "page" /\ Goto(r, "forwarding") /\ Reply(r, "none") /\ UNCHANGED <<sid, rec>>
  /\ UNCHANGED <<cookieVars, loginVars, store, old, idpVars, kind>>

\* Django verifies the token; a signing key it cannot resolve is a 401 as well.
Verify(r) ==
  /\ pc[r] = "forwarding"
  /\ Goto(r, "verified")
  /\ \/ life[sid[r]][rec[r].access] # "expired" /\ Reply(r, "accepted")
     \/ life[sid[r]][rec[r].access] = "expired" /\ Reply(r, "refused")
     \/ "keys" \in Faults /\ Reply(r, "refused")
  /\ UNCHANGED <<cookieVars, loginVars, store, old, idpVars, kind, sid, rec>>

UpstreamDown(r) ==
  /\ pc[r] = "forwarding" /\ "upstream" \in Faults
  /\ Respond(r, "relayed")
  /\ UNCHANGED <<cookieVars, loginVars, store, old, idpVars, kind>>

\* The proxy relays the answer, or ends the session on a 401; a page only redirects.
Relay(r) ==
  /\ pc[r] = "verified"
  /\ \/ reply[r] = "accepted" /\ Respond(r, "relayed") /\ UNCHANGED store
     \/ reply[r] = "refused" /\ kind[r] = "api" /\ Drop(sid[r]) /\ Respond(r, "expired")
     \/ reply[r] = "refused" /\ kind[r] = "page" /\ Respond(r, "expired") /\ UNCHANGED store
  /\ UNCHANGED <<cookieVars, loginVars, old, idpVars, kind>>

\* The response arrives; a rendered page cannot clear a cookie.
ClearsSession(r) ==
  reply[r] = "signed_out" \/ (reply[r] = "expired" /\ kind[r] = "api")

Receive(r) ==
  /\ pc[r] = "answered"
  /\ session' = IF ClearsSession(r) THEN Nil ELSE session
  /\ pc' = [pc EXCEPT ![r] = "idle"]
  /\ kind' = [kind EXCEPT ![r] = "api"]
  /\ Reply(r, "none")
  /\ UNCHANGED <<tx, loginVars, store, old, idpVars, sid, rec>>

-----------------------------------------------------------------------------
(* Time, and what the provider does on its own.                            *)

\* Nothing reads the tokens of a session that is gone: they are left as they are.
InUse(l) == store[l] # Nil \/ \E r \in Requests : sid[r] = l

\* A token runs into the refresh skew; the last one within the bound stays fresh.
Wane(l, v) ==
  /\ InUse(l) /\ v < MaxRefresh /\ v <= grant[l].issued
  /\ life[l][v] = "fresh"
  /\ life' = [life EXCEPT ![l][v] = "stale"]
  /\ UNCHANGED <<cookieVars, loginVars, store, old, grant, requestVars>>

(***************************************************************************)
(* A token runs out for Django.  The refresh skew and Django's leeway are  *)
(* 90 seconds together: a call of the proxy that found its token fresh, or *)
(* has just renewed it, is taken to reach Django sooner than that.         *)
(***************************************************************************)
Carries(r, l, v) ==
  /\ kind[r] = "api" /\ sid[r] = l /\ rec[r] # Nil /\ rec[r].access = v
  /\ pc[r] = "forwarding" \/ (pc[r] = "refreshed" /\ reply[r] = "granted")

Expire(l, v) ==
  /\ InUse(l) /\ life[l][v] = "stale"
  /\ \A r \in Requests : ~Carries(r, l, v)
  /\ life' = [life EXCEPT ![l][v] = "expired"]
  /\ UNCHANGED <<cookieVars, loginVars, store, old, grant, requestVars>>

\* Eight hours after the sign-in.
Outlive(l) ==
  /\ store[l] # Nil /\ l \notin old
  /\ old' = old \cup {l}
  /\ UNCHANGED <<cookieVars, loginVars, store, idpVars, requestVars>>

\* The browser drops a transaction after ten minutes, a session cookie after eight hours.
ForgetTx(l) ==
  /\ tx = l
  /\ tx' = Nil
  /\ UNCHANGED <<session, loginVars, store, old, idpVars, requestVars>>

ForgetSession(l) ==
  /\ session = l /\ l \in old
  /\ session' = Nil
  /\ UNCHANGED <<tx, loginVars, store, old, idpVars, requestVars>>

\* The grant ends at the provider, which only its refresh token can show.
Revoke(l) ==
  /\ InUse(l) /\ grant[l].active /\ grant[l].refreshable
  /\ grant' = [grant EXCEPT ![l].active = FALSE]
  /\ UNCHANGED <<cookieVars, loginVars, store, old, life, requestVars>>

-----------------------------------------------------------------------------
LoginStep(l) ==
  \/ StartLogin(l) \/ Callback(l) \/ Exchange(l) \/ ExchangeFails(l) \/ LandLogin(l)
  \/ Outlive(l) \/ ForgetTx(l) \/ ForgetSession(l) \/ Revoke(l)
  \/ \E v \in Versions : Wane(l, v) \/ Expire(l, v)

RequestStep(r) ==
  \/ \E k \in {"api", "page", "logout"} : Send(r, k)
  \/ NoSession(r) \/ SignOut(r) \/ Admit(r)
  \/ Grants(r) \/ Rejects(r) \/ Unreachable(r)
  \/ Renew(r) \/ RefreshFailed(r) \/ RefreshUnavailable(r)
  \/ Verify(r) \/ UpstreamDown(r) \/ Relay(r) \/ Receive(r)

Next == (\E l \in Logins : LoginStep(l)) \/ (\E r \in Requests : RequestStep(r))

Spec == Init /\ [][Next]_vars

-----------------------------------------------------------------------------
Minted(l) == login[l] \in {"answered", "done"}

(***************************************************************************)
(* A session that ended never comes back, though a refresh of it may be    *)
(* under way: dropping the record "actually ends the session" (logout).    *)
(***************************************************************************)
EndedStaysEnded ==
  [][\A l \in Logins : Minted(l) /\ store[l] = Nil => store'[l] = Nil]_vars

SignsOut(l) ==
  \E r \in Requests :
    kind[r] = "logout" /\ sid[r] = l /\ pc[r] = "sent" /\ pc'[r] = "answered"

\* The steps that end the session of l, and their reasons.
EndsWhenOver(l) ==
  store[l] # Nil /\ store'[l] = Nil
    => SignsOut(l) \/ l \in old \/ ~grant[l].active \/ ~grant[l].refreshable

(***************************************************************************)
(* A session ends only when it is over: signed out, past its lifetime,     *)
(* ended at the provider, or without a refresh token.  "A dead refresh     *)
(* token ends the session; an unreachable provider must not."              *)
(***************************************************************************)
OnlyOverSessionsEnd == [][\A l \in Logins : EndsWhenOver(l)]_vars

(***************************************************************************)
(* "No PKCE verifier outlives the attempt that created it": once its       *)
(* callback has been answered and the answer has arrived, the transaction  *)
(* cookie of an attempt is gone.                                           *)
(***************************************************************************)
VerifierGone == \A l \in Logins : login[l] = "done" => tx # l
=============================================================================
