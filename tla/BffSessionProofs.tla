---------------------------- MODULE BffSessionProofs --------------------------
(***************************************************************************)
(* What BffSession guarantees for any number of sign-in attempts, requests *)
(* and refreshes.                                                          *)
(***************************************************************************)
EXTENDS BffSession, TLAPS

USE NilAssumption, RotationAssumption, BoundAssumption, FaultsAssumption

\* A request between its admission and its answer.
Holds(r) == pc[r] \in {"refreshing", "refreshed", "forwarding", "verified"}

\* Only an attempt that was answered has a session, and only its session is used.
SessionInv ==
  /\ TypeOK
  /\ \A l \in Logins : redirect[l] = "signed_in" \/ store[l] # Nil => Minted(l)
  /\ \A r \in Requests : Holds(r) => sid[r] \in Logins /\ rec[r] # Nil /\ Minted(sid[r])

LEMMA GrantType ==
  ASSUME NEW g \in Grant, NEW v \in Versions
  PROVE  [g EXCEPT !.active = FALSE] \in Grant /\ [g EXCEPT !.issued = v] \in Grant
BY DEF Grant

LEMMA VersionType ==
  ASSUME SessionInv, NEW l \in Logins
  PROVE  NextVersion(l) \in Versions
<1>1. grant[l].issued \in Versions
  BY DEF SessionInv, TypeOK, Grant
<1>2. QED
  BY <1>1 DEF NextVersion, Versions

\* Signing in keeps the invariant.
LEMMA LoginKeepsSessionInv ==
  ASSUME SessionInv, NEW l \in Logins, LoginStep(l)
  PROVE  SessionInv'
<1> USE DEF Holds, Minted, requestVars, cookieVars, idpVars, loginVars
<1>1. CASE StartLogin(l)
  BY <1>1 DEF SessionInv, TypeOK, StartLogin, Cookie
<1>2. CASE Callback(l)
  <2>1. CASE tx = l
    <3>1. \/ login' = [login EXCEPT ![l] = "exchanging"] /\ UNCHANGED redirect
          \/ Answer(l, "retry_keep")
      BY <1>2, <2>1 DEF Callback
    <3>2. CASE Answer(l, "retry_keep")
      BY <1>2, <3>2, SMTT(30) DEF SessionInv, TypeOK, Callback, Answer
    <3>3. CASE login' = [login EXCEPT ![l] = "exchanging"] /\ UNCHANGED redirect
      BY <1>2, <3>3 DEF SessionInv, TypeOK, Callback
    <3>4. QED
      BY <3>1, <3>2, <3>3
  <2>2. CASE tx # l
    <3>1. Answer(l, Mismatch(l)) /\ Mismatch(l) \in {"retry", "retry_keep"}
      BY <1>2, <2>2 DEF Callback, Mismatch
    <3>2. QED
      BY <1>2, <3>1 DEF SessionInv, TypeOK, Callback, Answer
  <2>3. QED
    BY <2>1, <2>2
<1>3. CASE Exchange(l)
  <2>1. 0 \in Versions
    BY DEF Versions
  <2>2. store' \in [Logins -> Record \cup {Nil}]
    BY <1>3, <2>1 DEF SessionInv, TypeOK, Exchange, Record
  <2>3. grant' \in [Logins -> Grant]
    BY <1>3, <2>1 DEF SessionInv, TypeOK, Exchange, Grant
  <2>4. \A k \in Logins : Minted(k) => Minted(k)'
    BY <1>3 DEF SessionInv, TypeOK, Exchange, Answer
  <2>5. \A k \in Logins : redirect'[k] = "signed_in" \/ store'[k] # Nil => Minted(k)'
    BY <1>3 DEF SessionInv, TypeOK, Exchange, Answer
  <2>6. TypeOK'
    BY <1>3, <2>2, <2>3 DEF SessionInv, TypeOK, Exchange, Answer
  <2>7. QED
    BY <1>3, <2>4, <2>5, <2>6 DEF SessionInv, Exchange
<1>4. CASE ExchangeFails(l)
  BY <1>4 DEF SessionInv, TypeOK, ExchangeFails, Answer
<1>5. CASE LandLogin(l)
  BY <1>5 DEF SessionInv, TypeOK, LandLogin, SignsIn, Cookie
<1>6. CASE Outlive(l)
  BY <1>6 DEF SessionInv, TypeOK, Outlive
<1>6a. CASE ForgetTx(l) \/ ForgetSession(l)
  BY <1>6a DEF SessionInv, TypeOK, ForgetTx, ForgetSession, Cookie
<1>7. CASE Revoke(l)
  <2>1. grant' \in [Logins -> Grant]
    <3>1. 0 \in Versions /\ grant[l] \in Grant
      BY DEF SessionInv, TypeOK, Versions
    <3>4. [grant[l] EXCEPT !.active = FALSE] \in Grant
      BY <3>1, GrantType
    <3>2. grant' = [grant EXCEPT ![l] = [grant[l] EXCEPT !.active = FALSE]]
      BY <1>7 DEF Revoke
    <3>3. QED
      BY <3>2, <3>4 DEF SessionInv, TypeOK
  <2>2. QED
    BY <1>7, <2>1 DEF SessionInv, TypeOK, Revoke
<1>8. ASSUME NEW v \in Versions, Wane(l, v) \/ Expire(l, v) PROVE SessionInv'
  <2>1. life' \in [Logins -> [Versions -> Ages]]
    <3>1. PICK age \in Ages : life' = [life EXCEPT ![l] = [life[l] EXCEPT ![v] = age]]
      BY <1>8 DEF Wane, Expire, Ages
    <3>2. [life[l] EXCEPT ![v] = age] \in [Versions -> Ages]
      BY DEF SessionInv, TypeOK
    <3>3. QED
      BY <3>1, <3>2 DEF SessionInv, TypeOK
  <2>2. QED
    BY <1>8, <2>1 DEF SessionInv, TypeOK, Wane, Expire
<1>9. QED
  BY <1>1, <1>2, <1>3, <1>4, <1>5, <1>6, <1>6a, <1>7, <1>8 DEF LoginStep

\* So does every step of a request.
LEMMA RequestKeepsSessionInv ==
  ASSUME SessionInv, NEW r \in Requests, RequestStep(r)
  PROVE  SessionInv'
<1> USE DEF Holds, Minted, requestVars, cookieVars, idpVars, loginVars, Goto, Reply, Respond, Use, Refreshed
<1>1. ASSUME NEW k \in {"api", "page", "logout"}, Send(r, k) PROVE SessionInv'
  BY <1>1 DEF SessionInv, TypeOK, Send, Cookie
<1>2. CASE NoSession(r)
  BY <1>2 DEF SessionInv, TypeOK, NoSession, Cookie
<1>3. CASE SignOut(r)
  BY <1>3, ZenonT(60) DEF SessionInv, TypeOK, SignOut, Swept, Cookie
<1>4. CASE Admit(r)
  <2>1. /\ sid[r] \in Logins /\ store[sid[r]] \in Record /\ store[sid[r]] # Nil
        /\ Minted(sid[r])
        /\ Swept \in [Logins -> Record \cup {Nil}]
        /\ \A l \in Logins : Swept[l] # Nil => store[l] # Nil
    BY <1>4 DEF SessionInv, TypeOK, Admit, Found, Swept, Cookie
  <2>2. CASE ~NeedsRefresh(sid[r], store[sid[r]])
    <3>1. pc' = [pc EXCEPT ![r] = "forwarding"]
      BY <1>4, <2>1, <2>2 DEF Admit
    <3>2. store' = Swept /\ rec' = [rec EXCEPT ![r] = store[sid[r]]] /\ UNCHANGED <<sid, reply>>
      BY <1>4, <2>2 DEF Admit
    <3>3. QED
      BY <1>4, <2>1, <3>1, <3>2 DEF SessionInv, TypeOK, Admit
  <2>3. CASE NeedsRefresh(sid[r], store[sid[r]]) /\ store[sid[r]].refresh # Nil
    <3>1. pc' = [pc EXCEPT ![r] = "refreshing"]
      BY <1>4, <2>1, <2>3 DEF Admit
    <3>2. store' = Swept /\ rec' = [rec EXCEPT ![r] = store[sid[r]]] /\ UNCHANGED <<sid, reply>>
      BY <1>4, <2>3 DEF Admit
    <3>3. QED
      BY <1>4, <2>1, <3>1, <3>2 DEF SessionInv, TypeOK, Admit
  <2>4. CASE NeedsRefresh(sid[r], store[sid[r]]) /\ store[sid[r]].refresh = Nil
    <3>1. Respond(r, "expired") /\ store' = [Swept EXCEPT ![sid[r]] = Nil]
      BY <1>4, <2>4 DEF Admit
    <3>2. QED
      BY <1>4, <2>1, <3>1 DEF SessionInv, TypeOK, Admit, Cookie
  <2>5. QED
    BY <2>2, <2>3, <2>4
<1>5. CASE Grants(r)
  <2>1. /\ sid[r] \in Logins /\ rec[r] \in Record
        /\ NextVersion(sid[r]) \in Versions
    BY <1>5, VersionType DEF SessionInv, TypeOK, Grants
  <2>2. RefreshAfter(r, NextVersion(sid[r])) \in Versions \cup {Nil}
    BY <2>1 DEF RefreshAfter, Record
  <2>3. [access |-> NextVersion(sid[r]), refresh |-> RefreshAfter(r, NextVersion(sid[r]))] \in Record
    BY <2>1, <2>2 DEF Record
  <2>4. rec' \in [Requests -> Record \cup {Nil}] /\ rec'[r] # Nil
    BY <1>5, <2>1, <2>3 DEF SessionInv, TypeOK, Grants
  <2>5. grant' = [grant EXCEPT ![sid[r]].issued = NextVersion(sid[r])]
    BY <1>5 DEF Grants
  <2>6. grant' \in [Logins -> Grant]
    <3>3. grant[sid[r]] \in Grant
      BY <2>1 DEF SessionInv, TypeOK
    <3>1. [grant[sid[r]] EXCEPT !.issued = NextVersion(sid[r])] \in Grant
      BY <2>1, <3>3, GrantType
    <3>2. QED
      BY <2>1, <2>5, <3>1 DEF SessionInv, TypeOK
  <2>7. \A q \in Requests : q # r => rec'[q] = rec[q]
    BY <1>5 DEF SessionInv, TypeOK, Grants
  <2>8. \E what \in {"granted", "rejected", "unreachable"} :
          pc' = [pc EXCEPT ![r] = "refreshed"] /\ reply' = [reply EXCEPT ![r] = what]
    BY <1>5 DEF Grants
  <2>9. UNCHANGED <<session, tx, login, redirect, store, old, life, kind, sid>> /\ pc[r] = "refreshing"
    BY <1>5 DEF Grants
  <2>10. QED
    BY <2>1, <2>4, <2>6, <2>7, <2>8, <2>9 DEF SessionInv, TypeOK
<1>6. CASE Rejects(r)
  BY <1>6 DEF SessionInv, TypeOK, Rejects
<1>6a. CASE Unreachable(r)
  BY <1>6a DEF SessionInv, TypeOK, Unreachable
<1>7. CASE Renew(r)
  BY <1>7 DEF SessionInv, TypeOK, Renew, Patch
<1>8. CASE RefreshFailed(r)
  BY <1>8 DEF SessionInv, TypeOK, RefreshFailed, Drop, Cookie
<1>9. CASE RefreshUnavailable(r)
  <2>1. CASE kind[r] = "api"
    <3>1. Respond(r, "relayed")
      BY <1>9, <2>1 DEF RefreshUnavailable
    <3>2. QED
      BY <1>9, <3>1 DEF SessionInv, TypeOK, RefreshUnavailable, Cookie
  <2>2. CASE kind[r] = "page"
    BY <1>9, <2>2, ZenonT(60) DEF SessionInv, TypeOK, RefreshUnavailable
  <2>3. QED
    BY <1>9, <2>1, <2>2 DEF RefreshUnavailable
<1>10. CASE Verify(r)
  <2>1. \E what \in {"accepted", "refused"} : reply' = [reply EXCEPT ![r] = what]
    BY <1>10 DEF Verify
  <2>2. QED
    BY <1>10, <2>1 DEF SessionInv, TypeOK, Verify
<1>10a. CASE UpstreamDown(r)
  BY <1>10a DEF SessionInv, TypeOK, UpstreamDown, Cookie
<1>11. CASE Relay(r)
  <2>1. CASE UNCHANGED store
    <3>1. \E what \in {"relayed", "expired"} : Respond(r, what)
      BY <1>11 DEF Relay
    <3>2. QED
      BY <1>11, <2>1, <3>1 DEF SessionInv, TypeOK, Relay, Cookie
  <2>2. CASE Drop(sid[r])
    <3>1. \E what \in {"relayed", "expired"} : Respond(r, what)
      BY <1>11 DEF Relay
    <3>2. QED
      BY <1>11, <2>2, <3>1 DEF SessionInv, TypeOK, Relay, Drop, Cookie
  <2>3. QED
    BY <1>11, <2>1, <2>2 DEF Relay
<1>12. CASE Receive(r)
  BY <1>12 DEF SessionInv, TypeOK, Receive, Cookie
<1>13. QED
  BY <1>1, <1>2, <1>3, <1>4, <1>5, <1>6, <1>7, <1>8, <1>9, <1>10, <1>11, <1>12,
     <1>6a, <1>10a DEF RequestStep

LEMMA SessionInvInit == Init => SessionInv
BY DEF Init, SessionInv, TypeOK, Versions, Cookie, Grant, Ages, Holds, Minted

LEMMA SessionInvNext == SessionInv /\ [Next]_vars => SessionInv'
<1> SUFFICES ASSUME SessionInv, [Next]_vars PROVE SessionInv'
  OBVIOUS
<1>1. CASE Next
  BY <1>1, LoginKeepsSessionInv, RequestKeepsSessionInv DEF Next
<1>2. CASE UNCHANGED vars
  BY <1>2 DEF SessionInv, TypeOK, Holds, Minted, vars, cookieVars, loginVars, idpVars, requestVars
<1>3. QED
  BY <1>1, <1>2

\* Every variable keeps its type (BffSession!TypeOK).
THEOREM SessionTypeCorrect == Spec => []TypeOK
<1>1. SessionInv => TypeOK
  BY DEF SessionInv
<1>2. QED
  BY <1>1, SessionInvInit, SessionInvNext, PTL DEF Spec

-----------------------------------------------------------------------------
(* Only Exchange creates a record, for an attempt not answered yet; a      *)
(* renewal patches a record that is still there.                           *)

LEMMA NothingRevived ==
  ASSUME SessionInv, Next, NEW l \in Logins, Minted(l), store[l] = Nil
  PROVE  store'[l] = Nil
<1> USE DEF requestVars, cookieVars, idpVars, loginVars
<1>0. store \in [Logins -> Record \cup {Nil}]
  BY DEF SessionInv, TypeOK
<1>1. ASSUME NEW k \in Logins, LoginStep(k) PROVE store'[l] = Nil
  BY <1>0, <1>1 DEF LoginStep, StartLogin, Callback, Exchange, ExchangeFails, LandLogin, Outlive,
     ForgetTx, ForgetSession, Revoke, Wane, Expire, Minted
<1>2. ASSUME NEW r \in Requests, RequestStep(r) PROVE store'[l] = Nil
  <2>1. CASE NoSession(r) \/ SignOut(r) \/ Admit(r)
    <3>1. \/ store' = store \/ store' = Swept
          \/ store' = [store EXCEPT ![sid[r]] = Nil] \/ store' = [Swept EXCEPT ![sid[r]] = Nil]
      BY <2>1 DEF NoSession, SignOut, Admit
    <3>2. QED
      BY <1>0, <3>1 DEF Swept
  <2>2. CASE Renew(r) \/ RefreshFailed(r) \/ Relay(r)
    BY <1>0, <2>2 DEF Renew, RefreshFailed, Relay, Patch, Drop
  <2>3. CASE ~ (\/ NoSession(r) \/ SignOut(r) \/ Admit(r)
                \/ Renew(r) \/ RefreshFailed(r) \/ Relay(r))
    BY <1>2, <2>3 DEF RequestStep, Send, Grants, Rejects, Unreachable, RefreshUnavailable, Verify,
       UpstreamDown, Receive
  <2>4. QED
    BY <2>1, <2>2, <2>3
<1>3. QED
  BY <1>1, <1>2 DEF Next

(***************************************************************************)
(* A session that was signed out or ended never comes back, whatever       *)
(* refreshes of it are under way and whichever provider is used.           *)
(***************************************************************************)
THEOREM EndedSessionsStayEnded == Spec => EndedStaysEnded
<1>1. SessionInv /\ [Next]_vars
        => [\A l \in Logins : Minted(l) /\ store[l] = Nil => store'[l] = Nil]_vars
  BY NothingRevived
<1>2. QED
  BY <1>1, SessionInvInit, SessionInvNext, PTL DEF Spec, EndedStaysEnded

-----------------------------------------------------------------------------
(***************************************************************************)
(* Why a session is only ended when it is over.  A call of the proxy never *)
(* carries an expired token, so Django refuses none; a refresh is rejected *)
(* only by a provider that ended the grant, which is for good.             *)
(***************************************************************************)

Fresh(r) == life[sid[r]][rec[r].access] # "expired"

GrantInv ==
  /\ \A l \in Logins : store[l] # Nil /\ store[l].refresh = Nil => ~grant[l].refreshable
  /\ \A l \in Logins : ~Minted(l) => grant[l].issued = 0
  /\ \A l \in Logins, v \in Versions :
       v > grant[l].issued \/ v = MaxRefresh => life[l][v] = "fresh"

RequestInv(r) ==
  /\ pc[r] = "refreshing" => rec[r].refresh # Nil
  /\ pc[r] = "refreshed" /\ reply[r] = "granted" => rec[r].refresh # Nil
  /\ pc[r] = "refreshed" /\ reply[r] = "rejected" => ~grant[sid[r]].active
  /\ kind[r] = "api" =>
       /\ pc[r] = "forwarding" \/ (pc[r] = "refreshed" /\ reply[r] = "granted") => Fresh(r)
       /\ ~(pc[r] = "verified" /\ reply[r] = "refused")

OverInv == SessionInv /\ GrantInv /\ \A r \in Requests : RequestInv(r)

\* A provider that does not rotate, answers whole, and publishes its keys.
Healthy == ~Rotation /\ "truncated" \notin Faults /\ "keys" \notin Faults

\* What the steps below start from.
LEMMA Held ==
  ASSUME SessionInv
  PROVE  /\ \A l \in Logins : grant[l] \in Grant /\ store[l] \in Record \cup {Nil}
         /\ \A l \in Logins, v \in Versions : life[l][v] \in Ages
         /\ \A r \in Requests :
              Holds(r) => /\ sid[r] \in Logins /\ rec[r] \in Record /\ Minted(sid[r])
                          /\ rec[r].access \in Versions
BY DEF SessionInv, TypeOK, Record

\* Signing in keeps the invariant.
LEMMA LoginKeepsOverInv ==
  ASSUME OverInv, NEW l \in Logins, LoginStep(l)
  PROVE  GrantInv' /\ \A r \in Requests : RequestInv(r)'
<1> USE DEF requestVars, cookieVars, idpVars, loginVars
<1>0. SessionInv /\ TypeOK
  BY DEF OverInv, SessionInv
<1>1. CASE StartLogin(l) \/ Callback(l) \/ ExchangeFails(l) \/ LandLogin(l) \/ Outlive(l)
        \/ ForgetTx(l) \/ ForgetSession(l)
  <2>1. UNCHANGED <<store, grant, life, pc, kind, sid, rec, reply>>
    BY <1>1 DEF StartLogin, Callback, ExchangeFails, LandLogin, Outlive, ForgetTx, ForgetSession
  <2>2. \A k \in Logins : Minted(k) => Minted(k)'
    BY <1>0, <1>1 DEF StartLogin, Callback, ExchangeFails, LandLogin, Outlive, ForgetTx,
       ForgetSession, Answer, Minted, TypeOK
  <2>3. QED
    BY <2>1, <2>2 DEF OverInv, GrantInv, RequestInv, Fresh
<1>2. CASE Exchange(l)
  <2>1. PICK refreshable \in BOOLEAN :
          /\ grant' = [grant EXCEPT ![l] = [issued |-> 0, active |-> TRUE, refreshable |-> refreshable]]
          /\ store' = [store EXCEPT ![l] = [access |-> 0, refresh |-> IF refreshable THEN 0 ELSE Nil]]
    BY <1>2 DEF Exchange
  <2>2. ~Minted(l) /\ 0 \in Versions /\ UNCHANGED <<life, pc, kind, sid, rec, reply>>
    BY <1>2 DEF Exchange, Minted, Versions
  <2>3. \A k \in Logins : Minted(k) => Minted(k)'
    BY <1>0, <1>2 DEF Exchange, Answer, Minted, TypeOK
  <2>4. GrantInv'
    <3>1. grant' \in [Logins -> Grant] /\ grant'[l] = [issued |-> 0, active |-> TRUE, refreshable |-> refreshable]
      BY <1>0, <2>1, <2>2 DEF TypeOK, Grant
    <3>2. store'[l].refresh = Nil => ~refreshable
      BY <1>0, <2>1, <2>2 DEF TypeOK
    <3>3. \A k \in Logins : k # l => grant'[k] = grant[k] /\ store'[k] = store[k]
      BY <1>0, <2>1 DEF TypeOK
    <3>4. grant[l].issued = 0
      BY <2>2 DEF OverInv, GrantInv
    <3>5. QED
      BY <2>2, <2>3, <3>1, <3>2, <3>3, <3>4 DEF OverInv, GrantInv
  <2>5. ASSUME NEW r \in Requests PROVE RequestInv(r)'
    <3>1. Holds(r) => sid[r] # l /\ grant'[sid[r]] = grant[sid[r]]
      BY <1>0, <2>1, <2>2 DEF SessionInv, TypeOK
    <3>2. QED
      BY <2>2, <3>1 DEF OverInv, RequestInv, Holds, Fresh
  <2>6. QED
    BY <2>4, <2>5
<1>3. CASE Revoke(l)
  <2>1. /\ grant' = [grant EXCEPT ![l] = [grant[l] EXCEPT !.active = FALSE]]
        /\ UNCHANGED <<login, store, life, pc, kind, sid, rec, reply>>
    BY <1>3 DEF Revoke
  <2>2. \A k \in Logins :
          /\ grant'[k].issued = grant[k].issued /\ grant'[k].refreshable = grant[k].refreshable
          /\ ~grant[k].active => ~grant'[k].active
    BY <1>0, <2>1, Held DEF TypeOK, Grant
  <2>3. \A r \in Requests : Holds(r) => sid[r] \in Logins
    BY <1>0, Held
  <2>4. QED
    BY <2>1, <2>2, <2>3 DEF OverInv, GrantInv, RequestInv, Fresh, Minted, Holds
<1>4. ASSUME NEW v \in Versions, Wane(l, v) PROVE GrantInv' /\ \A r \in Requests : RequestInv(r)'
  <2>1. /\ v < MaxRefresh /\ v <= grant[l].issued
        /\ life' = [life EXCEPT ![l] = [life[l] EXCEPT ![v] = "stale"]]
        /\ UNCHANGED <<login, store, grant, pc, kind, sid, rec, reply>>
    BY <1>4 DEF Wane
  <2>2. \A k \in Logins, w \in Versions :
          life'[k][w] = IF k = l /\ w = v THEN "stale" ELSE life[k][w]
    BY <1>0, <2>1 DEF TypeOK
  <2>3. \A r \in Requests : Holds(r) => sid[r] \in Logins /\ rec[r].access \in Versions
    BY <1>0, Held
  <2>4. GrantInv'
    BY <1>0, <2>1, <2>2, Held DEF OverInv, GrantInv, Minted, Grant, Versions
  <2>5. QED
    BY <2>1, <2>2, <2>3, <2>4 DEF OverInv, RequestInv, Fresh, Holds
<1>5. ASSUME NEW v \in Versions, Expire(l, v) PROVE GrantInv' /\ \A r \in Requests : RequestInv(r)'
  <2>1. /\ life[l][v] = "stale" /\ \A r \in Requests : ~Carries(r, l, v)
        /\ life' = [life EXCEPT ![l] = [life[l] EXCEPT ![v] = "expired"]]
        /\ UNCHANGED <<login, store, grant, pc, kind, sid, rec, reply>>
    BY <1>5 DEF Expire
  <2>2. \A k \in Logins, w \in Versions :
          life'[k][w] = IF k = l /\ w = v THEN "expired" ELSE life[k][w]
    BY <1>0, <2>1 DEF TypeOK
  <2>3. \A r \in Requests : Holds(r) => sid[r] \in Logins /\ rec[r] # Nil /\ rec[r].access \in Versions
    BY <1>0, Held DEF SessionInv
  <2>4. GrantInv'
    BY <1>0, <2>1, <2>2, Held DEF OverInv, GrantInv, Minted, Grant, Versions
  <2>5. QED
    BY <2>1, <2>2, <2>3, <2>4 DEF OverInv, RequestInv, Fresh, Holds, Carries
<1>6. QED
  BY <1>1, <1>2, <1>3, <1>4, <1>5 DEF LoginStep

\* A step that ends sessions, and at most one other request aside, changes nothing.
LEMMA OthersUndisturbed ==
  ASSUME OverInv, NEW r \in Requests,
         UNCHANGED <<login, grant, life>>,
         \A l \in Logins : store'[l] # Nil => store'[l] = store[l],
         \A q \in Requests : q # r => /\ pc'[q] = pc[q] /\ kind'[q] = kind[q] /\ sid'[q] = sid[q]
                                        /\ rec'[q] = rec[q] /\ reply'[q] = reply[q],
         RequestInv(r)'
  PROVE  GrantInv' /\ \A q \in Requests : RequestInv(q)'
<1>1. GrantInv'
  BY DEF OverInv, GrantInv, Minted
<1>2. ASSUME NEW q \in Requests, q # r PROVE RequestInv(q)'
  BY <1>2 DEF OverInv, RequestInv, Fresh
<1>3. QED
  BY <1>1, <1>2

\* So does every step of a request, if the provider is healthy.
LEMMA RequestKeepsOverInv ==
  ASSUME Healthy, OverInv, NEW r \in Requests, RequestStep(r)
  PROVE  GrantInv' /\ \A q \in Requests : RequestInv(q)'
<1> USE DEF requestVars, cookieVars, idpVars, loginVars, Goto, Reply, Respond, Use, Refreshed
<1>0. SessionInv /\ TypeOK /\ RequestInv(r)
  BY DEF OverInv, SessionInv
<1>1. ASSUME NEW k \in {"api", "page", "logout"}, Send(r, k)
      PROVE  GrantInv' /\ \A q \in Requests : RequestInv(q)'
  <2>1. RequestInv(r)'
    BY <1>0, <1>1 DEF Send, TypeOK, RequestInv
  <2>2. QED
    BY <1>0, <1>1, <2>1, OthersUndisturbed DEF Send, TypeOK
<1>2. CASE NoSession(r) \/ SignOut(r)
  <2>1. pc'[r] = "answered"
    BY <1>0, <1>2 DEF NoSession, SignOut, TypeOK
  <2>2. \A l \in Logins : store'[l] # Nil => store'[l] = store[l]
    BY <1>0, <1>2, ZenonT(60) DEF NoSession, SignOut, Swept, TypeOK
  <2>3. QED
    BY <1>0, <1>2, <2>1, <2>2, OthersUndisturbed DEF NoSession, SignOut, TypeOK, RequestInv
<1>3. CASE Admit(r)
  <2>1. sid[r] \in Logins /\ store[sid[r]] \in Record
    BY <1>0, <1>3 DEF Admit, Found, TypeOK, Cookie
  <2>2. \A l \in Logins : store'[l] # Nil => store'[l] = store[l]
    <3>1. store' = Swept \/ store' = [Swept EXCEPT ![sid[r]] = Nil]
      BY <1>3 DEF Admit
    <3>2. QED
      BY <3>1 DEF Swept
  <2>3. \/ pc'[r] = "answered"
        \/ pc'[r] = "refreshing" /\ rec'[r] = store[sid[r]] /\ store[sid[r]].refresh # Nil
        \/ /\ pc'[r] = "forwarding" /\ rec'[r] = store[sid[r]] /\ sid'[r] = sid[r]
           /\ life[sid[r]][store[sid[r]].access] = "fresh"
    BY <1>0, <1>3 DEF Admit, NeedsRefresh, TypeOK
  <2>4. RequestInv(r)'
    BY <1>3, <2>3 DEF Admit, RequestInv, Fresh
  <2>5. \A q \in Requests : q # r => pc'[q] = pc[q] /\ sid'[q] = sid[q] /\ rec'[q] = rec[q] /\ reply'[q] = reply[q]
    BY <1>0, <1>3 DEF Admit, TypeOK
  <2>6. QED
    BY <1>3, <2>2, <2>4, <2>5, OthersUndisturbed DEF Admit
<1>4. CASE Grants(r)
  <2> DEFINE v == NextVersion(sid[r])
  <2>1. /\ sid[r] \in Logins /\ rec[r] \in Record /\ Minted(sid[r])
        /\ grant[sid[r]] \in Grant /\ rec[r].refresh # Nil
    BY <1>0, <1>4, Held DEF Grants, Holds, RequestInv
  <2>2. v \in Versions
    BY <1>0, <2>1, VersionType
  <2>3. /\ grant' = [grant EXCEPT ![sid[r]] = [grant[sid[r]] EXCEPT !.issued = v]]
        /\ pc' = [pc EXCEPT ![r] = "refreshed"]
        /\ UNCHANGED <<login, store, life, kind, sid>>
    BY <1>4 DEF Grants
  <2>4. \A l \in Logins : /\ grant'[l].active = grant[l].active
                            /\ grant'[l].refreshable = grant[l].refreshable
                            /\ l # sid[r] => grant'[l].issued = grant[l].issued
    BY <1>0, <2>1, <2>3, Held DEF TypeOK, Grant
  <2>5. grant'[sid[r]].issued = v
    BY <1>0, <2>1, <2>3 DEF TypeOK, Grant
  <2>6. v = MaxRefresh \/ v > grant[sid[r]].issued
    BY <2>1 DEF NextVersion, Grant, Versions
  <2>7. life[sid[r]][v] = "fresh"
    BY <2>1, <2>2, <2>6 DEF OverInv, GrantInv
  <2>8. GrantInv'
    <3>1. ASSUME NEW w \in Versions, w > v \/ w = MaxRefresh PROVE life[sid[r]][w] = "fresh"
      BY <2>1, <2>2, <2>6, <3>1 DEF OverInv, GrantInv, Grant, Versions, NextVersion
    <3>2. \A l \in Logins : Minted(l)' = Minted(l)
      BY <2>3 DEF Minted
    <3>3. QED
      BY <2>1, <2>3, <2>4, <2>5, <3>1, <3>2 DEF OverInv, GrantInv
  <2>9. \/ /\ reply' = [reply EXCEPT ![r] = "granted"]
           /\ rec' = [rec EXCEPT ![r] = [access |-> v, refresh |-> rec[r].refresh]]
        \/ reply' = [reply EXCEPT ![r] = "unreachable"] /\ UNCHANGED rec
    BY <1>4 DEF Grants, Healthy, RefreshAfter
  <2>10. RequestInv(r)'
    BY <1>0, <2>1, <2>3, <2>7, <2>9 DEF RequestInv, Fresh, TypeOK
  <2>11. ASSUME NEW q \in Requests, q # r PROVE RequestInv(q)'
    <3>1. RequestInv(q) /\ (Holds(q) => sid[q] \in Logins)
      BY <1>0, Held DEF OverInv
    <3>2. pc'[q] = pc[q] /\ rec'[q] = rec[q] /\ reply'[q] = reply[q]
      BY <1>0, <2>3, <2>9, <2>11 DEF TypeOK
    <3>3. QED
      BY <2>3, <2>4, <3>1, <3>2 DEF RequestInv, Fresh, Holds
  <2>12. QED
    BY <2>8, <2>10, <2>11
<1>5. CASE Rejects(r)
  <2>1. ~grant[sid[r]].active
    BY <1>5 DEF Rejects, Honours, Healthy
  <2>2. RequestInv(r)'
    BY <1>0, <1>5, <2>1 DEF Rejects, TypeOK, RequestInv
  <2>3. QED
    BY <1>0, <1>5, <2>2, OthersUndisturbed DEF Rejects, TypeOK
<1>6. CASE Unreachable(r)
  <2>1. RequestInv(r)'
    BY <1>0, <1>6 DEF Unreachable, TypeOK, RequestInv
  <2>2. QED
    BY <1>0, <1>6, <2>1, OthersUndisturbed DEF Unreachable, TypeOK
<1>7. CASE Renew(r)
  <2>1. sid[r] \in Logins /\ rec[r] # Nil /\ rec[r].refresh # Nil
    BY <1>0, <1>7, Held DEF Renew, Holds, SessionInv, RequestInv
  <2>2. RequestInv(r)'
    BY <1>0, <1>7 DEF Renew, TypeOK, RequestInv, Fresh
  <2>3. GrantInv'
    BY <1>0, <1>7, <2>1 DEF Renew, Patch, TypeOK, OverInv, GrantInv, Minted
  <2>4. ASSUME NEW q \in Requests, q # r PROVE RequestInv(q)'
    BY <1>0, <1>7, <2>4 DEF Renew, TypeOK, OverInv, RequestInv, Fresh
  <2>5. QED
    BY <2>2, <2>3, <2>4
<1>8. CASE RefreshFailed(r)
  <2>1. RequestInv(r)' /\ \A l \in Logins : store'[l] # Nil => store'[l] = store[l]
    BY <1>0, <1>8 DEF RefreshFailed, Drop, TypeOK, RequestInv
  <2>2. QED
    BY <1>0, <1>8, <2>1, OthersUndisturbed DEF RefreshFailed, TypeOK
<1>9. CASE RefreshUnavailable(r)
  <2>1. \/ pc' = [pc EXCEPT ![r] = "answered"]
        \/ pc' = [pc EXCEPT ![r] = "forwarding"] /\ kind[r] = "page"
    BY <1>9 DEF RefreshUnavailable
  <2>2. RequestInv(r)'
    BY <1>0, <1>9, <2>1 DEF RefreshUnavailable, TypeOK, RequestInv
  <2>3. \A q \in Requests : q # r => pc'[q] = pc[q] /\ sid'[q] = sid[q] /\ rec'[q] = rec[q] /\ reply'[q] = reply[q]
    BY <1>0, <1>9 DEF RefreshUnavailable, TypeOK
  <2>4. QED
    BY <1>9, <2>2, <2>3, OthersUndisturbed DEF RefreshUnavailable
<1>10. CASE Verify(r)
  <2>1. kind[r] = "api" => reply' = [reply EXCEPT ![r] = "accepted"]
    BY <1>0, <1>10 DEF Verify, RequestInv, Fresh, Healthy
  <2>2. RequestInv(r)'
    BY <1>0, <1>10, <2>1 DEF Verify, TypeOK, RequestInv
  <2>3. \A q \in Requests : q # r => reply'[q] = reply[q]
    BY <1>0, <1>10 DEF Verify, TypeOK
  <2>4. QED
    BY <1>0, <1>10, <2>2, <2>3, OthersUndisturbed DEF Verify, TypeOK
<1>11. CASE UpstreamDown(r) \/ Relay(r)
  <2>1. RequestInv(r)' /\ \A l \in Logins : store'[l] # Nil => store'[l] = store[l]
    BY <1>0, <1>11 DEF UpstreamDown, Relay, Drop, TypeOK, RequestInv
  <2>2. \A q \in Requests : q # r => pc'[q] = pc[q] /\ sid'[q] = sid[q] /\ rec'[q] = rec[q] /\ reply'[q] = reply[q]
    BY <1>0, <1>11 DEF UpstreamDown, Relay, TypeOK
  <2>3. QED
    BY <1>11, <2>1, <2>2, OthersUndisturbed DEF UpstreamDown, Relay
<1>12. CASE Receive(r)
  <2>1. RequestInv(r)'
    BY <1>0, <1>12 DEF Receive, TypeOK, RequestInv
  <2>2. QED
    BY <1>0, <1>12, <2>1, OthersUndisturbed DEF Receive, TypeOK
<1>13. QED
  BY <1>1, <1>2, <1>3, <1>4, <1>5, <1>6, <1>7, <1>8, <1>9, <1>10, <1>11, <1>12 DEF RequestStep

LEMMA OverInvInit == Init => OverInv
<1>1. ASSUME Init PROVE GrantInv /\ \A r \in Requests : RequestInv(r)
  BY <1>1 DEF Init, GrantInv, RequestInv, Minted
<1>2. QED
  BY <1>1, SessionInvInit DEF OverInv

LEMMA OverInvNext ==
  ASSUME Healthy, OverInv, [Next]_vars
  PROVE  OverInv'
<1>1. SessionInv'
  BY SessionInvNext DEF OverInv
<1>2. CASE Next
  BY <1>1, <1>2, LoginKeepsOverInv, RequestKeepsOverInv DEF Next, OverInv
<1>3. CASE UNCHANGED vars
  BY <1>1, <1>3 DEF vars, cookieVars, loginVars, idpVars, requestVars, OverInv, GrantInv, RequestInv,
     Fresh, Minted
<1>4. QED
  BY <1>2, <1>3

\* Whatever step drops a record had a reason to.
LEMMA DroppedForAReason ==
  ASSUME OverInv, Next, NEW l \in Logins, store[l] # Nil, store'[l] = Nil
  PROVE  SignsOut(l) \/ l \in old \/ ~grant[l].active \/ ~grant[l].refreshable
<1> USE DEF requestVars, cookieVars, idpVars, loginVars
<1>0. SessionInv /\ TypeOK /\ store \in [Logins -> Record \cup {Nil}]
  BY DEF OverInv, SessionInv, TypeOK
<1>1. ASSUME NEW k \in Logins, LoginStep(k) PROVE FALSE
  <2>1. CASE Exchange(k)
    <3>1. PICK refreshable \in BOOLEAN :
            store' = [store EXCEPT ![k] = [access |-> 0, refresh |-> IF refreshable THEN 0 ELSE Nil]]
      BY <2>1 DEF Exchange
    <3>2. [access |-> 0, refresh |-> IF refreshable THEN 0 ELSE Nil] \in Record
      BY DEF Record, Versions
    <3>3. QED
      BY <1>0, <3>1, <3>2
  <2>2. CASE ~Exchange(k)
    BY <1>1, <2>2 DEF LoginStep, StartLogin, Callback, ExchangeFails, LandLogin, Outlive, ForgetTx,
       ForgetSession, Revoke, Wane, Expire
  <2>3. QED
    BY <2>1, <2>2
<1>2. ASSUME NEW r \in Requests, RequestStep(r)
      PROVE  SignsOut(l) \/ l \in old \/ ~grant[l].active \/ ~grant[l].refreshable
  <2>1. CASE NoSession(r)
    BY <1>0, <2>1 DEF NoSession, Found
  <2>2. CASE SignOut(r)
    <3>1. l \in old \/ l = sid[r]
      BY <1>0, <2>2 DEF SignOut, Swept
    <3>2. pc'[r] = "answered"
      BY <1>0, <2>2 DEF SignOut, Respond, Goto, TypeOK
    <3>3. QED
      BY <2>2, <3>1, <3>2 DEF SignOut, SignsOut
  <2>3. CASE Admit(r)
    <3>1. l \in old \/ (l = sid[r] /\ store[l].refresh = Nil)
      BY <1>0, <2>3 DEF Admit, Swept
    <3>2. QED
      BY <3>1 DEF OverInv, GrantInv
  <2>4. CASE Renew(r)
    <3>1. rec[r] # Nil
      BY <1>0, <2>4 DEF Renew, SessionInv, Holds
    <3>2. QED
      BY <1>0, <2>4, <3>1 DEF Renew, Patch
  <2>5. CASE RefreshFailed(r)
    <3>1. l = sid[r] /\ pc[r] = "refreshed" /\ reply[r] = "rejected"
      BY <1>0, <2>5 DEF RefreshFailed, EndsSession, Drop
    <3>2. QED
      BY <3>1 DEF OverInv, RequestInv
  <2>6. CASE Relay(r)
    <3>1. pc[r] = "verified" /\ reply[r] = "refused" /\ kind[r] = "api"
      BY <2>6 DEF Relay
    <3>2. QED
      BY <3>1 DEF OverInv, RequestInv
  <2>7. CASE \/ \E k \in {"api", "page", "logout"} : Send(r, k)
             \/ Grants(r) \/ Rejects(r) \/ Unreachable(r) \/ RefreshUnavailable(r)
             \/ Verify(r) \/ UpstreamDown(r) \/ Receive(r)
    BY <2>7 DEF Send, Grants, Rejects, Unreachable, RefreshUnavailable, Verify, UpstreamDown, Receive
  <2>8. QED
    BY <1>2, <2>1, <2>2, <2>3, <2>4, <2>5, <2>6, <2>7 DEF RequestStep
<1>3. QED
  BY <1>1, <1>2 DEF Next

(***************************************************************************)
(* With a healthy provider a session only ends when it is over, however    *)
(* many requests refresh it at once and whatever else fails on the way.    *)
(***************************************************************************)
THEOREM SessionsEndOnlyWhenOver ==
  ASSUME Healthy
  PROVE  Spec => OnlyOverSessionsEnd
<1>1. OverInv /\ [Next]_vars
        => [\A l \in Logins : EndsWhenOver(l)]_vars
  BY DroppedForAReason DEF EndsWhenOver
<1>2. OverInv /\ [Next]_vars => OverInv'
  BY OverInvNext
<1>3. QED
  BY <1>1, <1>2, OverInvInit, PTL DEF Spec, OnlyOverSessionsEnd

-----------------------------------------------------------------------------
(* The transaction cookie.                                                 *)

\* An answer leaves the cookie alone only if it is another attempt's.
TxInv ==
  /\ VerifierGone
  /\ \A l \in Logins : login[l] = "answered" => redirect[l] \in {"signed_in", "retry"} \/ tx # l

LEMMA TxInvNext ==
  ASSUME "denied" \notin Faults, SessionInv, TxInv, [Next]_vars
  PROVE  TxInv'
<1> USE DEF requestVars, cookieVars, idpVars, loginVars
<1>0. TypeOK
  BY DEF SessionInv
<1>1. ASSUME NEW l \in Logins, LoginStep(l) PROVE TxInv'
  <2>1. CASE StartLogin(l)
    BY <1>0, <2>1 DEF TypeOK, TxInv, VerifierGone, StartLogin
  <2>2. CASE Callback(l)
    BY <1>0, <2>2 DEF TypeOK, TxInv, VerifierGone, Callback, Answer
  <2>3. CASE Exchange(l) \/ ExchangeFails(l)
    BY <1>0, <2>3 DEF TypeOK, TxInv, VerifierGone, Exchange, ExchangeFails, Answer
  <2>4. CASE LandLogin(l)
    BY <1>0, <2>4 DEF TypeOK, TxInv, VerifierGone, LandLogin, ClearsTransaction
  <2>4a. CASE ForgetTx(l)
    BY <1>0, <2>4a DEF TypeOK, TxInv, VerifierGone, ForgetTx
  <2>5. CASE \/ Outlive(l) \/ ForgetSession(l) \/ Revoke(l)
             \/ \E v \in Versions : Wane(l, v) \/ Expire(l, v)
    BY <2>5 DEF TxInv, VerifierGone, Outlive, ForgetSession, Revoke, Wane, Expire
  <2>6. QED
    BY <1>1, <2>1, <2>2, <2>3, <2>4, <2>4a, <2>5 DEF LoginStep
<1>2. ASSUME NEW r \in Requests, RequestStep(r) PROVE TxInv'
  <2>1. UNCHANGED <<tx, login, redirect>>
    BY <1>2 DEF RequestStep, Send, NoSession, SignOut, Admit, Grants, Rejects, Unreachable, Renew,
       RefreshFailed, RefreshUnavailable, Verify, UpstreamDown, Relay, Receive
  <2>2. QED
    BY <2>1 DEF TxInv, VerifierGone
<1>3. CASE UNCHANGED vars
  BY <1>3 DEF TxInv, VerifierGone, vars
<1>4. QED
  BY <1>1, <1>2, <1>3 DEF Next

(***************************************************************************)
(* No verifier outlives its attempt, in however many tabs the user signs   *)
(* in, as long as the provider sends every browser back with a code.       *)
(***************************************************************************)
THEOREM NoVerifierOutlivesItsAttempt ==
  ASSUME "denied" \notin Faults
  PROVE  Spec => []VerifierGone
<1>1. Init => TxInv
  BY DEF Init, TxInv, VerifierGone
<1>2. SessionInv /\ TxInv /\ [Next]_vars => TxInv'
  BY TxInvNext
<1>3. TxInv => VerifierGone
  BY DEF TxInv
<1>4. QED
  BY <1>1, <1>2, <1>3, SessionInvInit, SessionInvNext, PTL DEF Spec
=============================================================================
