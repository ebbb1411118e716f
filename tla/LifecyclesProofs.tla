--------------------------- MODULE LifecyclesProofs ---------------------------
(***************************************************************************)
(* Proofs about the components that keep a record of what was agreed or    *)
(* done and must act on nothing else:                                      *)
(*   OAuthEdge     one consent is one line of tokens, and the answer holds *)
(*                 in both processes.                                      *)
(*   Ventures      web evidence comes from configurations that were tried  *)
(*                 out, and behind each run stand its plan, mandate,       *)
(*                 selection and sources.                                  *)
(*   Evolution     the promotions that stand account for the contents of   *)
(*                 the files.                                              *)
(*   Conversation  an approved action is resumed and told of once, and a   *)
(*                 history holds whole exchanges.                          *)
(*   DriverStream  a coding task's result is all its tool left changed.    *)
(* They share no state and each part has its own inductive invariant.      *)
(***************************************************************************)
EXTENDS OAuthEdge, Evolution, Ventures, Conversation, DriverStream,
        FiniteSetTheorems, SequenceTheorems, TLAPS

-----------------------------------------------------------------------------
(* OAuthEdge: one consent is one line of tokens                            *)

\* The live refresh tokens that descend from a request.
LineOf(r) == {t \in Tokens : refresh[t].from = r /\ refresh[t].live}

Issuing(r) == handler.op = "issue" /\ handler.from = r

EdgeShape ==
    /\ req \in [Requests -> {"unused", "open", "approved", "rejected", "gone"}]
    /\ grants \in [Requests -> Nat]
    /\ DOMAIN refresh = Tokens

LineInv(r) ==
    /\ grants[r] <= 1
    /\ req[r] # "gone" => grants[r] = 0
    /\ grants[r] = 0 => LineOf(r) = {} /\ ~Issuing(r)
    /\ \A t, u \in LineOf(r) : t = u
    /\ Issuing(r) => LineOf(r) = {}

\* The inductive invariant.
EdgeInv == EdgeShape /\ \A r \in Requests : LineInv(r)

LEMMA EdgeInvInit == EdgeInit => EdgeInv
  BY DEF EdgeInit, EdgeInv, EdgeShape, LineInv, LineOf, Issuing, Idle, Unused

\* The routes, the gateway, the clocks and the crash that leave the tokens
\* alone: requests that are gone stay gone and no issue begins.
LEMMA QuietSteps ==
  ASSUME EdgeInv,
         UNCHANGED <<refresh, grants>>,
         handler' = handler \/ handler'.op # "issue",
         req' \in [Requests -> {"unused", "open", "approved", "rejected", "gone"}],
         \A r \in Requests : req[r] = "gone" => req'[r] = "gone"
  PROVE  EdgeInv'
<1>1. EdgeShape'
  BY DEF EdgeInv, EdgeShape
<1>2. ASSUME NEW r \in Requests PROVE LineInv(r)'
  <2>1. LineOf(r)' = LineOf(r) /\ (Issuing(r)' => Issuing(r))
    BY DEF LineOf, Issuing
  <2>2. LineInv(r) /\ grants'[r] = grants[r] /\ (req'[r] # "gone" => req[r] # "gone")
    BY DEF EdgeInv
  <2> QED
    BY <2>1, <2>2 DEF LineInv
<1> QED
  BY <1>1, <1>2 DEF EdgeInv

LEMMA CodeStep ==
  ASSUME EdgeInv, NEW q \in Requests, ConsumeAuthCode(q)
  PROVE  EdgeInv'
<1>1. /\ handler = Idle /\ req[q] = "approved"
      /\ req' = [req EXCEPT ![q] = "gone"]
      /\ grants' = [grants EXCEPT ![q] = @ + 1]
      /\ handler'.op = "issue" /\ handler'.from = q
      /\ UNCHANGED refresh
  BY DEF ConsumeAuthCode, CodeValid
<1>2. EdgeShape'
  BY <1>1 DEF EdgeInv, EdgeShape
<1>3. ASSUME NEW r \in Requests PROVE LineInv(r)'
  <2>1. LineInv(r) /\ LineOf(r)' = LineOf(r) /\ (Issuing(r)' <=> r = q)
    BY <1>1 DEF EdgeInv, LineOf, Issuing
  <2>2. CASE r = q
    <3>1. grants[r] = 0 /\ LineOf(r) = {}
      BY <1>1, <2>1, <2>2 DEF LineInv
    <3>2. grants'[r] = 1 /\ req'[r] = "gone"
      BY <1>1, <2>2, <3>1 DEF EdgeInv, EdgeShape
    <3> QED
      BY <2>1, <3>1, <3>2 DEF LineInv
  <2>3. CASE r # q
    <3>1. grants'[r] = grants[r] /\ req'[r] = req[r]
      BY <1>1, <2>3 DEF EdgeInv, EdgeShape
    <3> QED
      BY <2>1, <2>3, <3>1 DEF LineInv
  <2> QED
    BY <2>2, <2>3
<1> QED
  BY <1>2, <1>3 DEF EdgeInv

\* A token that ceases to be live leaves its line empty.
LEMMA TokenEnds ==
  ASSUME EdgeInv, NEW t \in Tokens, refresh[t].live,
         refresh' = [refresh EXCEPT ![t].live = FALSE],
         UNCHANGED <<req, grants>>, handler.op # "issue",
         \/ handler'.op # "issue"
         \/ handler'.op = "issue" /\ handler'.from = refresh[t].from
  PROVE  EdgeInv'
<1>1. EdgeShape'
  BY DEF EdgeInv, EdgeShape
<1>2. ASSUME NEW r \in Requests PROVE LineInv(r)'
  <2>1. LineOf(r)' = LineOf(r) \ {t}
    <3>1. \A u \in Tokens \ {t} : refresh'[u] = refresh[u]
      BY DEF EdgeInv, EdgeShape
    <3>2. refresh'[t].live = FALSE
      BY DEF EdgeInv, EdgeShape
    <3> QED
      BY <3>1, <3>2 DEF LineOf
  <2>2. LineInv(r) /\ grants'[r] = grants[r] /\ req'[r] = req[r]
    BY DEF EdgeInv
  <2>3. CASE refresh[t].from = r
    <3>1. t \in LineOf(r) /\ LineOf(r)' = {} /\ grants[r] # 0
      BY <2>1, <2>2, <2>3 DEF LineOf, LineInv
    <3> QED
      BY <2>2, <3>1 DEF LineInv
  <2>4. CASE refresh[t].from # r
    <3>1. ~Issuing(r)'
      BY <2>4 DEF Issuing
    <3> QED
      BY <2>1, <2>2, <3>1 DEF LineInv
  <2> QED
    BY <2>3, <2>4
<1> QED
  BY <1>1, <1>2 DEF EdgeInv

LEMMA IssueStep ==
  ASSUME EdgeInv, NEW t \in Tokens, IssueTokens(t)
  PROVE  EdgeInv'
<1>1. /\ handler.op = "issue" /\ refresh[t] = Unused
      /\ refresh' = [refresh EXCEPT ![t] =
                       [client |-> handler.client, scopes |-> SafeScopes(handler.scopes),
                        from |-> handler.from, live |-> TRUE]]
      /\ handler' = Idle /\ UNCHANGED <<req, grants>>
  BY DEF IssueTokens, requestVars
<1>2. EdgeShape'
  BY <1>1 DEF EdgeInv, EdgeShape
<1>3. ASSUME NEW r \in Requests PROVE LineInv(r)'
  <2>1. /\ LineInv(r) /\ grants'[r] = grants[r] /\ req'[r] = req[r]
        /\ ~Issuing(r)'
    BY <1>1 DEF EdgeInv, Issuing, Idle
  <2>2. /\ \A u \in Tokens \ {t} : refresh'[u] = refresh[u]
        /\ refresh'[t].from = handler.from /\ refresh'[t].live
        /\ ~refresh[t].live
    BY <1>1 DEF EdgeInv, EdgeShape, Unused
  <2>3. CASE handler.from = r
    <3>1. LineOf(r)' = {t} /\ grants[r] # 0
      BY <1>1, <2>1, <2>2, <2>3 DEF LineOf, LineInv, Issuing
    <3> QED
      BY <2>1, <3>1 DEF LineInv
  <2>4. CASE handler.from # r
    <3>1. LineOf(r)' = LineOf(r)
      BY <2>2, <2>4 DEF LineOf
    <3> QED
      BY <2>1, <3>1 DEF LineInv
  <2> QED
    BY <2>3, <2>4
<1> QED
  BY <1>2, <1>3 DEF EdgeInv

\* What is left of EdgeNext when the token endpoint, the issue and the
\* revocation of tokens are taken out.
LEMMA QuietNext ==
  ASSUME EdgeInv, [EdgeNext]_edgeVars,
         ~TokenEndpoint, \A t \in Tokens : ~IssueTokens(t) /\ ~RevokeToken(t)
  PROVE  EdgeInv'
<1> DEFINE states == {"unused", "open", "approved", "rejected", "gone"}
           quiet == /\ UNCHANGED <<refresh, grants>>
                    /\ handler' = handler \/ handler'.op # "issue"
                    /\ req' \in [Requests -> states]
                    /\ \A r \in Requests : req[r] = "gone" => req'[r] = "gone"
<1>0. req \in [Requests -> states]
  BY DEF EdgeInv, EdgeShape
<1>1. ASSUME NEW r \in Requests, NEW c \in Clients, NEW s \in SUBSET Scopes, Authorize(r, c, s)
      PROVE  quiet
  BY <1>0, <1>1 DEF Authorize, CreatePendingAuth, tokenVars
<1>2. ASSUME NEW r \in Requests, NEW op \in {"approve", "reject"}, NEW h \in BOOLEAN,
             MarkDecision(r, op, h)
      PROVE  quiet
  BY <1>0, <1>2 DEF MarkDecision, tokenVars, requestVars, Idle
<1>3. ASSUME NEW r \in Requests, NEW to,
             GatewayMoves(r, to) \/ RequestLapses(r) \/ RowLapses(r)
      PROVE  quiet
  BY <1>0, <1>3 DEF GatewayMoves, RequestLapses, RowLapses, tokenVars, requestVars
<1>4. ASSUME SubmitProposal \/ OauthLogin \/ OauthLogout \/ IssueFails PROVE quiet
  BY <1>0, <1>4 DEF SubmitProposal, OauthLogin, OauthLogout, IssueFails, tokenVars, requestVars,
                    Idle
<1>5. ASSUME SubmitFails PROVE quiet
  BY <1>0, <1>5 DEF SubmitFails, tokenVars, Idle
<1>6. ASSUME ApproveAuth PROVE quiet
  BY <1>0, <1>6 DEF ApproveAuth, MintCode, tokenVars, Idle
<1>7. ASSUME RejectAuth PROVE quiet
  BY <1>0, <1>7 DEF RejectAuth, MarkRejected, PendingAuth, tokenVars, Idle
<1>8. ASSUME NEW c, NEW a, NEW o, NEW mcpTool, NEW readable,
             \/ Authenticate(c, a) \/ DirectToken(c, o) \/ Forward(c, mcpTool, readable)
             \/ AccessLapses(a)
      PROVE  quiet
  BY <1>0, <1>8 DEF Authenticate, DirectToken, Forward, AccessLapses, tokenVars, requestVars
<1>9. ASSUME Restart PROVE quiet
  BY <1>0, <1>9 DEF Restart, tokenVars, Idle
<1>10. ASSUME UNCHANGED edgeVars PROVE quiet
  BY <1>0, <1>10 DEF edgeVars, tokenVars, requestVars
<1>11. quiet
  <2> HIDE DEF quiet
  <2> QED
    BY <1>1, <1>2, <1>3, <1>4, <1>5, <1>6, <1>7, <1>8, <1>9, <1>10 DEF EdgeNext
<1> QED
  BY <1>11, QuietSteps

\* A code is exchanged at most once and its line has at most one valid refresh
\* token, the one about to be issued included (consume_auth_code,
\* consume_refresh_token, issue_refresh_token of the token store), whatever
\* the number of requests, tokens, clients and restarts of the edge.
THEOREM OneConsentOneLine == EdgeSpec => []OneLinePerConsent
<1>1. EdgeInit => EdgeInv
  BY EdgeInvInit
<1>2. ASSUME EdgeInv, [EdgeNext]_edgeVars
      PROVE  EdgeInv'
  <2>1. ASSUME NEW r \in Requests, ConsumeAuthCode(r) PROVE EdgeInv'
    BY <1>2, <2>1, CodeStep
  <2>2. ASSUME NEW t \in Tokens, NEW c, ConsumeRefreshToken(t, c) PROVE EdgeInv'
    <3>1. /\ refresh[t].live /\ refresh' = [refresh EXCEPT ![t].live = FALSE]
          /\ UNCHANGED <<req, grants>> /\ handler.op # "issue"
          /\ handler'.op = "issue" /\ handler'.from = refresh[t].from
      BY <2>2 DEF ConsumeRefreshToken, Accepts, requestVars, Idle
    <3> QED
      BY <1>2, <3>1, TokenEnds
  <2>3. ASSUME NEW t \in Tokens, RevokeToken(t) PROVE EdgeInv'
    <3>1. /\ refresh[t].live /\ refresh' = [refresh EXCEPT ![t].live = FALSE]
          /\ UNCHANGED <<req, grants>> /\ handler.op # "issue" /\ handler'.op # "issue"
      BY <2>3 DEF RevokeToken, requestVars, Idle
    <3> QED
      BY <1>2, <3>1, TokenEnds
  <2>4. ASSUME NEW t \in Tokens, IssueTokens(t) PROVE EdgeInv'
    BY <1>2, <2>4, IssueStep
  <2>5. TokenEndpoint => EdgeInv'
    BY <2>1, <2>2 DEF TokenEndpoint
  <2> QED
    BY <1>2, <2>3, <2>4, <2>5, QuietNext
<1>3. EdgeInv => OneLinePerConsent
  BY DEF EdgeInv, LineInv, LineOf, Issuing, OneLinePerConsent
<1> QED
  BY <1>1, <1>2, <1>3, PTL DEF EdgeSpec

-----------------------------------------------------------------------------
(* OAuthEdge: the answer of the Founder holds                              *)

\* A token, or one about to be issued, within what its request showed.
Within(rows, shown, a) ==
    /\ a.from \in Requests /\ rows[a.from] \in Granted
    /\ a.scopes \subseteq shown[a.from].scopes

Fine(rows, shown, a) ==
    Within(rows, shown, a) /\ ("mutate" \in a.scopes => a.how = "code")

\* What a call in flight may hold.
Vouched(rows, shown, x) ==
    \/ x.op = "oauth" /\ Fine(rows, shown, x.token) /\ x.scopes = x.token.scopes
    \/ x.op = "operator-direct"
    \/ x.op = "developer-direct" /\ x.scopes = {"read"}

\* What may have gone upstream: checked, or under a token that was vouched for.
Proper(rows, shown, p) ==
    Vouched(rows, shown, p.call) /\ (p.checked => p.op \in p.call.scopes)

\* Request and row: nothing is decided, sent or exchanged without the row.
RequestInv ==
    /\ DOMAIN req = Requests /\ DOMAIN row = Requests /\ DOMAIN asked = Requests
    /\ DOMAIN told = Requests /\ DOMAIN grants = Requests
    /\ \A r \in Requests :
          /\ req[r] = "unused" => row[r] = "absent"
          /\ req[r] = "approved" => row[r] \in Granted
          /\ ("code" \in told[r] \/ grants[r] > 0) => row[r] \in Granted
          /\ "denied" \in told[r] => row[r] = "rejected"
          /\ "mutate" \in asked[r].scopes => asked[r].client \in Authority
    /\ handler.op = "submit" =>
          /\ handler.req \in Requests /\ row[handler.req] = "absent" /\ req[handler.req] # "unused"
          /\ "mutate" \in handler.scopes => handler.client \in Authority

ScopeInv ==
    /\ DOMAIN refresh = Tokens /\ DOMAIN call = Calls
    /\ \A a \in access : Fine(row, asked, a)
    /\ \A t \in Tokens : refresh[t].live =>
          Within(row, asked, refresh[t]) /\ "mutate" \notin refresh[t].scopes
    /\ handler.op = "issue" => Fine(row, asked, handler)
    /\ \A c \in Calls : call[c] = Idle \/ Vouched(row, asked, call[c])
    /\ proxied = Idle \/ Proper(row, asked, proxied)

ConsentInv == RequestInv /\ ScopeInv

\* An answer that was given stays, and so does what it was given to.
AnswersStay ==
    \A r \in Requests :
       /\ row[r] \in Granted => row'[r] \in Granted /\ asked'[r] = asked[r]
       /\ row[r] = "rejected" => row'[r] = "rejected"

LEMMA StaysFine ==
  ASSUME AnswersStay
  PROVE  /\ \A a : Within(row, asked, a) => Within(row', asked', a)
         /\ \A a : Fine(row, asked, a) => Fine(row', asked', a)
         /\ \A x : Vouched(row, asked, x) => Vouched(row', asked', x)
<1>1. \A a : Within(row, asked, a) => Within(row', asked', a)
  BY DEF AnswersStay, Within
<1>2. \A a : Fine(row, asked, a) => Fine(row', asked', a)
  BY <1>1 DEF Fine
<1> QED
  BY <1>1, <1>2 DEF Vouched

\* Steps that issue nothing and let nothing through.
LEMMA ScopesStay ==
  ASSUME ScopeInv, AnswersStay, DOMAIN refresh' = Tokens, DOMAIN call' = Calls,
         access' \subseteq access,
         \A t \in Tokens : refresh'[t].live => refresh'[t] = refresh[t],
         handler' = handler \/ handler'.op # "issue",
         \A c \in Calls : call'[c] = call[c] \/ call'[c] = Idle,
         UNCHANGED proxied
  PROVE  ScopeInv'
  BY StaysFine DEF ScopeInv, Proper

\* The routes between authorize and the answer.
LEMMA RequestSteps ==
  ASSUME RequestInv, NEW r \in Requests,
         \/ \E c \in Clients, s \in SUBSET Scopes : Authorize(r, c, s)
         \/ \E op \in {"approve", "reject"}, h \in BOOLEAN : MarkDecision(r, op, h)
         \/ \E to \in {"approved", "rejected", "expired", "executing", "consumed"} : GatewayMoves(r, to)
         \/ RequestLapses(r) \/ RowLapses(r)
  PROVE  /\ RequestInv' /\ AnswersStay /\ UNCHANGED <<tokenVars, callVars>>
         /\ handler' = handler \/ handler'.op # "issue"
<1>1. ASSUME NEW c \in Clients, NEW s \in SUBSET Scopes, Authorize(r, c, s)
      PROVE  /\ RequestInv' /\ AnswersStay /\ UNCHANGED <<tokenVars, callVars>>
             /\ handler'.op # "issue"
  <2>1. /\ req[r] = "unused" /\ req' = [req EXCEPT ![r] = "open"]
        /\ handler'.op = "submit" /\ handler'.req = r /\ handler'.client = c
        /\ handler'.scopes = EffectiveScopes(c, s)
        /\ UNCHANGED <<row, asked, told, grants, tokenVars, callVars>>
    BY <1>1 DEF Authorize, CreatePendingAuth, rowVars, tokenVars
  <2>2. "mutate" \in EffectiveScopes(c, s) => c \in Authority
    BY DEF EffectiveScopes
  <2> QED
    BY <2>1, <2>2 DEF RequestInv, AnswersStay
<1>2. ASSUME row' = [row EXCEPT ![r] = row'[r]],
             row[r] # "absent", row[r] = "rejected" => row'[r] = "rejected",
             row[r] \in Granted => row'[r] \in Granted,
             handler' = handler \/ handler'.op \notin {"issue", "submit"},
             UNCHANGED <<req, asked, told, grants>>
      PROVE  RequestInv' /\ AnswersStay
  <2>1. DOMAIN row' = Requests /\ \A q \in Requests \ {r} : row'[q] = row[q]
    BY <1>2 DEF RequestInv
  <2>2. AnswersStay
    BY <1>2, <2>1 DEF AnswersStay
  <2>3. handler'.op = "submit" => handler' = handler /\ handler.req # r
    BY <1>2 DEF RequestInv
  <2>4. \A q \in Requests : req[q] = "unused" => row'[q] = "absent"
    BY <1>2, <2>1 DEF RequestInv
  <2> QED
    BY <1>2, <2>1, <2>2, <2>3, <2>4 DEF RequestInv, AnswersStay
<1>3. ASSUME NEW op \in {"approve", "reject"}, NEW h, MarkDecision(r, op, h)
      PROVE  /\ RequestInv' /\ AnswersStay /\ UNCHANGED <<tokenVars, callVars>>
             /\ handler'.op # "issue"
  <2>1. /\ row[r] # "absent"
        /\ row' = [row EXCEPT ![r] = Decided(r, IF op = "approve" THEN "approved" ELSE "rejected")]
        /\ handler'.op \notin {"issue", "submit"}
        /\ UNCHANGED <<req, asked, told, grants, tokenVars, callVars>>
    BY <1>3 DEF MarkDecision, requestVars, tokenVars, Idle
  <2>2. /\ row' = [row EXCEPT ![r] = row'[r]]
        /\ row[r] = "rejected" => row'[r] = "rejected"
        /\ row[r] \in Granted => row'[r] \in Granted
    BY <2>1 DEF RequestInv, Decided, Granted
  <2> QED
    BY <1>2, <2>1, <2>2
<1>4. ASSUME NEW to, GatewayMoves(r, to)
      PROVE  /\ RequestInv' /\ AnswersStay /\ UNCHANGED <<tokenVars, callVars, handler>>
  <2>1. /\ row' = [row EXCEPT ![r] = to] /\ row[r] \in {"pending", "approved", "executing"}
        /\ row[r] \in Granted => to \in Granted
        /\ UNCHANGED <<req, asked, told, grants, tokenVars, callVars, handler>>
    BY <1>4 DEF GatewayMoves, requestVars, tokenVars, Granted
  <2>2. row' = [row EXCEPT ![r] = row'[r]] /\ row'[r] = to
    BY <2>1 DEF RequestInv
  <2> QED
    BY <1>2, <2>1, <2>2
<1>5. CASE RequestLapses(r) \/ RowLapses(r)
  <2>1. UNCHANGED <<req, row, asked, told, grants, tokenVars, callVars, handler>>
    BY <1>5 DEF RequestLapses, RowLapses, requestVars, rowVars, tokenVars
  <2> QED
    BY <2>1 DEF RequestInv, AnswersStay
<1> QED
  BY <1>1, <1>3, <1>4, <1>5

\* The second transactions of the routes, the page and the restart.
LEMMA HandlerSteps ==
  ASSUME RequestInv,
         \/ SubmitProposal \/ SubmitFails \/ ApproveAuth \/ RejectAuth
         \/ OauthLogin \/ OauthLogout \/ Restart
  PROVE  /\ RequestInv' /\ AnswersStay /\ UNCHANGED <<tokenVars, proxied>>
         /\ handler' = handler \/ handler'.op # "issue"
         /\ call' = call \/ call' = [c \in Calls |-> Idle]
<1>1. CASE SubmitProposal
  <2> DEFINE r == handler.req
  <2>1. /\ handler.op = "submit" /\ handler' = Idle
        /\ row' = [row EXCEPT ![r] = "pending"]
        /\ asked' = [asked EXCEPT ![r] = [client |-> handler.client, scopes |-> handler.scopes]]
        /\ UNCHANGED <<req, told, grants, tokenVars, callVars>>
    BY <1>1 DEF SubmitProposal, tokenVars
  <2>2. r \in Requests /\ row[r] = "absent" /\ req[r] # "unused" /\ req[r] # "approved"
        /\ ("mutate" \in handler.scopes => handler.client \in Authority)
    BY <2>1 DEF RequestInv, Granted
  <2>3. AnswersStay
    BY <2>1, <2>2 DEF RequestInv, AnswersStay, Granted
  <2>4. ASSUME NEW q \in Requests
        PROVE  /\ req'[q] = "unused" => row'[q] = "absent"
               /\ req'[q] = "approved" => row'[q] \in Granted
               /\ ("code" \in told'[q] \/ grants'[q] > 0) => row'[q] \in Granted
               /\ "denied" \in told'[q] => row'[q] = "rejected"
               /\ "mutate" \in asked'[q].scopes => asked'[q].client \in Authority
    BY <2>1, <2>2, <2>3 DEF RequestInv, AnswersStay
  <2> QED
    BY <2>1, <2>3, <2>4 DEF RequestInv, Idle, callVars
<1>2. CASE SubmitFails
  <2>1. /\ req' = [req EXCEPT ![handler.req] = "gone"] /\ handler' = Idle
        /\ UNCHANGED <<row, asked, told, grants, tokenVars, callVars>>
    BY <1>2 DEF SubmitFails, rowVars, tokenVars
  <2> QED
    BY <2>1 DEF RequestInv, AnswersStay, Idle, callVars
<1>3. CASE ApproveAuth \/ RejectAuth
  <2> DEFINE r == handler.req
  <2>1. handler' = Idle /\ UNCHANGED <<row, asked, grants, tokenVars, callVars>>
    BY <1>3 DEF ApproveAuth, RejectAuth, rowVars, tokenVars
  <2>2. \/ UNCHANGED <<req, told>>
        \/ /\ row[r] = "approved" /\ req' = [req EXCEPT ![r] = "approved"]
           /\ told' = [told EXCEPT ![r] = @ \cup {"code"}]
        \/ /\ row[r] = "rejected" /\ req' = [req EXCEPT ![r] = req'[r]]
           /\ req'[r] \in {"rejected", "gone"} \/ r \notin Requests
           /\ told' = [told EXCEPT ![r] = @ \cup {"denied"}]
    BY <1>3 DEF ApproveAuth, RejectAuth, MintCode, MarkRejected, RequestInv
  <2>3. ASSUME NEW q \in Requests
        PROVE  /\ req'[q] = "unused" => row'[q] = "absent"
               /\ req'[q] = "approved" => row'[q] \in Granted
               /\ ("code" \in told'[q] \/ grants'[q] > 0) => row'[q] \in Granted
               /\ "denied" \in told'[q] => row'[q] = "rejected"
    BY <2>1, <2>2 DEF RequestInv, Granted
  <2>4. DOMAIN req' = Requests /\ DOMAIN told' = Requests
    BY <2>2 DEF RequestInv
  <2> QED
    BY <2>1, <2>3, <2>4 DEF RequestInv, AnswersStay, Idle, callVars
<1>4. CASE OauthLogin \/ OauthLogout
  <2>1. UNCHANGED <<req, row, asked, told, grants, tokenVars, callVars, handler>>
    BY <1>4 DEF OauthLogin, OauthLogout, rowVars, tokenVars
  <2> QED
    BY <2>1 DEF RequestInv, AnswersStay, callVars
<1>5. CASE Restart
  <2>1. /\ req' = [r \in Requests |-> IF req[r] = "unused" THEN "unused" ELSE "gone"]
        /\ handler' = Idle /\ call' = [c \in Calls |-> Idle]
        /\ UNCHANGED <<row, asked, told, grants, tokenVars, proxied>>
    BY <1>5 DEF Restart, rowVars, tokenVars
  <2> QED
    BY <2>1 DEF RequestInv, AnswersStay, Idle
<1> QED
  BY <1>1, <1>2, <1>3, <1>4, <1>5

\* The token endpoint and what it hands out.
LEMMA TokenSteps ==
  ASSUME ConsentInv,
         \/ TokenEndpoint \/ IssueFails
         \/ \E t \in Tokens : IssueTokens(t) \/ RevokeToken(t)
         \/ \E a \in access : AccessLapses(a)
  PROVE  ConsentInv'
<1>1. UNCHANGED <<row, asked, told, callVars>> /\ AnswersStay
  BY DEF TokenEndpoint, ConsumeAuthCode, ConsumeRefreshToken, IssueFails, IssueTokens, RevokeToken,
         AccessLapses, requestVars, rowVars, AnswersStay
<1>2. ASSUME NEW r \in Requests, ConsumeAuthCode(r) PROVE ConsentInv'
  <2>1. /\ req[r] = "approved" /\ req' = [req EXCEPT ![r] = "gone"]
        /\ grants' = [grants EXCEPT ![r] = @ + 1]
        /\ handler' = [op |-> "issue", from |-> r, how |-> "code",
                       client |-> asked[r].client, scopes |-> asked[r].scopes]
        /\ UNCHANGED <<refresh, access>>
    BY <1>2 DEF ConsumeAuthCode, CodeValid
  <2>2. row[r] \in Granted
    BY <2>1 DEF ConsentInv, RequestInv
  <2>3. RequestInv'
    BY <1>1, <2>1, <2>2 DEF ConsentInv, RequestInv
  <2>4. Fine(row, asked, handler')
    BY <2>1, <2>2 DEF Fine, Within
  <2> QED
    BY <1>1, <2>1, <2>3, <2>4 DEF ConsentInv, ScopeInv, callVars
<1>3. ASSUME NEW t \in Tokens, NEW c, ConsumeRefreshToken(t, c) PROVE ConsentInv'
  <2>1. /\ refresh[t].live /\ refresh' = [refresh EXCEPT ![t].live = FALSE]
        /\ handler' = [op |-> "issue", from |-> refresh[t].from, how |-> "refresh",
                       client |-> c, scopes |-> refresh[t].scopes]
        /\ UNCHANGED <<req, access, grants>>
    BY <1>3 DEF ConsumeRefreshToken, Accepts, requestVars
  <2>2. RequestInv'
    BY <1>1, <2>1 DEF ConsentInv, RequestInv
  <2>3. Fine(row, asked, handler')
    BY <2>1 DEF ConsentInv, ScopeInv, Fine, Within
  <2>4. DOMAIN refresh' = Tokens /\ \A u \in Tokens : refresh'[u].live => refresh'[u] = refresh[u]
    BY <2>1 DEF ConsentInv, ScopeInv
  <2> QED
    BY <1>1, <2>1, <2>2, <2>3, <2>4 DEF ConsentInv, ScopeInv, callVars
<1>4. ASSUME NEW t \in Tokens, IssueTokens(t) PROVE ConsentInv'
  <2> DEFINE a == [from |-> handler.from, how |-> handler.how, scopes |-> handler.scopes]
             new == [client |-> handler.client, scopes |-> SafeScopes(handler.scopes),
                     from |-> handler.from, live |-> TRUE]
  <2>1. /\ handler.op = "issue" /\ handler' = Idle
        /\ access' = access \cup {a} /\ refresh' = [refresh EXCEPT ![t] = new]
        /\ UNCHANGED <<req, grants>>
    BY <1>4 DEF IssueTokens, requestVars
  <2>2. Fine(row, asked, handler)
    BY <2>1 DEF ConsentInv, ScopeInv
  <2>3. Fine(row, asked, a) /\ Within(row, asked, new) /\ "mutate" \notin new.scopes
    BY <2>2 DEF Fine, Within, SafeScopes
  <2>4. DOMAIN refresh' = Tokens /\ \A u \in Tokens : refresh'[u] = refresh[u] \/ refresh'[u] = new
    BY <2>1 DEF ConsentInv, ScopeInv
  <2> HIDE DEF a, new
  <2>5. RequestInv'
    BY <1>1, <2>1 DEF ConsentInv, RequestInv, Idle
  <2> QED
    BY <1>1, <2>1, <2>3, <2>4, <2>5 DEF ConsentInv, ScopeInv, Idle, callVars
<1>5. ASSUME NEW t \in Tokens, RevokeToken(t) PROVE ConsentInv'
  <2>1. UNCHANGED <<req, grants, handler, access>> /\ refresh' = [refresh EXCEPT ![t].live = FALSE]
    BY <1>5 DEF RevokeToken, requestVars
  <2>2. DOMAIN refresh' = Tokens /\ \A u \in Tokens : refresh'[u].live => refresh'[u] = refresh[u]
    BY <2>1 DEF ConsentInv, ScopeInv
  <2>3. RequestInv'
    BY <1>1, <2>1 DEF ConsentInv, RequestInv
  <2> QED
    BY <1>1, <2>1, <2>2, <2>3 DEF ConsentInv, ScopeInv, callVars
<1>6. ASSUME NEW a, IssueFails \/ AccessLapses(a) PROVE ConsentInv'
  <2>1. /\ UNCHANGED <<req, grants, refresh>> /\ (handler' = handler \/ handler' = Idle)
        /\ access' \subseteq access
    BY <1>6 DEF IssueFails, AccessLapses, requestVars, tokenVars
  <2>2. RequestInv'
    BY <1>1, <2>1 DEF ConsentInv, RequestInv, Idle
  <2> QED
    BY <1>1, <2>1, <2>2 DEF ConsentInv, ScopeInv, Idle, callVars
<1> QED
  BY <1>2, <1>3, <1>4, <1>5, <1>6 DEF TokenEndpoint

\* The proxy.
LEMMA ProxySteps ==
  ASSUME ConsentInv, NEW c \in Calls,
         \/ \E a \in access : Authenticate(c, a)
         \/ \E o \in BOOLEAN : DirectToken(c, o)
         \/ \E mcpTool \in {"read", "mutate"}, readable \in BOOLEAN : Forward(c, mcpTool, readable)
  PROVE  ConsentInv'
<1>1. UNCHANGED <<req, row, asked, told, tokenVars, handler>>
  BY DEF Authenticate, DirectToken, Forward, requestVars, rowVars
<1>2. UNCHANGED <<grants, refresh, access>>
  BY <1>1 DEF tokenVars
<1>3. RequestInv'
  BY <1>1, <1>2 DEF ConsentInv, RequestInv
<1>4. ASSUME NEW x, x = Idle \/ Vouched(row, asked, x), call' = [call EXCEPT ![c] = x],
             proxied' = Idle \/ Proper(row, asked, proxied')
      PROVE  ConsentInv'
  <2>1. DOMAIN call' = Calls /\ \A d \in Calls : call'[d] = call[d] \/ call'[d] = x
    BY <1>4 DEF ConsentInv, ScopeInv
  <2> QED
    BY <1>1, <1>2, <1>3, <1>4, <2>1 DEF ConsentInv, ScopeInv
<1>5. ASSUME NEW a \in access, Authenticate(c, a) PROVE ConsentInv'
  <2> DEFINE x == [op |-> "oauth", token |-> a, scopes |-> a.scopes]
  <2>1. call' = [call EXCEPT ![c] = x] /\ UNCHANGED proxied
    BY <1>5 DEF Authenticate
  <2>2. Vouched(row, asked, x)
    BY DEF ConsentInv, ScopeInv, Vouched
  <2> HIDE DEF x
  <2> QED
    BY <1>4, <2>1, <2>2 DEF ConsentInv, ScopeInv
<1>6. ASSUME NEW o \in BOOLEAN, DirectToken(c, o) PROVE ConsentInv'
  <2> DEFINE x == IF o THEN [op |-> "operator-direct", scopes |-> {"read", "mutate"}]
                       ELSE [op |-> "developer-direct", scopes |-> {"read"}]
  <2>1. call' = [call EXCEPT ![c] = x] /\ UNCHANGED proxied
    BY <1>6 DEF DirectToken
  <2>2. Vouched(row, asked, x)
    BY DEF Vouched
  <2> HIDE DEF x
  <2> QED
    BY <1>4, <2>1, <2>2 DEF ConsentInv, ScopeInv
<1>7. ASSUME NEW mcpTool \in {"read", "mutate"}, NEW readable \in BOOLEAN,
             Forward(c, mcpTool, readable)
      PROVE  ConsentInv'
  <2>1. /\ call[c] # Idle /\ call' = [call EXCEPT ![c] = Idle]
        /\ \/ UNCHANGED proxied
           \/ /\ readable => ToolScopes[mcpTool] \subseteq call[c].scopes
              /\ proxied' = [op |-> mcpTool, checked |-> readable, call |-> call[c]]
    BY <1>7 DEF Forward
  <2>2. mcpTool \in ToolScopes[mcpTool]
    BY DEF ToolScopes
  <2>3. Vouched(row, asked, call[c])
    BY <2>1 DEF ConsentInv, ScopeInv
  <2>4. proxied' = Idle \/ Proper(row, asked, proxied')
    BY <2>1, <2>2, <2>3 DEF ConsentInv, ScopeInv, Proper
  <2> QED
    BY <1>4, <2>1, <2>4
<1> QED
  BY <1>5, <1>6, <1>7

LEMMA ConsentInvMeans == ConsentInv => ConsentHonoured
<1> SUFFICES ASSUME ConsentInv PROVE ConsentHonoured
  OBVIOUS
<1>1. \A a : Within(row, asked, a) =>
         /\ a.scopes \subseteq asked[a.from].scopes
         /\ "mutate" \in a.scopes => asked[a.from].client \in Authority
  BY DEF ConsentInv, RequestInv, Within
<1>2. \A a : Fine(row, asked, a) =>
         /\ a.scopes \subseteq asked[a.from].scopes
         /\ "mutate" \in a.scopes => asked[a.from].client \in Authority
         /\ "mutate" \in a.scopes => a.how = "code"
  BY <1>1 DEF Fine
<1>3. ScopesAsConsented
  BY <1>1, <1>2 DEF ConsentInv, ScopeInv, ScopesAsConsented, Proper, Vouched
<1> QED
  BY <1>3 DEF ConsentInv, RequestInv, ConsentHonoured

\* The Founder's answer holds in both processes: a code or a token only for a
\* row that was approved, a denial only for one that was rejected, and no scope
\* beyond the ones the approved row showed, through rotation and restarts; a
\* call that was checked stays within them, one on which the check raised goes
\* out unchecked (approve_auth, reject_auth, the token endpoint, mcp_proxy).
THEOREM ConsentIsHonoured == EdgeSpec => []ConsentHonoured
<1>1. EdgeInit => ConsentInv
  BY DEF EdgeInit, ConsentInv, RequestInv, ScopeInv, Idle, Unused
<1>2. ConsentInv /\ [EdgeNext]_edgeVars => ConsentInv'
  <2> SUFFICES ASSUME ConsentInv, [EdgeNext]_edgeVars PROVE ConsentInv'
    OBVIOUS
  <2>1. ASSUME RequestInv', AnswersStay, UNCHANGED <<tokenVars, proxied>>,
               handler' = handler \/ handler'.op # "issue",
               call' = call \/ call' = [c \in Calls |-> Idle]
        PROVE  ConsentInv'
    <3>1. UNCHANGED <<refresh, access>>
      BY <2>1 DEF tokenVars
    <3>2. DOMAIN call' = Calls /\ \A c \in Calls : call'[c] = call[c] \/ call'[c] = Idle
      BY <2>1 DEF ConsentInv, ScopeInv
    <3> QED
      BY <2>1, <3>1, <3>2, ScopesStay DEF ConsentInv, ScopeInv
  <2>2. CASE UNCHANGED edgeVars
    <3>1. UNCHANGED <<req, row, asked, told, grants, refresh, access, call, proxied, handler>>
      BY <2>2 DEF edgeVars, requestVars, rowVars, tokenVars, callVars
    <3> QED
      BY <3>1 DEF ConsentInv, RequestInv, ScopeInv
  <2>3. ASSUME NEW r \in Requests,
               \/ \E c \in Clients, s \in SUBSET Scopes : Authorize(r, c, s)
               \/ \E op \in {"approve", "reject"}, h \in BOOLEAN : MarkDecision(r, op, h)
               \/ \E to \in {"approved", "rejected", "expired", "executing", "consumed"} :
                     GatewayMoves(r, to)
               \/ RequestLapses(r) \/ RowLapses(r)
        PROVE  ConsentInv'
    <3>1. /\ RequestInv' /\ AnswersStay /\ UNCHANGED <<tokenVars, callVars>>
          /\ handler' = handler \/ handler'.op # "issue"
      BY <2>3, RequestSteps DEF ConsentInv
    <3> QED
      BY <2>1, <3>1 DEF callVars
  <2>4. CASE SubmitProposal \/ SubmitFails \/ ApproveAuth \/ RejectAuth
             \/ OauthLogin \/ OauthLogout \/ Restart
    BY <2>1, <2>4, HandlerSteps DEF ConsentInv
  <2>5. CASE \/ TokenEndpoint \/ IssueFails
             \/ \E t \in Tokens : IssueTokens(t) \/ RevokeToken(t)
             \/ \E a \in access : AccessLapses(a)
    BY <2>5, TokenSteps
  <2>6. ASSUME NEW c \in Calls,
               \/ \E a \in access : Authenticate(c, a)
               \/ \E o \in BOOLEAN : DirectToken(c, o)
               \/ \E mcpTool \in {"read", "mutate"}, readable \in BOOLEAN : Forward(c, mcpTool, readable)
        PROVE  ConsentInv'
    BY <2>6, ProxySteps
  <2> QED
    BY <2>2, <2>3, <2>4, <2>5, <2>6 DEF EdgeNext
<1>3. ConsentInv => ConsentHonoured
  BY ConsentInvMeans
<1> QED
  BY <1>1, <1>2, <1>3, PTL DEF EdgeSpec

-----------------------------------------------------------------------------
(* Ventures: evidence comes from sources that were tried out               *)

\* The exact configuration of the source was enabled and passed a canary.
TriedOut(a, s) == s \notin Disabled /\ <<a, s>> \in canaryPassed

\* What a fetch may be let through under: nothing, for a catalog.
Vetted(a, s) == IF s = NoSetting THEN a \in Catalogs ELSE TriedOut(a, s)

\* The inductive invariant.
WebInv ==
    /\ DOMAIN receipt = Adapters /\ DOMAIN settings = Adapters
    /\ \A a \in Adapters : settings[a] \in Seq(Settings)
                           /\ (settings[a] = <<>> => a \in Catalogs)
    /\ \A a \in Adapters : receipt[a].state = "passed" => TriedOut(a, receipt[a].setting)
    /\ \A c \in webCalls : c.adapter \in Adapters
    /\ \A c \in webCalls : c.kind \in {"acquire", "scout"} => Vetted(c.adapter, c.setting)
    /\ EvidenceConformed

LEMMA WebInvInit == VenturesInit => WebInv
<1> SUFFICES ASSUME VenturesInit PROVE WebInv
  OBVIOUS
<1>1. Unconfigured \in Settings
  BY VenturesAssumption
<1>2. \A a \in Adapters : settings[a] \in Seq(Settings) /\ (settings[a] = <<>> => a \in Catalogs)
  BY <1>1 DEF VenturesInit
<1> QED
  BY <1>2 DEF VenturesInit, WebInv, EvidenceConformed

\* A source with configurations has a latest one.
LEMMA LatestThere ==
  ASSUME WebInv, NEW a \in Adapters, ~HasConfiguration(a)
  PROVE  a \in Catalogs
<1> SUFFICES ASSUME settings[a] # <<>> PROVE FALSE
  BY DEF WebInv
<1>1. settings[a] \in Seq(Settings) /\ Len(settings[a]) \in 1..Len(settings[a])
  BY DEF WebInv
<1>2. Latest(a) \in Settings
  BY <1>1 DEF Latest, Last
<1> QED
  BY <1>2, VenturesAssumption DEF HasConfiguration

\* A receipt that still counts is for the configuration in force.
LEMMA EligibleVetted ==
  ASSUME WebInv, NEW a \in Adapters, Eligible(a)
  PROVE  Vetted(a, Latest(a))
<1>1. CASE ~HasConfiguration(a)
  BY <1>1, LatestThere DEF HasConfiguration, Vetted
<1>2. CASE HasConfiguration(a)
  BY <1>2 DEF WebInv, Eligible, Conformed, EffectiveConformance, HasConfiguration, Vetted
<1> QED
  BY <1>1, <1>2

LEMMA AwaitStep ==
  ASSUME WebInv, NEW a \in Adapters, NEW kind, Await(kind, a),
         kind \in {"acquire", "scout"} => Eligible(a)
  PROVE  WebInv'
<1> DEFINE fetch == [kind |-> kind, adapter |-> a, setting |-> Latest(a)]
<1>1. webCalls' = webCalls \cup {fetch}
      /\ UNCHANGED <<settings, receipt, canaryPassed, evidence>>
  BY DEF Await
<1>2. kind \in {"acquire", "scout"} => Vetted(a, Latest(a))
  BY EligibleVetted
<1> QED
  BY <1>1, <1>2 DEF WebInv, Vetted, TriedOut, EvidenceConformed

\* What is entered last is in force until more is entered.
LEMMA ConfigureStep ==
  ASSUME WebInv, NEW a \in Adapters, NEW s \in Settings, ConfigureSource(a, s)
  PROVE  WebInv'
<1>1. /\ settings' = [settings EXCEPT ![a] = IF s \in ToSet(@) THEN @ ELSE Append(@, s)]
      /\ UNCHANGED <<receipt, canaryPassed, webCalls, evidence>>
  BY DEF ConfigureSource, AddConfiguration
<1>2. ASSUME NEW q \in Seq(Settings)
      PROVE  Append(q, s) \in Seq(Settings) /\ Append(q, s) # <<>>
  <2>1. Append(q, s) \in Seq(Settings) /\ Len(Append(q, s)) = Len(q) + 1
    OBVIOUS
  <2>2. Len(Append(q, s)) # 0 /\ Len(<<>>) = 0
    BY <2>1
  <2> QED
    BY <2>1, <2>2
<1>3. /\ DOMAIN settings' = Adapters
      /\ \A b \in Adapters : settings'[b] \in Seq(Settings)
                             /\ (settings'[b] = <<>> => b \in Catalogs)
  BY <1>1, <1>2 DEF WebInv
<1> QED
  BY <1>1, <1>3 DEF WebInv, Vetted, TriedOut, EvidenceConformed

LEMMA ConformStep ==
  ASSUME WebInv, NEW fetch \in webCalls, NEW state, FinishConform(fetch, state)
  PROVE  WebInv'
<1> DEFINE a == fetch.adapter
           s == fetch.setting
<1>1. /\ a \in Adapters
      /\ state = "passed" => s \notin Disabled /\ <<a, s>> \in canaryPassed'
      /\ canaryPassed \subseteq canaryPassed'
      /\ webCalls' \subseteq webCalls /\ UNCHANGED <<settings, evidence>>
  BY DEF WebInv, FinishConform
<1>2. \/ UNCHANGED receipt
      \/ receipt' = [receipt EXCEPT ![a] = [setting |-> s, state |-> state]]
  BY DEF FinishConform, RecordConformance
<1>3. DOMAIN receipt' = Adapters
      /\ \A b \in Adapters : receipt'[b].state = "passed" => TriedOut(b, receipt[b].setting)'
  <2>1. DOMAIN receipt = Adapters
        /\ \A b \in Adapters : receipt[b].state = "passed" =>
              receipt[b].setting \notin Disabled /\ <<b, receipt[b].setting>> \in canaryPassed
    BY DEF WebInv, TriedOut
  <2> QED
    BY <1>1, <1>2, <2>1 DEF TriedOut
<1>4. \A c \in webCalls' : /\ c.adapter \in Adapters
                           /\ c.kind \in {"acquire", "scout"} =>
                                 IF c.setting = NoSetting THEN c.adapter \in Catalogs
                                 ELSE /\ c.setting \notin Disabled
                                      /\ <<c.adapter, c.setting>> \in canaryPassed'
  BY <1>1 DEF WebInv, Vetted, TriedOut
<1>5. EvidenceConformed'
  BY <1>1 DEF WebInv, EvidenceConformed
<1> QED
  BY <1>1, <1>3, <1>4, <1>5 DEF WebInv, Vetted, TriedOut

LEMMA FetchStep ==
  ASSUME WebInv, NEW fetch \in webCalls, NEW stance, Fetched(fetch, stance)
  PROVE  WebInv'
<1>1. /\ fetch.kind \in {"acquire", "scout"}
      /\ webCalls' \subseteq webCalls /\ UNCHANGED <<settings, receipt, canaryPassed>>
  BY DEF Fetched
<1>2. \A e \in evidence' : \/ e \in evidence
                           \/ e.claim.source = fetch.adapter /\ e.under = fetch.setting
  BY DEF Fetched, RecordSnapshot
<1> QED
  BY <1>1, <1>2 DEF WebInv, Vetted, TriedOut, EvidenceConformed

\* All else leaves receipts, calls and evidence, or takes them away.
LEMMA OtherSteps ==
  ASSUME WebInv, UNCHANGED <<settings, canaryPassed, evidence>>, webCalls' \subseteq webCalls,
         \/ UNCHANGED receipt
         \/ \E a \in Adapters : receipt' = [receipt EXCEPT ![a].state = "expired"]
  PROVE  WebInv'
<1>1. CASE UNCHANGED receipt
  BY <1>1 DEF WebInv, Vetted, TriedOut, EvidenceConformed
<1>2. ASSUME NEW a \in Adapters, receipt' = [receipt EXCEPT ![a].state = "expired"]
      PROVE  WebInv'
  <2>1. receipt'[a].state # "passed" /\ \A b \in Adapters \ {a} : receipt'[b] = receipt[b]
    BY <1>2 DEF WebInv
  <2>2. DOMAIN receipt' = Adapters
    BY <1>2 DEF WebInv
  <2> QED
    BY <2>1, <2>2 DEF WebInv, Vetted, TriedOut, EvidenceConformed
<1> QED
  BY <1>1, <1>2

\* Whatever an acquisition or a scout run fetched from a configured source, the
\* exact configuration in force when it was let through was enabled and had
\* passed a canary (record_conformance, effective_conformance, acquire and the
\* guard of the mesh), whatever is configured while canaries and fetches are
\* awaited; and what no configuration stands behind is from a static catalog.
THEOREM EvidenceIsConformed == VenturesSpec => []EvidenceConformed
<1>1. VenturesInit => WebInv
  BY WebInvInit
<1>2. ASSUME WebInv, [VenturesNext]_venturesVars
      PROVE  WebInv'
  <2>1. CASE WebRoutes
    <3>1. ASSUME NEW a \in Adapters, StartConform(a) \/ StartAcquire(a)
          PROVE  WebInv'
      <4>1. PICK kind : Await(kind, a) /\ (kind \in {"acquire", "scout"} => Eligible(a))
        BY <3>1 DEF StartConform, StartAcquire, Eligible
      <4> QED
        BY <1>2, <4>1, AwaitStep
    <3>2. ASSUME NEW a \in Adapters, NEW s \in Settings, ConfigureSource(a, s)
          PROVE  WebInv'
      BY <1>2, <3>2, ConfigureStep
    <3>3. ASSUME NEW fetch \in webCalls, NEW state, FinishConform(fetch, state)
          PROVE  WebInv'
      BY <1>2, <3>3, ConformStep
    <3>4. ASSUME NEW fetch \in webCalls, NEW stance, Fetched(fetch, stance)
          PROVE  WebInv'
      BY <1>2, <3>4, FetchStep
    <3>5. ASSUME NEW fetch, NEW state, WebCallEnds(fetch) \/ DiscoverSources \/ DecideSource(state)
          PROVE  WebInv'
      BY <1>2, <3>5, OtherSteps DEF WebCallEnds, DiscoverSources, DecideSource
    <3> QED
      BY <2>1, <3>1, <3>2, <3>3, <3>4, <3>5 DEF WebRoutes
  <2>2. CASE ScoutRoute
    BY <1>2, <2>2, AwaitStep DEF ScoutRoute, StartScout
  <2>3. CASE OpportunityRoutes \/ ExperimentRoutes \/ \E m \in mandates : MandateExpires(m)
    <3>1. UNCHANGED webVars
      BY <2>3 DEF OpportunityRoutes, SynthesizeCandidate, DecideCandidate, IssueMandate,
                  ExperimentRoutes, CreatePlan, RunExperiment, DecideReview, MandateExpires
    <3> QED
      BY <1>2, <3>1, OtherSteps DEF webVars
  <2>4. ASSUME NEW a \in Adapters, ReceiptLapses(a)
        PROVE  WebInv'
    BY <1>2, <2>4, OtherSteps DEF ReceiptLapses
  <2>5. CASE UNCHANGED venturesVars
    BY <1>2, <2>5, OtherSteps DEF venturesVars, webVars
  <2> QED
    BY <1>2, <2>1, <2>2, <2>3, <2>4, <2>5 DEF VenturesNext
<1>3. WebInv => EvidenceConformed
  BY DEF WebInv
<1> QED
  BY <1>1, <1>2, <1>3, PTL DEF VenturesSpec

-----------------------------------------------------------------------------
(* Ventures: the reasons behind a run                                      *)

\* The reasons of an experiment, link by link: a candidate rests on recorded
\* claims, a selection on a candidate that was ready, a mandate on a selection
\* and its allocation, a plan on a mandate, a run on a plan.
Recorded(o) == \A c \in o : \E e \in evidence : e.claim = c

Selected(o) == o \in opportunities /\ decisions[o].what = "select"

\* Runs of plans among these.
RunsOf(among) ==
    [plan : among, status : {"failed", "preview-ready", "completed", "waiting-external-review"}]

BackedInv ==
    /\ DOMAIN decisions = opportunities
    /\ \A o \in opportunities : Recorded(o)
    /\ \A o \in opportunities : Selected(o) => PortfolioReady(o)
    /\ \A m \in mandates : Selected(m.candidate) /\ m.cost <= decisions[m.candidate].allocation
    /\ \A p \in plans : /\ p.mandate \in mandates /\ p.cost <= p.mandate.cost
                        /\ p.last \in {"preview", "measure", "external"}
    /\ runs \in Seq(RunsOf(plans))

\* Evidence is never taken back, so the web moves nothing.
LEMMA WebKeepsBacked ==
  ASSUME BackedInv, evidence \subseteq evidence', UNCHANGED ventureVars
  PROVE  BackedInv'
<1>1. UNCHANGED <<opportunities, decisions, mandates, plans, runs>>
  BY DEF ventureVars
<1>2. \A o \in opportunities : Recorded(o)'
  BY DEF BackedInv, Recorded
<1> QED
  BY <1>1, <1>2 DEF BackedInv, Selected, PortfolioReady

LEMMA WebGrows ==
  ASSUME WebRoutes \/ ScoutRoute \/ (\E a \in Adapters : ReceiptLapses(a))
         \/ UNCHANGED venturesVars
  PROVE  evidence \subseteq evidence' /\ UNCHANGED ventureVars
<1>1. ASSUME NEW kind, NEW a, Await(kind, a)
      PROVE  evidence \subseteq evidence' /\ UNCHANGED ventureVars
  BY <1>1 DEF Await
<1>2. ASSUME NEW fetch, NEW stance, Fetched(fetch, stance)
      PROVE  evidence \subseteq evidence' /\ UNCHANGED ventureVars
  BY <1>2 DEF Fetched, RecordSnapshot
<1>3. ASSUME NEW fetch, NEW state, FinishConform(fetch, state)
      PROVE  evidence \subseteq evidence' /\ UNCHANGED ventureVars
  BY <1>3 DEF FinishConform
<1>4. ASSUME NEW fetch, WebCallEnds(fetch)
      PROVE  evidence \subseteq evidence' /\ UNCHANGED ventureVars
  BY <1>4 DEF WebCallEnds
<1>5. ASSUME NEW a, NEW s, ConfigureSource(a, s)
      PROVE  evidence \subseteq evidence' /\ UNCHANGED ventureVars
  BY <1>5 DEF ConfigureSource
<1>6. CASE DiscoverSources \/ \E state \in {"accepted", "rejected"} : DecideSource(state)
  BY <1>6 DEF DiscoverSources, DecideSource
<1>7. ASSUME NEW a, ReceiptLapses(a)
      PROVE  evidence \subseteq evidence' /\ UNCHANGED ventureVars
  BY <1>7 DEF ReceiptLapses
<1>8. CASE UNCHANGED venturesVars
  BY <1>8 DEF venturesVars, webVars, ventureVars
<1> QED
  BY <1>1, <1>2, <1>3, <1>4, <1>5, <1>6, <1>7, <1>8
     DEF WebRoutes, ScoutRoute, StartConform, StartAcquire, StartScout

LEMMA CandidateStep ==
  ASSUME BackedInv, NEW o,
         SynthesizeCandidate(o)
           \/ \E what, allocation : DecideCandidate(o, what, allocation)
  PROVE  BackedInv'
<1>1. UNCHANGED <<evidence, mandates, plans, runs>>
  BY DEF SynthesizeCandidate, DecideCandidate, webVars
<1>2. CASE SynthesizeCandidate(o)
  <2>1. /\ opportunities' = opportunities \cup {o}
        /\ decisions' = [x \in opportunities \cup {o} |->
                            IF x \in opportunities THEN decisions[x]
                            ELSE [what |-> "none", allocation |-> 0]]
        /\ o \subseteq {e.claim : e \in evidence}
    BY <1>2 DEF SynthesizeCandidate
  <2>2. DOMAIN decisions' = opportunities' /\ \A x \in opportunities : decisions'[x] = decisions[x]
    BY <2>1
  <2>3. o \notin opportunities => decisions'[o].what # "select"
    BY <2>1
  <2>4. Recorded(o) /\ \A x \in opportunities' : Recorded(x)'
    BY <1>1, <2>1 DEF BackedInv, Recorded
  <2>5. \A x \in opportunities' : Selected(x)' => Selected(x)
    BY <2>1, <2>2, <2>3 DEF Selected
  <2>6. \A x \in opportunities : Selected(x) => Selected(x)'
    BY <2>1, <2>2 DEF Selected
  <2>7. \A m \in mandates : m.candidate \in opportunities
    BY DEF BackedInv, Selected
  <2> QED
    BY <1>1, <2>1, <2>2, <2>4, <2>5, <2>6, <2>7 DEF BackedInv, PortfolioReady, Selected
<1>3. ASSUME NEW what, NEW allocation, DecideCandidate(o, what, allocation)
      PROVE  BackedInv'
  <2>1. /\ o \in opportunities /\ decisions[o].what = "none"
        /\ what = "select" => PortfolioReady(o)
        /\ decisions' = [decisions EXCEPT ![o] = [what |-> what, allocation |-> allocation]]
        /\ UNCHANGED opportunities
    BY <1>3 DEF DecideCandidate
  <2>2. DOMAIN decisions' = opportunities /\ decisions'[o].what = what
        /\ \A x \in opportunities \ {o} : decisions'[x] = decisions[x]
    BY <2>1 DEF BackedInv
  <2>3. \A m \in mandates : m.candidate \in opportunities \ {o}
    BY <2>1 DEF BackedInv, Selected
  <2>4. \A x \in opportunities : Recorded(x)'
    BY <1>1 DEF BackedInv, Recorded
  <2>5. \A x \in opportunities : Selected(x)' => PortfolioReady(x)
    BY <2>1, <2>2 DEF BackedInv, Selected
  <2>6. \A m \in mandates : Selected(m.candidate)' /\ m.cost <= decisions'[m.candidate].allocation
    BY <2>1, <2>2, <2>3 DEF BackedInv, Selected
  <2> QED
    BY <1>1, <2>1, <2>2, <2>4, <2>5, <2>6 DEF BackedInv, PortfolioReady
<1> QED
  BY <1>2, <1>3

LEMMA RunStep ==
  ASSUME BackedInv, NEW p, NEW ok, RunExperiment(p, ok)
  PROVE  BackedInv'
<1>1. p \in plans /\ UNCHANGED <<evidence, opportunities, decisions, mandates, plans>>
  BY DEF RunExperiment, webVars
<1>2. PICK status \in {"failed", "preview-ready", "completed", "waiting-external-review"} :
        runs' = Append(runs, [plan |-> p, status |-> status])
  <2>1. p.last \in {"preview", "measure", "external"}
    BY <1>1 DEF BackedInv
  <2> QED
    BY <2>1 DEF RunExperiment
<1>3. [plan |-> p, status |-> status] \in RunsOf(plans)
  BY <1>1 DEF RunsOf
<1>4. runs' \in Seq(RunsOf(plans'))
  BY <1>1, <1>2, <1>3 DEF BackedInv
<1> QED
  BY <1>1, <1>4 DEF BackedInv, Recorded, Selected, PortfolioReady

\* Behind every run stands its plan, behind the plan its mandate, behind the
\* mandate the selection of a candidate and its allocation, and behind the
\* candidate enough independent and recorded sources none of which contradicts
\* it, for any sources, costs and numbers of candidates, mandates, plans and
\* runs (synthesize_candidate, decide, issue_mandate, create_plan, run).
THEOREM RunsAreBacked == VenturesSpec => []RunsBacked
<1>1. VenturesInit => BackedInv
  <2> SUFFICES ASSUME VenturesInit PROVE BackedInv
    OBVIOUS
  <2>1. runs \in Seq({}) /\ DOMAIN runs = {}
    BY DEF VenturesInit
  <2> QED
    BY <2>1 DEF VenturesInit, BackedInv
<1>2. BackedInv /\ [VenturesNext]_venturesVars => BackedInv'
  <2> SUFFICES ASSUME BackedInv, [VenturesNext]_venturesVars PROVE BackedInv'
    OBVIOUS
  <2>1. CASE WebRoutes \/ ScoutRoute \/ (\E a \in Adapters : ReceiptLapses(a))
             \/ UNCHANGED venturesVars
    BY <2>1, WebGrows, WebKeepsBacked
  <2>2. ASSUME NEW m, IssueMandate(m) PROVE BackedInv'
    BY <2>2 DEF IssueMandate, Mandatable, webVars, BackedInv, Recorded, Selected, PortfolioReady
  <2>3. ASSUME NEW p, CreatePlan(p), p.last \in {"preview", "measure", "external"}
        PROVE  BackedInv'
    <3>1. /\ p.mandate \in mandates /\ p.cost <= p.mandate.cost /\ plans' = plans \cup {p}
          /\ UNCHANGED <<evidence, opportunities, decisions, mandates, runs>>
      BY <2>3 DEF CreatePlan, webVars
    <3>2. RunsOf(plans) \subseteq RunsOf(plans')
      BY <3>1 DEF RunsOf
    <3>3. Seq(RunsOf(plans)) \subseteq Seq(RunsOf(plans'))
      BY <3>2, SeqMonotonic, Zenon
    <3>4. runs' \in Seq(RunsOf(plans'))
      BY <3>1, <3>3 DEF BackedInv
    <3> QED
      BY <2>3, <3>1, <3>4 DEF BackedInv, Recorded, Selected, PortfolioReady
  <2>4. ASSUME NEW r, NEW state, NEW m, DecideReview(r, state) \/ MandateExpires(m)
        PROVE  BackedInv'
    BY <2>4 DEF DecideReview, MandateExpires, webVars, BackedInv, Recorded, Selected, PortfolioReady
  <2>5. CASE OpportunityRoutes
    BY <2>2, <2>5, CandidateStep DEF OpportunityRoutes
  <2>6. CASE ExperimentRoutes
    BY <2>3, <2>4, <2>6, RunStep DEF ExperimentRoutes
  <2> QED
    BY <2>1, <2>4, <2>5, <2>6 DEF VenturesNext
<1>3. BackedInv => RunsBacked
  <2> SUFFICES ASSUME BackedInv PROVE RunsBacked
    OBVIOUS
  <2>1. \A i \in DOMAIN runs : runs[i] \in RunsOf(plans)
    BY DEF BackedInv
  <2>2. \A i \in DOMAIN runs : runs[i].plan \in plans
    BY <2>1 DEF RunsOf
  <2> QED
    BY <2>2 DEF BackedInv, RunsBacked, Recorded, Selected
<1> QED
  BY <1>1, <1>2, <1>3, PTL DEF VenturesSpec

-----------------------------------------------------------------------------
(* Evolution: the ledger accounts for the workspace                        *)

\* The promotions of a file that stand.
Stands(rows, c) == rows[c].lineage # "rolled-back" /\ rows[c].decision = "promote"

Standing(rows, f) == {c \in DOMAIN rows : c.file = f /\ Stands(rows, c)}

Entered(L, x) == Cardinality({c \in L : c.new = x})
Left(L, x) == Cardinality({c \in L : c.base = x})

\* Promotions that lead from the original content to now.
LeadsTo(L, now) ==
    \A x \in EvoContents :
       Entered(L, x) + (IF x = EvoOriginal THEN 1 ELSE 0) = Left(L, x) + (IF x = now THEN 1 ELSE 0)

EvoTypes ==
    /\ workspace \in [EvoFiles -> EvoContents]
    /\ Known \subseteq CandidateKeys /\ proposing \subseteq CandidateKeys
    /\ IsFiniteSet(Known)
    /\ candidates \in [Known -> CandidateRows]

\* A decision without its lineage is unknown; a lineage without its decision
\* only where a write failed.
RowsTrue ==
    \A c \in Known :
       /\ candidates[c].decision = "promote" => candidates[c].lineage # "none"
       /\ candidates[c].lineage = "promoted" /\ candidates[c].decision # "promote" => c.file \in edited

EvoInv ==
    /\ EvoTypes /\ RowsTrue
    /\ \A f \in EvoFiles \ edited : LeadsTo(Standing(candidates, f), workspace[f])

LEMMA OneMore ==
  ASSUME NEW M, IsFiniteSet(M), NEW c, c \notin M, NEW N, N = M \cup {c}, NEW x
  PROVE  /\ Entered(M, x) \in Nat /\ Left(M, x) \in Nat
         /\ Entered(N, x) = Entered(M, x) + (IF c.new = x THEN 1 ELSE 0)
         /\ Left(N, x) = Left(M, x) + (IF c.base = x THEN 1 ELSE 0)
<1> DEFINE E == {d \in M : d.new = x}
           B == {d \in M : d.base = x}
<1>1. IsFiniteSet(E) /\ IsFiniteSet(B) /\ Cardinality(E) \in Nat /\ Cardinality(B) \in Nat
  BY FS_Subset, FS_CardinalityType
<1>2. c \notin E /\ c \notin B
  OBVIOUS
<1>3. Cardinality(E \cup {c}) = Cardinality(E) + 1 /\ Cardinality(B \cup {c}) = Cardinality(B) + 1
  BY <1>1, <1>2, FS_AddElement
<1> DEFINE E2 == {d \in N : d.new = x}
           B2 == {d \in N : d.base = x}
<1>4. E2 = IF c.new = x THEN E \cup {c} ELSE E
  OBVIOUS
<1>5. B2 = IF c.base = x THEN B \cup {c} ELSE B
  OBVIOUS
<1>6. /\ Entered(M, x) = Cardinality(E) /\ Left(M, x) = Cardinality(B)
      /\ Entered(N, x) = Cardinality(E2) /\ Left(N, x) = Cardinality(B2)
  BY DEF Entered, Left
<1> HIDE DEF E, B, E2, B2
<1> QED
  BY <1>1, <1>3, <1>4, <1>5, <1>6

\* A promotion leads on from its baseline, and back when it is taken back.
LEMMA PromotionLeads ==
  ASSUME NEW M, IsFiniteSet(M), NEW c, c \notin M, NEW N, N = M \cup {c}
  PROVE  LeadsTo(M, c.base) <=> LeadsTo(N, c.new)
<1>1. ASSUME NEW x \in EvoContents
      PROVE  (Entered(M, x) + (IF x = EvoOriginal THEN 1 ELSE 0)
                = Left(M, x) + (IF x = c.base THEN 1 ELSE 0))
             <=> (Entered(N, x) + (IF x = EvoOriginal THEN 1 ELSE 0)
                = Left(N, x) + (IF x = c.new THEN 1 ELSE 0))
  <2> DEFINE e == Entered(M, x)
             b == Left(M, x)
             n == IF x = c.new THEN 1 ELSE 0
             o == IF x = EvoOriginal THEN 1 ELSE 0
             k == IF x = c.base THEN 1 ELSE 0
  <2>1. e \in Nat /\ b \in Nat /\ Entered(N, x) = e + n /\ Left(N, x) = b + k
    <3>1. /\ Entered(M, x) \in Nat /\ Left(M, x) \in Nat
          /\ Entered(N, x) = Entered(M, x) + (IF c.new = x THEN 1 ELSE 0)
          /\ Left(N, x) = Left(M, x) + (IF c.base = x THEN 1 ELSE 0)
      BY OneMore
    <3> QED
      BY <3>1
  <2>2. n \in Nat /\ o \in Nat /\ k \in Nat
    OBVIOUS
  <2> HIDE DEF e, b, n, o, k
  <2>3. (e + o = b + k) <=> ((e + n) + o = (b + k) + n)
    BY <2>1, <2>2
  <2> QED
    BY <2>1, <2>3 DEF e, b, n, o, k
<1> QED
  BY <1>1, Zenon DEF LeadsTo

\* Steps that neither add nor remove a standing promotion of a file that they
\* leave alone.
LEMMA EvoKept ==
  ASSUME EvoInv, EvoTypes', RowsTrue', edited \subseteq edited',
         \A f \in EvoFiles \ edited' :
            workspace'[f] = workspace[f] /\ Standing(candidates', f) = Standing(candidates, f)
  PROVE  EvoInv'
  BY DEF EvoInv

\* The entry of c becomes another, and the promotions that stand follow it.
RowBecomes(c, entry) ==
    /\ Known' = Known /\ candidates' \in [Known -> CandidateRows]
    /\ candidates'[c] = entry /\ \A d \in Known \ {c} : candidates'[d] = candidates[d]
    /\ \A f \in EvoFiles :
          Standing(candidates', f) =
            IF c.file = f /\ entry.lineage # "rolled-back" /\ entry.decision = "promote"
            THEN Standing(candidates, f) \cup {c} ELSE Standing(candidates, f) \ {c}
    /\ \A f \in EvoFiles : c \in Standing(candidates, f) <=> c.file = f /\ Stands(candidates, c)

LEMMA OneRow ==
  ASSUME EvoTypes, NEW c \in Known, NEW entry \in CandidateRows,
         candidates' = [candidates EXCEPT ![c] = entry]
  PROVE  RowBecomes(c, entry)
<1>1. /\ Known' = Known /\ candidates' \in [Known -> CandidateRows]
      /\ candidates'[c] = entry /\ \A d \in Known \ {c} : candidates'[d] = candidates[d]
  BY DEF EvoTypes, Known
<1>2. DOMAIN candidates' = Known /\ DOMAIN candidates = Known
  BY <1>1 DEF Known
<1>3. ASSUME NEW f, NEW d
      PROVE  d \in Standing(candidates', f) <=>
               IF d = c THEN c.file = f /\ entry.lineage # "rolled-back" /\ entry.decision = "promote"
               ELSE d \in Standing(candidates, f)
  BY <1>1, <1>2 DEF Standing, Stands
<1>4. ASSUME NEW f
      PROVE  Standing(candidates', f) =
               IF c.file = f /\ entry.lineage # "rolled-back" /\ entry.decision = "promote"
               THEN Standing(candidates, f) \cup {c} ELSE Standing(candidates, f) \ {c}
  BY <1>3
<1>5. \A f \in EvoFiles : c \in Standing(candidates, f) <=> c.file = f /\ Stands(candidates, c)
  BY <1>2 DEF Standing
<1> QED
  BY <1>1, <1>4, <1>5 DEF RowBecomes

LEMMA StandingIsItsFile == \A f, c : c \in Standing(candidates, f) => c.file = f
  BY DEF Standing

\* One entry changes, and with it whether its promotion stands, on a file that
\* is set apart, or not.
LEMMA RowStep ==
  ASSUME EvoInv, NEW c \in Known, NEW entry \in CandidateRows,
         candidates' = [candidates EXCEPT ![c] = entry],
         UNCHANGED workspace, proposing' \subseteq CandidateKeys,
         edited \subseteq edited',
         entry.decision = "promote" => entry.lineage # "none",
         entry.lineage = "promoted" /\ entry.decision # "promote" => c.file \in edited',
         c.file \in edited'
           \/ ((entry.lineage # "rolled-back" /\ entry.decision = "promote") <=> Stands(candidates, c))
  PROVE  EvoInv'
<1>0. RowBecomes(c, entry)
  BY OneRow DEF EvoInv
<1>1. EvoTypes' /\ RowsTrue'
  BY <1>0 DEF RowBecomes, EvoInv, EvoTypes, RowsTrue
<1>2. ASSUME NEW f \in EvoFiles \ edited'
      PROVE  workspace'[f] = workspace[f] /\ Standing(candidates', f) = Standing(candidates, f)
  <2>1. c \in Standing(candidates, f) <=> c.file = f /\ Stands(candidates, c)
    BY <1>0 DEF RowBecomes
  <2>2. c \in Standing(candidates, f)
          <=> c.file = f /\ entry.lineage # "rolled-back" /\ entry.decision = "promote"
    BY <2>1
  <2>3. Standing(candidates', f) = IF c \in Standing(candidates, f)
                                   THEN Standing(candidates, f) \cup {c}
                                   ELSE Standing(candidates, f) \ {c}
    BY <1>0, <2>2 DEF RowBecomes
  <2>4. \A S : (c \in S => S \cup {c} = S) /\ (c \notin S => S \ {c} = S)
    OBVIOUS
  <2> QED
    BY <2>3, <2>4
<1> QED
  BY <1>1, <1>2, EvoKept

LEMMA StandingIsFinite ==
  ASSUME EvoTypes, NEW f
  PROVE  IsFiniteSet(Standing(candidates, f) ) /\ \A c : IsFiniteSet(Standing(candidates, f) \ {c})
<1>1. Standing(candidates, f) \subseteq Known /\ \A c : Standing(candidates, f) \ {c} \subseteq Known
  BY DEF Standing, Known
<1> QED
  BY <1>1, FS_Subset DEF EvoTypes

LEMMA ApproveStep ==
  ASSUME EvoInv, NEW c \in Known, ApproveCandidate(c)
  PROVE  EvoInv'
<1> DEFINE entry == [candidates[c] EXCEPT !.lineage = "promoted", !.decision = "promote"]
           f == c.file
<1>1. /\ candidates[c].decision = "none" /\ workspace[f] = c.base
      /\ workspace' = [workspace EXCEPT ![f] = c.new] /\ UNCHANGED <<proposing, edited>>
  BY DEF ApproveCandidate, Promotable
<1>2. candidates[c] \in CandidateRows /\ f \in EvoFiles /\ c.new \in EvoContents
  BY DEF EvoInv, EvoTypes, CandidateKeys
<1>3. entry \in CandidateRows /\ entry.lineage = "promoted" /\ entry.decision = "promote"
  BY <1>2 DEF CandidateRows
<1>4. candidates' = [candidates EXCEPT ![c] = entry]
  BY <1>2 DEF ApproveCandidate, AddLineage, EvoInv, EvoTypes
<1> HIDE DEF entry, f
<1>5. EvoTypes /\ RowBecomes(c, entry)
  BY <1>3, <1>4, OneRow DEF EvoInv
<1>6. EvoTypes' /\ RowsTrue'
  <2>1. workspace' \in [EvoFiles -> EvoContents]
    BY <1>1, <1>2, <1>5 DEF EvoTypes
  <2> QED
    BY <1>1, <1>3, <1>5, <2>1 DEF RowBecomes, EvoInv, EvoTypes, RowsTrue
<1>7. ASSUME NEW g \in EvoFiles \ edited'
      PROVE  LeadsTo(Standing(candidates', g), workspace'[g])
  <2>1. CASE g = f
    <3> DEFINE M == Standing(candidates, f)
    <3>1. c \notin M /\ Standing(candidates', f) = M \cup {c}
      BY <1>1, <1>2, <1>3, <1>5 DEF RowBecomes, Stands, f
    <3>2. IsFiniteSet(M) /\ LeadsTo(M, c.base)
      BY <1>1, <1>5, <2>1, StandingIsFinite DEF EvoInv
    <3>3. workspace'[f] = c.new
      BY <1>1, <1>2, <1>5 DEF EvoTypes
    <3> HIDE DEF M
    <3> QED
      BY <2>1, <3>1, <3>2, <3>3, PromotionLeads
  <2>2. CASE g # f
    <3>1. Standing(candidates', g) = Standing(candidates, g)
      <4>1. c \notin Standing(candidates, g)
        BY <2>2, StandingIsItsFile DEF f
      <4> QED
        BY <1>5, <2>2, <4>1 DEF RowBecomes, f
    <3>2. workspace'[g] = workspace[g]
      BY <1>1, <1>5, <2>2 DEF EvoTypes
    <3> QED
      BY <1>1, <3>1, <3>2 DEF EvoInv
  <2> QED
    BY <2>1, <2>2
<1> QED
  BY <1>6, <1>7 DEF EvoInv

LEMMA RollbackStep ==
  ASSUME EvoInv, NEW c \in Known, RollbackLineage(c)
  PROVE  EvoInv'
<1> DEFINE entry == [candidates[c] EXCEPT !.lineage = "rolled-back"]
           f == c.file
<1>1. /\ candidates[c].lineage = "promoted" /\ workspace[f] = c.new
      /\ workspace' = [workspace EXCEPT ![f] = c.base] /\ UNCHANGED <<proposing, edited>>
  BY DEF RollbackLineage, Restorable
<1>2. candidates[c] \in CandidateRows /\ f \in EvoFiles /\ c.base \in EvoContents
  BY DEF EvoInv, EvoTypes, CandidateKeys
<1>3. entry \in CandidateRows /\ entry.lineage = "rolled-back"
  BY <1>2 DEF CandidateRows
<1>4. candidates' = [candidates EXCEPT ![c] = entry]
  BY <1>2 DEF RollbackLineage, AddRollback, EvoInv, EvoTypes
<1> HIDE DEF entry, f
<1>5. EvoTypes /\ RowBecomes(c, entry)
  BY <1>3, <1>4, OneRow DEF EvoInv
<1>6. EvoTypes' /\ RowsTrue'
  <2>1. workspace' \in [EvoFiles -> EvoContents]
    BY <1>1, <1>2, <1>5 DEF EvoTypes
  <2> QED
    BY <1>1, <1>3, <1>5, <2>1 DEF RowBecomes, EvoInv, EvoTypes, RowsTrue
<1>7. ASSUME NEW g \in EvoFiles \ edited'
      PROVE  LeadsTo(Standing(candidates', g), workspace'[g])
  <2>1. CASE g = f
    <3> DEFINE M == Standing(candidates, f) \ {c}
    <3>1. candidates[c].decision = "promote"
      BY <1>1, <2>1 DEF EvoInv, RowsTrue, f
    <3>2. c \in Standing(candidates, f)
      BY <1>1, <1>2, <1>5, <3>1 DEF RowBecomes, Stands, f
    <3>3. c \notin M /\ Standing(candidates, f) = M \cup {c} /\ Standing(candidates', f) = M
      BY <1>2, <1>3, <1>5, <3>2 DEF RowBecomes
    <3>4. IsFiniteSet(M) /\ LeadsTo(Standing(candidates, f), c.new)
      BY <1>1, <1>5, <2>1, StandingIsFinite DEF EvoInv
    <3>5. workspace'[f] = c.base
      BY <1>1, <1>2, <1>5 DEF EvoTypes
    <3> HIDE DEF M
    <3> QED
      BY <2>1, <3>3, <3>4, <3>5, PromotionLeads
  <2>2. CASE g # f
    <3>1. Standing(candidates', g) = Standing(candidates, g)
      <4>1. c \notin Standing(candidates, g)
        BY <2>2, StandingIsItsFile DEF f
      <4> QED
        BY <1>5, <2>2, <4>1 DEF RowBecomes, f
    <3>2. workspace'[g] = workspace[g]
      BY <1>1, <1>5, <2>2 DEF EvoTypes
    <3> QED
      BY <1>1, <3>1, <3>2 DEF EvoInv
  <2> QED
    BY <2>1, <2>2
<1> QED
  BY <1>6, <1>7 DEF EvoInv

\* A file that a hand or a crash changes is set apart.
LEMMA FileStep ==
  ASSUME EvoInv, NEW f, NEW x, f \in EvoFiles => x \in EvoContents,
         workspace' = [workspace EXCEPT ![f] = x],
         edited' = edited \cup {f}, UNCHANGED candidates, proposing' \subseteq CandidateKeys
  PROVE  EvoInv'
<1>1. workspace' \in [EvoFiles -> EvoContents]
  BY DEF EvoInv, EvoTypes
<1>2. EvoTypes' /\ RowsTrue'
  BY <1>1 DEF EvoInv, EvoTypes, RowsTrue, Known
<1>3. \A g \in EvoFiles \ edited' : workspace'[g] = workspace[g]
  BY DEF EvoInv, EvoTypes
<1> QED
  BY <1>2, <1>3, EvoKept

\* Nothing changes but what is under way.
LEMMA QuietEvo ==
  ASSUME EvoInv, UNCHANGED <<workspace, candidates, edited>>, proposing' \subseteq CandidateKeys
  PROVE  EvoInv'
  BY DEF EvoInv, EvoTypes, RowsTrue, Known

LEMMA LinkStep ==
  ASSUME EvoInv, NEW c \in Known, candidates[c].decision = "none",
         candidates' = AddLineage(candidates, c), UNCHANGED workspace,
         c.file \in edited', edited \subseteq edited', proposing' \subseteq CandidateKeys
  PROVE  EvoInv'
<1> DEFINE entry == [candidates[c] EXCEPT !.lineage = "promoted"]
<1>1. candidates[c] \in CandidateRows
  BY DEF EvoInv, EvoTypes
<1>2. entry \in CandidateRows /\ entry.lineage = "promoted" /\ entry.decision = "none"
  BY <1>1 DEF CandidateRows
<1>3. candidates' = [candidates EXCEPT ![c] = entry]
  BY DEF AddLineage, EvoInv, EvoTypes
<1> HIDE DEF entry
<1> QED
  BY <1>2, <1>3, RowStep

LEMMA ProposeStep ==
  ASSUME EvoInv, NEW c \in CandidateKeys, ProposeCandidate(c)
  PROVE  EvoInv'
<1>1. UNCHANGED <<workspace, edited>> /\ proposing' \subseteq CandidateKeys
  BY DEF ProposeCandidate, EvoInv, EvoTypes
<1>2. CASE UNCHANGED candidates
  BY <1>1, <1>2, QuietEvo
<1>3. CASE AddCandidate(c)
  <2>1. /\ Known' = Known \cup {c} /\ IsFiniteSet(Known')
        /\ \A d \in Known : candidates'[d] = candidates[d]
        /\ c \notin Known => candidates'[c] = NewRow
    BY <1>3, FS_AddElement DEF AddCandidate, Known, EvoInv, EvoTypes
  <2>2. NewRow \in CandidateRows /\ NewRow.decision = "none" /\ NewRow.lineage = "none"
    BY DEF NewRow, CandidateRows
  <2>3. candidates' \in [Known' -> CandidateRows]
    BY <1>3, <2>1, <2>2 DEF AddCandidate, EvoInv, EvoTypes
  <2>4. EvoTypes' /\ RowsTrue'
    BY <1>1, <2>1, <2>2, <2>3 DEF EvoInv, EvoTypes, RowsTrue
  <2>5. ASSUME NEW f PROVE Standing(candidates', f) = Standing(candidates, f)
    BY <2>1, <2>2 DEF Standing, Stands, Known
  <2> QED
    BY <1>1, <2>4, <2>5, EvoKept
<1> QED
  BY <1>2, <1>3 DEF ProposeCandidate

LEMMA EvaluateStep ==
  ASSUME EvoInv, NEW c \in Known, NEW v \in {"passed", "failed"}, FinishEvaluation(c, v)
  PROVE  EvoInv'
<1> DEFINE e == IF candidates[c].evaluation = "none" THEN v ELSE candidates[c].evaluation
           entry == [candidates[c] EXCEPT !.evaluation = e]
<1>1. candidates[c] \in CandidateRows
  BY DEF EvoInv, EvoTypes
<1>2. entry \in CandidateRows /\ entry.lineage = candidates[c].lineage /\ entry.decision = candidates[c].decision
  BY <1>1 DEF CandidateRows
<1>3. candidates' = [candidates EXCEPT ![c] = entry]
  BY DEF FinishEvaluation, AddEvaluation, EvoInv, EvoTypes
<1>4. UNCHANGED <<workspace, edited>> /\ proposing' \subseteq CandidateKeys
  BY DEF FinishEvaluation, EvoInv, EvoTypes
<1> HIDE DEF entry
<1> QED
  BY <1>2, <1>3, <1>4, RowStep DEF EvoInv, RowsTrue, Stands

LEMMA RejectStep ==
  ASSUME EvoInv, NEW c \in Known, RejectCandidate(c)
  PROVE  EvoInv'
<1> DEFINE entry == [candidates[c] EXCEPT !.decision = "reject"]
<1>1. candidates[c] \in CandidateRows
  BY DEF EvoInv, EvoTypes
<1>2. entry \in CandidateRows /\ entry.lineage = candidates[c].lineage /\ entry.decision = "reject"
  BY <1>1 DEF CandidateRows
<1>3. candidates' = [candidates EXCEPT ![c] = entry] /\ candidates[c].decision = "none"
  BY DEF RejectCandidate, Decide, EvoInv, EvoTypes
<1>4. UNCHANGED <<workspace, edited>> /\ proposing' \subseteq CandidateKeys
  BY DEF RejectCandidate, EvoInv, EvoTypes
<1> HIDE DEF entry
<1> QED
  BY <1>2, <1>3, <1>4, RowStep DEF EvoInv, RowsTrue, Stands

\* A write fails, or the gateway ends between two.
LEMMA FaultStep ==
  ASSUME EvoInv, EvoCrash \/ \E c \in Known, linked \in BOOLEAN : ApprovalFails(c, linked)
  PROVE  EvoInv'
<1>1. ASSUME NEW c \in Known, NEW linked \in BOOLEAN, ApprovalFails(c, linked) PROVE EvoInv'
  <2>1. candidates[c].decision = "none" /\ UNCHANGED workspace /\ proposing' \subseteq CandidateKeys
    BY <1>1 DEF ApprovalFails, EvoInv, EvoTypes
  <2>2. CASE linked
    BY <1>1, <2>1, <2>2, LinkStep DEF ApprovalFails
  <2>3. CASE ~linked
    BY <1>1, <2>1, <2>3, QuietEvo DEF ApprovalFails
  <2> QED
    BY <2>2, <2>3
<1>2. CASE EvoCrash
  <2>1. proposing' \subseteq CandidateKeys
    BY <1>2 DEF EvoCrash
  <2>2. CASE UNCHANGED <<workspace, candidates, edited>>
    BY <2>1, <2>2, QuietEvo
  <2>3. ASSUME NEW c \in Known, NEW linked \in BOOLEAN,
               candidates[c].decision = "none",
               workspace' = [workspace EXCEPT ![c.file] = c.new],
               candidates' = IF linked THEN AddLineage(candidates, c) ELSE candidates,
               edited' = edited \cup {c.file}
        PROVE  EvoInv'
    <3>1. c.new \in EvoContents /\ candidates[c] \in CandidateRows
      BY DEF EvoInv, EvoTypes, CandidateKeys
    <3>2. CASE ~linked
      BY <2>1, <2>3, <3>1, <3>2, FileStep
    <3>3. CASE linked
      <4> DEFINE entry == [candidates[c] EXCEPT !.lineage = "promoted"]
      <4>1. entry \in CandidateRows /\ entry.lineage = "promoted" /\ entry.decision = "none"
        BY <2>3, <3>1 DEF CandidateRows
      <4>2. candidates' = [candidates EXCEPT ![c] = entry]
        BY <2>3, <3>3 DEF AddLineage, EvoInv, EvoTypes
      <4> HIDE DEF entry
      <4>6. RowBecomes(c, entry)
        BY <4>1, <4>2, OneRow DEF EvoInv
      <4>3. workspace' \in [EvoFiles -> EvoContents]
        BY <2>3, <3>1 DEF EvoInv, EvoTypes
      <4>4. EvoTypes' /\ RowsTrue'
        BY <2>1, <2>3, <4>1, <4>3, <4>6 DEF RowBecomes, EvoInv, EvoTypes, RowsTrue
      <4>5. ASSUME NEW f \in EvoFiles \ edited'
            PROVE  workspace'[f] = workspace[f] /\ Standing(candidates', f) = Standing(candidates, f)
        <5>1. f # c.file
          BY <2>3
        <5>2. workspace'[f] = workspace[f]
          BY <2>3, <5>1 DEF EvoInv, EvoTypes
        <5>3. c \notin Standing(candidates, f)
          BY <5>1, StandingIsItsFile
        <5> QED
          BY <4>6, <5>1, <5>2, <5>3 DEF RowBecomes
      <4> QED
        BY <2>3, <4>4, <4>5, EvoKept
    <3> QED
      BY <3>2, <3>3
  <2>4. ASSUME NEW c \in Known, workspace' = [workspace EXCEPT ![c.file] = c.base],
               edited' = edited \cup {c.file}, UNCHANGED candidates
        PROVE  EvoInv'
    <3>1. c.base \in EvoContents
      BY DEF EvoInv, EvoTypes, CandidateKeys
    <3> QED
      BY <2>1, <2>4, <3>1, FileStep
  <2> QED
    BY <1>2, <2>2, <2>3, <2>4 DEF EvoCrash
<1> QED
  BY <1>1, <1>2

LEMMA PromotedStands ==
  ASSUME EvoTypes, NEW c \in Known
  PROVE  CandidateStatus(c) = "promoted" <=> Stands(candidates, c)
<1>1. candidates[c].decision \in {"none", "promote", "reject"}
  BY DEF EvoTypes, CandidateRows
<1>2. "rolled-back" # "promoted" /\ "rejected" # "promoted" /\ "verified" # "promoted"
      /\ "proposed" # "promoted" /\ "promote" # "none" /\ "promote" # "reject" /\ "none" # "reject"
  OBVIOUS
<1>3. CASE candidates[c].lineage = "rolled-back"
  BY <1>2, <1>3, Zenon DEF CandidateStatus, Stands
<1>4. CASE candidates[c].lineage # "rolled-back" /\ candidates[c].decision = "promote"
  BY <1>2, <1>4, Zenon DEF CandidateStatus, Stands
<1>5. CASE candidates[c].lineage # "rolled-back" /\ candidates[c].decision = "reject"
  BY <1>2, <1>5, Zenon DEF CandidateStatus, Stands
<1>6. CASE candidates[c].lineage # "rolled-back" /\ candidates[c].decision = "none"
  BY <1>2, <1>6, Zenon DEF CandidateStatus, Stands
<1> QED
  BY <1>1, <1>3, <1>4, <1>5, <1>6

\* The ledger accounts for the workspace: on every file that no hand and no
\* lost record has touched, the promotions that stand lead from the original
\* content to the one that is there, for any files, contents and numbers of
\* candidates (decide and rollback of engine.py, the hash checks of
\* LocalArtifactPromoter).
THEOREM LedgerIsComplete == EvoSpec => []LedgerAccounts
<1>1. EvoInit => EvoInv
  <2> SUFFICES ASSUME EvoInit PROVE EvoInv
    OBVIOUS
  <2>1. Known = {} /\ IsFiniteSet(Known) /\ proposing = {}
    BY FS_EmptySet DEF EvoInit, Known
  <2>2. EvoTypes /\ RowsTrue
    BY <2>1, EvolutionAssumption DEF EvoInit, EvoTypes, RowsTrue, Known
  <2>3. ASSUME NEW f \in EvoFiles PROVE LeadsTo(Standing(candidates, f), workspace[f])
    <3>1. Standing(candidates, f) = {} /\ workspace[f] = EvoOriginal
      BY <2>1 DEF EvoInit, Standing, Known
    <3>2. \A x : {c \in {} : c.new = x} = {} /\ {c \in {} : c.base = x} = {}
      OBVIOUS
    <3> QED
      BY <3>1, <3>2 DEF LeadsTo, Entered, Left
  <2> QED
    BY <2>2, <2>3 DEF EvoInv
<1>2. EvoInv /\ [EvoNext]_evoVars => EvoInv'
  <2> SUFFICES ASSUME EvoInv, [EvoNext]_evoVars PROVE EvoInv'
    OBVIOUS
  <2>0. proposing \subseteq CandidateKeys
    BY DEF EvoInv, EvoTypes
  <2>1. CASE UNCHANGED evoVars
    BY <2>0, <2>1, QuietEvo DEF evoVars
  <2>2. CASE TriggerRoute
    BY <2>0, <2>2, QuietEvo DEF TriggerRoute, RegisterTrigger
  <2>3. CASE CandidateRoute
    <3>1. ASSUME NEW c \in CandidateKeys, ReadBaseline(c) PROVE EvoInv'
      BY <3>1, QuietEvo DEF ReadBaseline
    <3> QED
      BY <2>3, <3>1, ProposeStep DEF CandidateRoute
  <2>4. CASE EvaluateRoute
    <3>1. ASSUME NEW c, StartEvaluation(c) PROVE EvoInv'
      BY <2>0, <3>1, QuietEvo DEF StartEvaluation
    <3> QED
      BY <2>4, <3>1, EvaluateStep DEF EvaluateRoute
  <2>5. CASE DecisionRoutes
    BY <2>5, RejectStep, ApproveStep, RollbackStep, FaultStep DEF DecisionRoutes
  <2>6. ASSUME NEW f \in EvoFiles, NEW x \in EvoContents, EditFile(f, x) PROVE EvoInv'
    BY <2>0, <2>6, FileStep DEF EditFile
  <2> QED
    BY <2>1, <2>2, <2>3, <2>4, <2>5, <2>6, FaultStep DEF EvoNext
<1>3. EvoInv => LedgerAccounts
  <2> SUFFICES ASSUME EvoInv PROVE LedgerAccounts
    OBVIOUS
  <2>1. ASSUME NEW f PROVE Live(f) = Standing(candidates, f)
    BY PromotedStands DEF Live, Standing, Known, EvoInv
  <2> QED
    BY <2>1 DEF EvoInv, LedgerAccounts, LeadsTo, Entered, Left
<1> QED
  BY <1>1, <1>2, <1>3, PTL DEF EvoSpec

-----------------------------------------------------------------------------
(* Conversation: told once, in whole exchanges                             *)

Spoken == [role : {"user", "system", "assistant"}, of : Nat]
Noted == [of : Nat, kind : {"turn", "resume"}]
Told == [chat : Sessions, of : Nat, kind : {"answer", "card", "result"}]
BeingDecided == [turn : Nat, via : {"http", "telegram"}, approved : BOOLEAN, step : Steps]

\* A turn that has not come to its answer.
Early == {"hearing", "thinking", "acting"}

AtMostOne(S) == \A i, j \in S : i = j

ResumesOf(t) == {i \in DOMAIN memories : memories[i] = [of |-> t, kind |-> "resume"]}
ResultsOf(t) == {i \in DOMAIN sent : sent[i].of = t /\ sent[i].kind = "result"}

Turns == [session : Sessions, stage : Stages, round : Nat]

ConvTypes ==
    /\ turns \in Seq(Turns)
    /\ inbox \in Seq(Rows) /\ DOMAIN inbox = DOMAIN turns
    /\ deciding \subseteq BeingDecided
    /\ memories \in Seq(Noted) /\ sent \in Seq(Told)
    /\ \A i \in DOMAIN memories : memories[i].of \in DOMAIN turns
    /\ \A i \in DOMAIN sent : sent[i].of \in DOMAIN turns
    /\ \A d \in deciding : d.turn \in DOMAIN turns

\* A turn has a row only with its answer.  One decision at most carries a row
\* out or tells of it, and the row says how far it is.
RowsAreDecidedOnce ==
    /\ \A t \in DOMAIN turns : turns[t].stage \in Early => inbox[t] = "none"
    /\ \A d \in deciding :
          /\ d.step = "executing" => inbox[d.turn] = "executing"
          /\ d.step = "telling" => inbox[d.turn] = "consumed" /\ ResultsOf(d.turn) = {}
    /\ \A d, e \in deciding :
          d.turn = e.turn /\ d.step # "acknowledging" /\ e.step # "acknowledging" => d = e

\* What was resumed or told is of a row that is consumed.
ResultsAreTold ==
    \A t \in DOMAIN turns :
        /\ AtMostOne(ResumesOf(t)) /\ AtMostOne(ResultsOf(t))
        /\ inbox[t] # "consumed" => ResumesOf(t) = {} /\ ResultsOf(t) = {}

\* Counted from the newest, messages pair up: an answer and what it answers.
Paired(h) ==
    \A i \in 1..Len(h) : (Len(h) - i) % 2 = 0 =>
        /\ h[i].role = "assistant"
        /\ i > 1 => h[i - 1].role # "assistant" /\ h[i - 1].of = h[i].of

HistoryPairs ==
    /\ DOMAIN history = Sessions
    /\ \A s \in Sessions : history[s] \in Seq(Spoken) /\ Len(history[s]) <= MaxMessages /\ Paired(history[s])

ConvInv == ConvTypes /\ RowsAreDecidedOnce /\ ResultsAreTold /\ HistoryPairs

LEMMA Appended ==
  ASSUME NEW S, NEW s \in Seq(S), NEW x \in S
  PROVE  /\ Append(s, x) \in Seq(S)
         /\ DOMAIN Append(s, x) = DOMAIN s \cup {Len(s) + 1} /\ Len(s) + 1 \notin DOMAIN s
         /\ \A i \in DOMAIN s : Append(s, x)[i] = s[i]
         /\ Append(s, x)[Len(s) + 1] = x
<1>1. Append(s, x) \in Seq(S) /\ Len(Append(s, x)) = Len(s) + 1
  BY AppendProperties
<1>2. DOMAIN s = 1..Len(s) /\ DOMAIN Append(s, x) = 1..(Len(s) + 1) /\ Len(s) \in Nat
  BY <1>1, LenProperties
<1>3. (\A i \in 1..Len(s) : Append(s, x)[i] = s[i]) /\ Append(s, x)[Len(s) + 1] = x
  BY AppendProperties, <1>2
<1> QED
  BY <1>1, <1>2, <1>3

LEMMA OneAtMost ==
  ASSUME NEW S, AtMostOne(S)
  PROVE  Cardinality(S) <= 1
<1>1. CASE S = {}
  BY <1>1, FS_EmptySet
<1>2. CASE S # {}
  <2>1. PICK i : i \in S
    BY <1>2
  <2>2. S = {i}
    BY <2>1 DEF AtMostOne
  <2> QED
    BY <2>2, FS_Singleton
<1> QED
  BY <1>1, <1>2

\* The place of a message after the oldest were cut.
LEMMA OldestCut ==
  ASSUME NEW l \in Nat, NEW max \in Nat, NEW k \in 1..2, k = (l + 2) - max, NEW i \in 1..max
  PROVE  k + i \in 1..(l + 2) /\ (l + 2) - (k + i) = max - i
OBVIOUS

\* A history cut to size keeps its pairs, since it is cut at its old end.
LEMMA TrimKeepsPairs ==
  ASSUME NEW h \in Seq(Spoken), Len(h) <= MaxMessages, Paired(h),
         NEW p \in Seq(Spoken), Len(p) = 2,
         p[1].role # "assistant", p[2].role = "assistant", p[1].of = p[2].of
  PROVE  Trimmed(h \o p) \in Seq(Spoken) /\ Len(Trimmed(h \o p)) <= MaxMessages /\ Paired(Trimmed(h \o p))
<1> DEFINE g == h \o p
           L == Len(h)
<1>1. g \in Seq(Spoken) /\ Len(g) = L + 2 /\ L \in Nat
  <2>1. L \in Nat
    BY LenProperties, Zenon
  <2>2. g \in Seq(Spoken) /\ Len(g) = Len(h) + Len(p)
    BY ConcatProperties, Zenon
  <2> QED
    BY <2>1, <2>2
<1>2. /\ \A i \in 1..L : g[i] = h[i]
      /\ g[L + 1] = p[1] /\ g[L + 2] = p[2]
  <2>1. \A i \in 1..(Len(h) + Len(p)) : g[i] = IF i <= Len(h) THEN h[i] ELSE p[i - Len(h)]
    BY ConcatProperties, Zenon
  <2> HIDE DEF g
  <2>2. \A i \in 1..L : g[i] = h[i]
    BY <1>1, <2>1
  <2>3. L + 1 \in 1..(Len(h) + Len(p)) /\ L + 2 \in 1..(Len(h) + Len(p))
    BY <1>1
  <2>4. g[L + 1] = p[(L + 1) - L] /\ g[L + 2] = p[(L + 2) - L]
    BY <1>1, <2>1, <2>3
  <2>5. (L + 1) - L = 1 /\ (L + 2) - L = 2
    BY <1>1
  <2> QED
    BY <2>2, <2>4, <2>5
<1> HIDE DEF g
<1>3. Paired(g)
  <2>1. ASSUME NEW i \in 1..(L + 2), (L + 2 - i) % 2 = 0
        PROVE  /\ g[i].role = "assistant"
               /\ i > 1 => g[i - 1].role # "assistant" /\ g[i - 1].of = g[i].of
    <3>1. CASE i = L + 2
      <4>1. i - 1 = L + 1
        BY <1>1, <3>1
      <4> QED
        BY <1>2, <3>1, <4>1
    <3>2. CASE i \in 1..L
      <4>1. (L - i) % 2 = 0
        BY <1>1, <2>1, <3>2
      <4>2. /\ h[i].role = "assistant"
            /\ i > 1 => h[i - 1].role # "assistant" /\ h[i - 1].of = h[i].of
        BY <3>2, <4>1 DEF Paired
      <4>3. g[i] = h[i] /\ (i > 1 => g[i - 1] = h[i - 1])
        BY <1>1, <1>2, <3>2
      <4> QED
        BY <4>2, <4>3, Zenon
    <3>3. i # L + 1
      BY <1>1, <2>1
    <3> QED
      BY <1>1, <3>1, <3>2, <3>3
  <2> QED
    BY <1>1, <2>1 DEF Paired
<1>4. CASE ~(Len(g) > MaxMessages)
  <2>1. Trimmed(h \o p) = g
    BY <1>4 DEF Trimmed, g
  <2>2. Len(g) <= MaxMessages
    BY <1>1, <1>4, ConversationAssumption
  <2> QED
    BY <1>1, <1>3, <2>1, <2>2
<1>5. CASE Len(g) > MaxMessages
  <2> DEFINE k == L + 2 - MaxMessages
             m == k + 1
             n == L + 2
             c == SubSeq(g, m, n)
  <2>1. k \in 1..2 /\ MaxMessages \in Nat /\ MaxMessages >= 2
    BY <1>1, <1>5, ConversationAssumption
  <2>2. Trimmed(g) = SubSeq(g, Len(g) - MaxMessages + 1, Len(g))
    BY <1>5 DEF Trimmed
  <2>9. Trimmed(g) = c
    <3>1. Len(g) - MaxMessages + 1 = k + 1 /\ Len(g) = L + 2
      BY <1>1, <2>1
    <3> QED
      BY <2>2, <3>1, Zenon
  <2>3. c \in Seq(Spoken) /\ Len(c) = MaxMessages /\ \A i \in 1..MaxMessages : c[i] = g[k + i]
    <3>1. m \in Int /\ n \in Int /\ m <= n /\ \A i \in m..n : i \in 1..Len(g)
      BY <1>1, <2>1
    <3>2. \A i \in m..n : g[i] \in Spoken
      BY <1>1, <3>1, ElementOfSeq, Zenon
    <3>4. n - m + 1 = MaxMessages
      BY <1>1, <2>1
    <3>5. \A i \in 1..MaxMessages : m + i - 1 = k + i
      BY <1>1, <2>1
    <3> HIDE DEF k, m, n
    <3>3. /\ c \in Seq(Spoken)
          /\ Len(c) = IF m <= n THEN n - m + 1 ELSE 0
          /\ \A i \in 1..(n - m + 1) : c[i] = g[m + i - 1]
      BY <3>1, <3>2, SubSeqProperties
    <3> HIDE DEF c
    <3> QED
      BY <3>1, <3>3, <3>4, <3>5
  <2>4. ASSUME NEW i \in 1..MaxMessages, (MaxMessages - i) % 2 = 0
        PROVE  /\ c[i].role = "assistant"
               /\ i > 1 => c[i - 1].role # "assistant" /\ c[i - 1].of = c[i].of
    <3> DEFINE j == k + i
    <3>1. j \in 1..Len(g) /\ Len(g) - j = MaxMessages - i
      <4>1. L \in Nat /\ Len(g) = L + 2
        BY <1>1
      <4>2. k = (L + 2) - MaxMessages /\ k \in 1..2 /\ MaxMessages \in Nat /\ j = k + i
        BY <2>1
      <4>3. k + i \in 1..(L + 2) /\ (L + 2) - (k + i) = MaxMessages - i
        <5> HIDE DEF g, L, k, j
        <5> QED
          BY <2>4, <4>1, <4>2, OldestCut
      <4> HIDE DEF g, L, k, j
      <4> QED
        BY <4>1, <4>2, <4>3, Zenon
    <3>2. (Len(g) - j) % 2 = 0
      BY <2>4, <3>1, Zenon
    <3>3. c[i] = g[j]
      BY <2>3, Zenon
    <3>4. ASSUME i > 1 PROVE c[i - 1] = g[j - 1] /\ j > 1
      <4>1. i - 1 \in 1..MaxMessages /\ k + (i - 1) = j - 1 /\ j > 1
        BY <2>1, <3>4
      <4>2. c[i - 1] = g[k + (i - 1)]
        BY <2>3, <4>1, Zenon
      <4> QED
        BY <4>1, <4>2
    <3> HIDE DEF j, c
    <3>5. /\ g[j].role = "assistant"
          /\ j > 1 => g[j - 1].role # "assistant" /\ g[j - 1].of = g[j].of
      BY <1>3, <3>1, <3>2, Zenon DEF Paired
    <3> QED
      BY <3>3, <3>4, <3>5
  <2> HIDE DEF c, k
  <2>5. Paired(c)
    BY <2>1, <2>3, <2>4 DEF Paired
  <2>6. Len(c) <= MaxMessages
    BY <2>1, <2>3
  <2>7. Trimmed(h \o p) = c
    BY <2>9 DEF g
  <2> QED
    BY <2>3, <2>5, <2>6, <2>7
<1> QED
  BY <1>4, <1>5

LEMMA TurnFacts ==
  ASSUME ConvTypes
  PROVE  /\ Len(turns) \in Nat /\ DOMAIN turns = 1..Len(turns) /\ Len(inbox) = Len(turns)
         /\ \A t \in DOMAIN turns : t \in Nat /\ SessionOf(t) \in Sessions /\ turns[t] \in Turns
<1>1. turns \in Seq(Turns) /\ inbox \in Seq(Rows) /\ DOMAIN inbox = DOMAIN turns
  BY DEF ConvTypes
<1>2. Len(turns) \in Nat /\ DOMAIN turns = 1..Len(turns)
  BY <1>1, LenProperties
<1>3. Len(inbox) \in Nat /\ DOMAIN inbox = 1..Len(inbox)
  BY <1>1, LenProperties
<1>4. Len(inbox) = Len(turns)
  BY <1>1, <1>2, <1>3
<1>5. ASSUME NEW t \in DOMAIN turns PROVE t \in Nat /\ turns[t] \in Turns
  BY <1>1, <1>2, ElementOfSeq
<1> QED
  BY <1>2, <1>4, <1>5 DEF SessionOf, Turns

\* An exchange of a turn is stored, or the store fails.
LEMMA ExchangeStep ==
  ASSUME HistoryPairs, NEW s \in Sessions, NEW t \in Nat, NEW pair,
         pair = AnswerPair(t) \/ pair = ResultPair(t), Exchange(s, pair)
  PROVE  HistoryPairs'
<1>1. /\ pair \in Seq(Spoken) /\ Len(pair) = 2
      /\ pair[1].role # "assistant" /\ pair[2].role = "assistant" /\ pair[1].of = pair[2].of
  <2>1. PICK a, b : /\ pair = <<a, b>> /\ a \in Spoken /\ b \in Spoken
                    /\ a.role # "assistant" /\ b.role = "assistant" /\ a.of = b.of
    <3> DEFINE u == [role |-> "user", of |-> t]
               v == [role |-> "system", of |-> t]
               w == [role |-> "assistant", of |-> t]
    <3>1. /\ u \in Spoken /\ v \in Spoken /\ w \in Spoken /\ u.of = w.of /\ v.of = w.of
          /\ u.role # "assistant" /\ v.role # "assistant" /\ w.role = "assistant"
      BY DEF Spoken
    <3>2. pair = <<u, w>> \/ pair = <<v, w>>
      BY DEF AnswerPair, ResultPair
    <3> HIDE DEF u, v, w
    <3> QED
      BY <3>1, <3>2
  <2> QED
    BY <2>1
<1>2. Trimmed(history[s] \o pair) \in Seq(Spoken) /\ Len(Trimmed(history[s] \o pair)) <= MaxMessages
      /\ Paired(Trimmed(history[s] \o pair))
  BY <1>1, TrimKeepsPairs DEF HistoryPairs
<1>3. history' = [history EXCEPT ![s] = Trimmed(history[s] \o pair)] \/ history' = history
  BY DEF Exchange
<1> QED
  BY <1>2, <1>3 DEF HistoryPairs

\* The records of a resumption grow by what is recorded of one.
LEMMA RecordStep ==
  ASSUME ConvTypes, NEW t \in DOMAIN turns, NEW k \in {"turn", "resume"}, Record([of |-> t, kind |-> k])
  PROVE  /\ memories' \in Seq(Noted) /\ \A i \in DOMAIN memories' : memories'[i].of \in DOMAIN turns
         /\ \A u : u # t \/ k = "turn" => ResumesOf(u)' = ResumesOf(u)
         /\ ResumesOf(t) = {} => AtMostOne(ResumesOf(t)')
<1>1. t \in Nat
  BY TurnFacts
<1> DEFINE r == [of |-> t, kind |-> k]
<1>2. r \in Noted /\ r.of = t /\ r.kind = k
  BY <1>1 DEF Noted
<1>3. CASE memories' = memories
  BY <1>3 DEF ConvTypes, ResumesOf, AtMostOne
<1>4. CASE memories' = Append(memories, r)
  <2> DEFINE last == Len(memories) + 1
  <2>1. /\ memories' \in Seq(Noted)
        /\ DOMAIN memories' = DOMAIN memories \cup {last} /\ last \notin DOMAIN memories
        /\ \A i \in DOMAIN memories : memories'[i] = memories[i]
        /\ memories'[last] = r
    BY <1>2, <1>4, Appended DEF ConvTypes
  <2> HIDE DEF r, last
  <2>2. \A i \in DOMAIN memories' : memories'[i].of \in DOMAIN turns
    BY <1>2, <2>1 DEF ConvTypes
  <2>3. ASSUME NEW u, u # t \/ k = "turn" PROVE ResumesOf(u)' = ResumesOf(u)
    <3>1. r # [of |-> u, kind |-> "resume"]
      BY <1>2, <2>3
    <3> QED
      BY <2>1, <3>1 DEF ResumesOf
  <2>4. ASSUME ResumesOf(t) = {} PROVE AtMostOne(ResumesOf(t)')
    BY <2>1, <2>4 DEF ResumesOf, AtMostOne
  <2> QED
    BY <2>1, <2>2, <2>3, <2>4
<1> QED
  BY <1>3, <1>4 DEF Record

LEMMA ExpressStep ==
  ASSUME ConvTypes, NEW t \in DOMAIN turns, NEW k \in {"answer", "card", "result"},
         Express(t, k) \/ UNCHANGED sent
  PROVE  /\ sent' \in Seq(Told) /\ \A i \in DOMAIN sent' : sent'[i].of \in DOMAIN turns
         /\ \A u : u # t \/ k # "result" => ResultsOf(u)' = ResultsOf(u)
         /\ ResultsOf(t) = {} => AtMostOne(ResultsOf(t)')
<1>1. t \in Nat /\ SessionOf(t) \in Sessions
  BY TurnFacts
<1> DEFINE r == [chat |-> SessionOf(t), of |-> t, kind |-> k]
<1>2. r \in Told /\ r.of = t /\ r.kind = k
  BY <1>1 DEF Told
<1>3. CASE sent' = sent
  BY <1>3 DEF ConvTypes, ResultsOf, AtMostOne
<1>4. CASE sent' = Append(sent, r)
  <2> DEFINE last == Len(sent) + 1
  <2>1. /\ sent' \in Seq(Told)
        /\ DOMAIN sent' = DOMAIN sent \cup {last} /\ last \notin DOMAIN sent
        /\ \A i \in DOMAIN sent : sent'[i] = sent[i]
        /\ sent'[last] = r
    BY <1>2, <1>4, Appended DEF ConvTypes
  <2> HIDE DEF r, last
  <2>2. \A i \in DOMAIN sent' : sent'[i].of \in DOMAIN turns
    BY <1>2, <2>1 DEF ConvTypes
  <2>3. ASSUME NEW u, u # t \/ k # "result" PROVE ResultsOf(u)' = ResultsOf(u)
    <3>1. ~(r.of = u /\ r.kind = "result")
      BY <1>2, <2>3
    <3> QED
      BY <2>1, <3>1 DEF ResultsOf
  <2>4. ASSUME ResultsOf(t) = {} PROVE AtMostOne(ResultsOf(t)')
    BY <2>1, <2>4 DEF ResultsOf, AtMostOne
  <2> QED
    BY <2>1, <2>2, <2>3, <2>4
<1> QED
  BY <1>3, <1>4, Zenon DEF Express

\* A turn moves, and is given a row with its answer.
LEMMA TurnStep ==
  ASSUME ConvInv, NEW t \in DOMAIN turns, NEW x \in Turns, turns' = [turns EXCEPT ![t] = x],
         UNCHANGED deciding, HistoryPairs',
         \/ inbox' = inbox /\ (x.stage \in Early => turns[t].stage \in Early)
         \/ inbox' = [inbox EXCEPT ![t] = "pending"] /\ turns[t].stage \in Early /\ x.stage \notin Early,
         memories' \in Seq(Noted), \A i \in DOMAIN memories' : memories'[i].of \in DOMAIN turns,
         \A u \in DOMAIN turns : ResumesOf(u)' = ResumesOf(u),
         sent' \in Seq(Told), \A i \in DOMAIN sent' : sent'[i].of \in DOMAIN turns,
         \A u \in DOMAIN turns : ResultsOf(u)' = ResultsOf(u)
  PROVE  ConvInv'
<1>1. turns' \in Seq(Turns) /\ DOMAIN turns' = DOMAIN turns /\ turns'[t] = x
      /\ \A u \in DOMAIN turns : u # t => turns'[u] = turns[u]
  BY ExceptSeq, TurnFacts DEF ConvInv, ConvTypes
<1>2. inbox' \in Seq(Rows) /\ DOMAIN inbox' = DOMAIN inbox
      /\ \A u \in DOMAIN turns : u # t => inbox'[u] = inbox[u]
  <2>1. CASE inbox' = [inbox EXCEPT ![t] = "pending"]
    <3>1. inbox \in Seq(Rows) /\ t \in 1..Len(inbox) /\ "pending" \in Rows
      BY TurnFacts DEF ConvInv, ConvTypes, Rows
    <3>2. inbox' \in Seq(Rows) /\ Len(inbox') = Len(inbox)
      BY <2>1, <3>1, ExceptSeq
    <3> QED
      BY <2>1, <3>2
  <2> QED
    BY <2>1 DEF ConvInv, ConvTypes
<1>3. \/ inbox'[t] = inbox[t] /\ (x.stage \in Early => turns[t].stage \in Early)
      \/ inbox[t] = "none" /\ inbox'[t] = "pending" /\ x.stage \notin Early
  BY DEF ConvInv, ConvTypes, RowsAreDecidedOnce
<1>4. ConvTypes'
  BY <1>1, <1>2 DEF ConvInv, ConvTypes
<1>5. \A u \in DOMAIN turns : turns'[u].stage \in Early => inbox'[u] = "none"
  BY <1>1, <1>2, <1>3 DEF ConvInv, RowsAreDecidedOnce
<1>6. \A u \in DOMAIN turns : inbox[u] # "none" => inbox'[u] = inbox[u]
  BY <1>2, <1>3
<1>7. \A d \in deciding :
         /\ d.step = "executing" => inbox'[d.turn] = "executing"
         /\ d.step = "telling" => inbox'[d.turn] = "consumed" /\ ResultsOf(d.turn)' = {}
  BY <1>6 DEF ConvInv, RowsAreDecidedOnce, ConvTypes
<1>8. RowsAreDecidedOnce'
  BY <1>1, <1>5, <1>7 DEF ConvInv, RowsAreDecidedOnce
<1>9. ResultsAreTold'
  <2>1. ASSUME NEW u \in DOMAIN turns
        PROVE  /\ AtMostOne(ResumesOf(u)') /\ AtMostOne(ResultsOf(u)')
               /\ inbox'[u] # "consumed" => ResumesOf(u)' = {} /\ ResultsOf(u)' = {}
    BY <1>6 DEF ConvInv, ResultsAreTold
  <2> QED
    BY <1>1, <2>1 DEF ResultsAreTold, AtMostOne
<1> QED
  BY <1>4, <1>8, <1>9 DEF ConvInv

LEMMA MovedTurn ==
  ASSUME ConvTypes, NEW t \in DOMAIN turns
  PROVE  /\ \A stage \in Stages : Moved(t, stage) =>
               \E x \in Turns : turns' = [turns EXCEPT ![t] = x] /\ x.stage = stage
         /\ turns' = [turns EXCEPT ![t].stage = "thinking", ![t].round = @ + 1] =>
               \E x \in Turns : turns' = [turns EXCEPT ![t] = x] /\ x.stage = "thinking"
<1>1. turns[t] \in Turns
  BY TurnFacts
<1>2. ASSUME NEW stage \in Stages, Moved(t, stage)
      PROVE  \E x \in Turns : turns' = [turns EXCEPT ![t] = x] /\ x.stage = stage
  <2> DEFINE x == [turns[t] EXCEPT !.stage = stage]
  <2>1. x \in Turns /\ x.stage = stage
    BY <1>1 DEF Turns
  <2>2. turns' = [turns EXCEPT ![t] = x]
    BY <1>2 DEF Moved
  <2> QED
    BY <2>1, <2>2, Zenon
<1>3. ASSUME turns' = [turns EXCEPT ![t].stage = "thinking", ![t].round = @ + 1]
      PROVE  \E x \in Turns : turns' = [turns EXCEPT ![t] = x] /\ x.stage = "thinking"
  <2> DEFINE r == turns[t].round + 1
             x == [turns[t] EXCEPT !.stage = "thinking", !.round = r]
  <2>2. turns' = [turns EXCEPT ![t] = x]
    BY <1>3
  <2>3. r \in Nat
    BY <1>1 DEF Turns
  <2> HIDE DEF r
  <2>1. x \in Turns /\ x.stage = "thinking"
    BY <1>1, <2>3 DEF Turns, Stages
  <2> QED
    BY <2>1, <2>2, Zenon
<1> QED
  BY <1>2, <1>3

\* What respond's tail leaves, whatever of it fails.
LEMMA ExpressedTurn ==
  ASSUME ConvInv, NEW t \in DOMAIN turns, turns[t].stage \in Early, Expressed(t), UNCHANGED <<deciding, sent>>,
         inbox' = inbox \/ inbox' = [inbox EXCEPT ![t] = "pending"]
  PROVE  ConvInv'
<1>1. /\ Exchange(SessionOf(t), AnswerPair(t)) /\ Record([of |-> t, kind |-> "turn"])
      /\ Moved(t, "speaking")
  BY DEF Expressed
<1>2. PICK x \in Turns : turns' = [turns EXCEPT ![t] = x] /\ x.stage = "speaking"
  BY <1>1, MovedTurn DEF ConvInv, Stages
<1>3. HistoryPairs'
  BY <1>1, ExchangeStep, TurnFacts DEF ConvInv
<1>4. /\ memories' \in Seq(Noted) /\ \A i \in DOMAIN memories' : memories'[i].of \in DOMAIN turns
      /\ \A u : ResumesOf(u)' = ResumesOf(u)
  BY <1>1, RecordStep DEF ConvInv
<1>5. /\ sent' \in Seq(Told) /\ \A i \in DOMAIN sent' : sent'[i].of \in DOMAIN turns
      /\ \A u : ResultsOf(u)' = ResultsOf(u)
  BY DEF ConvInv, ConvTypes, ResultsOf
<1>6. x.stage \notin Early
  BY <1>2 DEF Early
<1> QED
  BY <1>2, <1>3, <1>4, <1>5, <1>6, TurnStep

\* A turn that moves on, with no more than an answer given.
LEMMA PlainTurn ==
  ASSUME ConvInv, NEW t \in DOMAIN turns, NEW x \in Turns, turns' = [turns EXCEPT ![t] = x],
         x.stage \in Early => turns[t].stage \in Early,
         UNCHANGED <<history, inbox, deciding, memories>>,
         NEW k \in {"answer", "card"}, Express(t, k) \/ UNCHANGED sent
  PROVE  ConvInv'
<1>1. /\ sent' \in Seq(Told) /\ \A i \in DOMAIN sent' : sent'[i].of \in DOMAIN turns
      /\ \A u : ResultsOf(u)' = ResultsOf(u)
  BY ExpressStep DEF ConvInv
<1>2. HistoryPairs'
  BY DEF ConvInv, HistoryPairs
<1>3. /\ memories' \in Seq(Noted) /\ \A i \in DOMAIN memories' : memories'[i].of \in DOMAIN turns
      /\ \A u : ResumesOf(u)' = ResumesOf(u)
  BY DEF ConvInv, ConvTypes, ResumesOf
<1> QED
  BY <1>1, <1>2, <1>3, TurnStep

LEMMA TurnActions ==
  ASSUME ConvInv, NEW t \in TurnIds, Transcribed(t) \/ Handle(t)
  PROVE  ConvInv'
<1>1. t \in DOMAIN turns
  BY DEF TurnIds
<1>2. CASE Transcribed(t)
  <2>1. /\ turns[t].stage \in Early /\ UNCHANGED <<history, inbox, deciding, memories, sent>>
        /\ Moved(t, "thinking") \/ Moved(t, "failed")
    BY <1>2 DEF Transcribed, Early
  <2>2. PICK x \in Turns : turns' = [turns EXCEPT ![t] = x]
    BY <1>1, <2>1, MovedTurn DEF ConvInv, Stages
  <2> QED
    BY <1>1, <2>1, <2>2, PlainTurn
<1>3. CASE ModelAnswers(t)
  <2>1. /\ turns[t].stage \in Early /\ UNCHANGED <<inbox, deciding, sent>>
        /\ \/ Expressed(t)
           \/ (Moved(t, "failed") \/ Moved(t, "acting")) /\ UNCHANGED <<history, memories>>
    BY <1>3 DEF ModelAnswers, Early
  <2>2. CASE Expressed(t)
    BY <1>1, <2>1, <2>2, ExpressedTurn
  <2>3. CASE (Moved(t, "failed") \/ Moved(t, "acting")) /\ UNCHANGED <<history, memories>>
    <3>1. PICK x \in Turns : turns' = [turns EXCEPT ![t] = x]
      BY <1>1, <2>3, MovedTurn DEF ConvInv, Stages
    <3> QED
      BY <1>1, <2>1, <2>3, <3>1, PlainTurn
  <2> QED
    BY <2>1, <2>2, <2>3
<1>4. CASE ActionReturns(t)
  <2>1. /\ turns[t].stage \in Early /\ UNCHANGED <<deciding, sent>>
        /\ \/ /\ Expressed(t)
              /\ inbox' = [inbox EXCEPT ![t] = "pending"]
           \/ /\ Moved(t, "failed") \/ turns' = [turns EXCEPT ![t].stage = "thinking", ![t].round = @ + 1]
              /\ UNCHANGED <<history, memories, inbox>>
    BY <1>4 DEF ActionReturns, Early
  <2>2. CASE Expressed(t) /\ inbox' = [inbox EXCEPT ![t] = "pending"]
    BY <1>1, <2>1, <2>2, ExpressedTurn
  <2>3. CASE /\ Moved(t, "failed") \/ turns' = [turns EXCEPT ![t].stage = "thinking", ![t].round = @ + 1]
             /\ UNCHANGED <<history, memories, inbox>>
    <3>1. PICK x \in Turns : turns' = [turns EXCEPT ![t] = x]
      BY <1>1, <2>3, MovedTurn DEF ConvInv, Stages
    <3> QED
      BY <1>1, <2>1, <2>3, <3>1, PlainTurn
  <2> QED
    BY <2>1, <2>2, <2>3
<1>5. CASE Speak(t)
  <2>1. /\ UNCHANGED <<history, inbox, deciding, memories>>
        /\ Moved(t, "delivered") \/ Moved(t, "failed")
        /\ Express(t, AnswerKind(t)) \/ UNCHANGED sent
    BY <1>5 DEF Speak
  <2>2. PICK x \in Turns : turns' = [turns EXCEPT ![t] = x] /\ x.stage \in {"delivered", "failed"}
    BY <1>1, <2>1, MovedTurn DEF ConvInv, Stages
  <2>3. AnswerKind(t) \in {"answer", "card"} /\ x.stage \notin Early
    BY <2>2 DEF AnswerKind, Early
  <2> QED
    BY <1>1, <2>1, <2>2, <2>3, PlainTurn
<1> QED
  BY <1>2, <1>3, <1>4, <1>5 DEF Handle

LEMMA AskedStep ==
  ASSUME ConvInv, NEW s \in Sessions, NEW stage \in Stages, Asked(s, stage)
  PROVE  ConvInv'
<1> DEFINE x == [session |-> s, stage |-> stage, round |-> 0]
           n == Len(turns) + 1
<1>1. /\ turns' = Append(turns, x) /\ inbox' = Append(inbox, "none")
      /\ UNCHANGED <<history, deciding, memories, sent>>
  BY DEF Asked
<1>2. x \in Turns /\ "none" \in Rows
  BY DEF Turns, Rows
<1>3. turns \in Seq(Turns) /\ inbox \in Seq(Rows) /\ Len(inbox) = Len(turns) /\ DOMAIN inbox = DOMAIN turns
  BY TurnFacts DEF ConvInv, ConvTypes
<1> HIDE DEF x
<1>4. /\ turns' \in Seq(Turns) /\ DOMAIN turns' = DOMAIN turns \cup {n} /\ n \notin DOMAIN turns
      /\ \A u \in DOMAIN turns : turns'[u] = turns[u]
  BY <1>1, <1>2, <1>3, Appended
<1>5. /\ inbox' \in Seq(Rows) /\ DOMAIN inbox' = DOMAIN inbox \cup {n}
      /\ \A u \in DOMAIN inbox : inbox'[u] = inbox[u]
      /\ inbox'[n] = "none"
  BY <1>1, <1>2, <1>3, Appended
<1> HIDE DEF n
<1>6. ConvTypes'
  BY <1>1, <1>3, <1>4, <1>5 DEF ConvInv, ConvTypes
<1>7. \A u : ResumesOf(u)' = ResumesOf(u) /\ ResultsOf(u)' = ResultsOf(u)
  BY <1>1 DEF ResumesOf, ResultsOf
<1>8. RowsAreDecidedOnce'
  BY <1>1, <1>3, <1>4, <1>5, <1>7 DEF ConvInv, ConvTypes, RowsAreDecidedOnce
<1>9. ResumesOf(n) = {} /\ ResultsOf(n) = {}
  BY <1>4 DEF ConvInv, ConvTypes, ResumesOf, ResultsOf
<1>10. ResultsAreTold'
  <2>1. ASSUME NEW u \in DOMAIN turns'
        PROVE  /\ AtMostOne(ResumesOf(u)') /\ AtMostOne(ResultsOf(u)')
               /\ inbox'[u] # "consumed" => ResumesOf(u)' = {} /\ ResultsOf(u)' = {}
    <3>1. CASE u = n
      BY <1>7, <1>9, <3>1 DEF AtMostOne
    <3>2. CASE u \in DOMAIN turns
      BY <1>3, <1>5, <1>7, <3>2 DEF ConvInv, ResultsAreTold
    <3> QED
      BY <1>4, <3>1, <3>2
  <2> QED
    BY <2>1 DEF ResultsAreTold, AtMostOne
<1>11. HistoryPairs'
  BY <1>1 DEF ConvInv, HistoryPairs
<1> QED
  BY <1>6, <1>8, <1>10, <1>11 DEF ConvInv

\* A row is decided, or a decision on it begins or is answered.
LEMMA DecisionStep ==
  ASSUME ConvInv, NEW t \in DOMAIN turns, UNCHANGED <<history, turns, memories, sent>>,
         \/ inbox' = inbox
         \/ /\ inbox[t] = "pending"
            /\ \E new \in {"executing", "rejected", "expired"} : inbox' = [inbox EXCEPT ![t] = new],
         \A d, e \in deciding' \ deciding : d = e,
         \A d \in deciding' \ deciding :
            /\ d \in BeingDecided /\ d.turn = t /\ d.step \in {"acknowledging", "executing"}
            /\ d.step = "executing" => inbox[t] = "pending" /\ inbox'[t] = "executing"
  PROVE  ConvInv'
<1>1. \A u : ResumesOf(u)' = ResumesOf(u) /\ ResultsOf(u)' = ResultsOf(u)
  BY DEF ResumesOf, ResultsOf
<1>2. /\ inbox' \in Seq(Rows) /\ DOMAIN inbox' = DOMAIN inbox
      /\ \A u \in DOMAIN turns : u # t \/ inbox[t] # "pending" => inbox'[u] = inbox[u]
      /\ inbox'[t] = inbox[t] \/ inbox[t] = "pending"
  <2>1. ASSUME NEW new \in {"executing", "rejected", "expired"}, inbox[t] = "pending",
               inbox' = [inbox EXCEPT ![t] = new]
        PROVE  /\ inbox' \in Seq(Rows) /\ DOMAIN inbox' = DOMAIN inbox
               /\ \A u \in DOMAIN turns : u # t => inbox'[u] = inbox[u]
    <3>1. inbox \in Seq(Rows) /\ t \in 1..Len(inbox) /\ new \in Rows /\ DOMAIN inbox = DOMAIN turns
      BY TurnFacts DEF ConvInv, ConvTypes, Rows
    <3>2. inbox' \in Seq(Rows)
      BY <2>1, <3>1, ExceptSeq
    <3> QED
      BY <2>1, <3>1, <3>2
  <2> QED
    BY <2>1 DEF ConvInv, ConvTypes
<1>3. ConvTypes'
  BY <1>2 DEF ConvInv, ConvTypes
<1>4. \A u \in DOMAIN turns : inbox[u] # "pending" => inbox'[u] = inbox[u]
  BY <1>2
<1>5. RowsAreDecidedOnce'
  <2>1. \A u \in DOMAIN turns : turns[u].stage \in Early => inbox'[u] = "none"
    BY <1>4 DEF ConvInv, RowsAreDecidedOnce
  <2>2. ASSUME NEW d \in deciding'
        PROVE  /\ d.step = "executing" => inbox'[d.turn] = "executing"
               /\ d.step = "telling" => inbox'[d.turn] = "consumed" /\ ResultsOf(d.turn)' = {}
    <3>1. CASE d \in deciding
      BY <1>1, <1>4, <3>1 DEF ConvInv, ConvTypes, RowsAreDecidedOnce
    <3>2. CASE d \notin deciding
      BY <3>2
    <3> QED
      BY <3>1, <3>2
  <2>3. ASSUME NEW d \in deciding', NEW e \in deciding',
               d.turn = e.turn, d.step # "acknowledging", e.step # "acknowledging"
        PROVE  d = e
    <3>1. \A c \in deciding : c.turn = t /\ c.step # "acknowledging" => inbox[t] # "pending"
      BY DEF ConvInv, ConvTypes, RowsAreDecidedOnce, BeingDecided, Steps
    <3>2. CASE d \in deciding /\ e \in deciding
      BY <2>3, <3>2 DEF ConvInv, RowsAreDecidedOnce
    <3>3. CASE d \notin deciding
      BY <2>3, <3>1, <3>3
    <3>4. CASE e \notin deciding
      BY <2>3, <3>1, <3>4
    <3> QED
      BY <3>2, <3>3, <3>4
  <2> QED
    BY <2>1, <2>2, <2>3 DEF RowsAreDecidedOnce
<1>6. ResultsAreTold'
  <2>1. ASSUME NEW u \in DOMAIN turns
        PROVE  /\ AtMostOne(ResumesOf(u)') /\ AtMostOne(ResultsOf(u)')
               /\ inbox'[u] # "consumed" => ResumesOf(u)' = {} /\ ResultsOf(u)' = {}
    BY <1>1, <1>4 DEF ConvInv, ResultsAreTold
  <2> QED
    BY <2>1 DEF ResultsAreTold, AtMostOne
<1>7. HistoryPairs'
  BY DEF ConvInv, HistoryPairs
<1> QED
  BY <1>3, <1>5, <1>6, <1>7 DEF ConvInv

LEMMA DecideRowStep ==
  ASSUME ConvInv, NEW t \in DOMAIN turns, UNCHANGED <<history, turns, memories, sent>>,
         NEW via \in {"http", "telegram"}, NEW approved \in BOOLEAN, NEW others \in SUBSET deciding,
         DecideRow(t, via, approved, others)
  PROVE  ConvInv'
<1>1. CASE /\ Fresh(t, approved)
           /\ inbox' = [inbox EXCEPT ![t] = IF @ = "pending" THEN "executing" ELSE @]
           /\ deciding' = others \cup {[turn |-> t, via |-> via, approved |-> TRUE, step |-> "executing"]}
  <2> DEFINE d == [turn |-> t, via |-> via, approved |-> TRUE, step |-> "executing"]
  <2>1. inbox[t] = "pending" /\ inbox' = [inbox EXCEPT ![t] = "executing"] /\ inbox'[t] = "executing"
    BY <1>1, TurnFacts DEF Fresh, ConvInv, ConvTypes
  <2>2. d \in BeingDecided /\ d.turn = t /\ d.step = "executing"
    BY TurnFacts DEF BeingDecided, Steps, ConvInv
  <2>3. \A c \in deciding' \ deciding : c = d
    BY <1>1
  <2> HIDE DEF d
  <2> QED
    BY <2>1, <2>2, <2>3, DecisionStep
<1>2. CASE /\ ~approved /\ inbox[t] = "pending"
           /\ inbox' = [inbox EXCEPT ![t] = "rejected"]
           /\ deciding' = others
  <2>1. deciding' \subseteq deciding
    BY <1>2
  <2> QED
    BY <1>2, <2>1, DecisionStep
<1>3. CASE deciding' = others /\ inbox' = inbox
  <2>1. deciding' \subseteq deciding
    BY <1>3
  <2> QED
    BY <1>3, <2>1, DecisionStep
<1> QED
  BY <1>1, <1>2, <1>3 DEF DecideRow

LEMMA DecisionActions ==
  ASSUME ConvInv,
         \/ \E t \in TurnIds :
               \/ Expire(t)
               \/ \E approved \in BOOLEAN :
                     \/ DecideOverHttp(t, approved)
                     \/ \E chat \in Chats :
                           DecisionCommand(t, chat, approved) \/ ApprovalCallback(t, chat, approved)
         \/ \E d \in deciding : CallbackAnswered(d)
  PROVE  ConvInv'
<1>1. ASSUME NEW t \in TurnIds, Expire(t) PROVE ConvInv'
  <2>1. /\ t \in DOMAIN turns /\ inbox[t] = "pending" /\ inbox' = [inbox EXCEPT ![t] = "expired"]
        /\ UNCHANGED <<history, turns, memories, sent, deciding>>
    BY <1>1 DEF Expire, TurnIds
  <2> QED
    BY <2>1, DecisionStep
<1>2. ASSUME NEW t \in TurnIds, NEW approved \in BOOLEAN,
             \/ DecideOverHttp(t, approved)
             \/ \E chat \in Chats : DecisionCommand(t, chat, approved)
      PROVE  ConvInv'
  <2>1. /\ t \in DOMAIN turns /\ UNCHANGED <<history, turns, memories, sent>>
        /\ DecideRow(t, "http", approved, deciding) \/ DecideRow(t, "telegram", approved, deciding)
    BY <1>2 DEF DecideOverHttp, DecisionCommand, TurnIds
  <2> QED
    BY <2>1, DecideRowStep
<1>3. ASSUME NEW t \in TurnIds, NEW approved \in BOOLEAN, NEW chat \in Chats, ApprovalCallback(t, chat, approved)
      PROVE  ConvInv'
  <2> DEFINE d == [turn |-> t, via |-> "telegram", approved |-> approved, step |-> "acknowledging"]
  <2>1. /\ t \in DOMAIN turns /\ UNCHANGED <<history, turns, memories, sent, inbox>>
        /\ \A c \in deciding' \ deciding : c = d
    BY <1>3 DEF ApprovalCallback, TurnIds
  <2>2. d \in BeingDecided /\ d.turn = t /\ d.step = "acknowledging"
    BY <2>1, TurnFacts DEF BeingDecided, Steps, ConvInv
  <2> HIDE DEF d
  <2> QED
    BY <2>1, <2>2, DecisionStep
<1>4. ASSUME NEW d \in deciding, CallbackAnswered(d) PROVE ConvInv'
  <2>1. d.turn \in DOMAIN turns /\ d.approved \in BOOLEAN /\ deciding \ {d} \in SUBSET deciding
    BY DEF ConvInv, ConvTypes, BeingDecided
  <2>2. /\ UNCHANGED <<history, turns, memories, sent>>
        /\ DecideRow(d.turn, "telegram", d.approved, deciding \ {d})
    BY <1>4 DEF CallbackAnswered
  <2> QED
    BY <2>1, <2>2, DecideRowStep
<1> QED
  BY <1>1, <1>2, <1>3, <1>4

LEMMA ResumeStep ==
  ASSUME ConvInv, NEW d \in deciding, ResumeAfterApproval(d)
  PROVE  ConvInv'
<1> DEFINE t == d.turn
           e == [d EXCEPT !.step = "telling"]
<1>1. /\ t \in DOMAIN turns /\ d \in BeingDecided /\ d.step = "executing" /\ inbox[t] = "executing"
      /\ UNCHANGED <<turns, sent>>
      /\ inbox' = [inbox EXCEPT ![t] = "consumed"]
      /\ Exchange(SessionOf(t), ResultPair(t)) /\ Record([of |-> t, kind |-> "resume"])
      /\ deciding' \subseteq (deciding \ {d}) \cup {e}
  BY DEF ResumeAfterApproval, ConvInv, ConvTypes, RowsAreDecidedOnce
<1>2. e \in BeingDecided /\ e.turn = t /\ e.step = "telling"
  BY <1>1 DEF BeingDecided, Steps
<1>3. t \in DOMAIN turns /\ t \in Nat
  BY <1>1, TurnFacts DEF ConvInv
<1> HIDE DEF t, e
<1>4. ResumesOf(t) = {} /\ ResultsOf(t) = {}
  BY <1>1 DEF ConvInv, ResultsAreTold
<1>5. /\ memories' \in Seq(Noted) /\ \A i \in DOMAIN memories' : memories'[i].of \in DOMAIN turns
      /\ \A u : u # t => ResumesOf(u)' = ResumesOf(u)
      /\ AtMostOne(ResumesOf(t)')
  BY <1>1, <1>3, <1>4, RecordStep DEF ConvInv
<1>6. \A u : ResultsOf(u)' = ResultsOf(u)
  BY <1>1 DEF ResultsOf
<1>7. /\ inbox' \in Seq(Rows) /\ DOMAIN inbox' = DOMAIN inbox /\ inbox'[t] = "consumed"
      /\ \A u \in DOMAIN turns : u # t => inbox'[u] = inbox[u]
  <2>1. inbox \in Seq(Rows) /\ t \in 1..Len(inbox) /\ "consumed" \in Rows /\ DOMAIN inbox = DOMAIN turns
    BY <1>3, TurnFacts DEF ConvInv, ConvTypes, Rows
  <2>2. inbox' \in Seq(Rows)
    BY <1>1, <2>1, ExceptSeq
  <2> QED
    BY <1>1, <1>3, <2>1, <2>2
<1>8. ConvTypes'
  BY <1>1, <1>2, <1>5, <1>7 DEF ConvInv, ConvTypes
<1>9. \A c \in deciding : c # d /\ c.turn = t => c.step = "acknowledging"
  BY <1>1 DEF ConvInv, RowsAreDecidedOnce, t
<1>10. RowsAreDecidedOnce'
  <2>1. \A u \in DOMAIN turns : turns[u].stage \in Early => inbox'[u] = "none"
    BY <1>1, <1>7 DEF ConvInv, RowsAreDecidedOnce
  <2>2. ASSUME NEW c \in deciding'
        PROVE  /\ c.step = "executing" => inbox'[c.turn] = "executing"
               /\ c.step = "telling" => inbox'[c.turn] = "consumed" /\ ResultsOf(c.turn)' = {}
    <3>1. CASE c = e
      BY <1>2, <1>4, <1>6, <1>7, <3>1
    <3>2. CASE c # e
      <4>1. c \in deciding /\ c # d /\ c.turn \in DOMAIN turns
        BY <1>1, <2>2, <3>2 DEF ConvInv, ConvTypes
      <4> QED
        BY <1>6, <1>7, <1>9, <4>1 DEF ConvInv, RowsAreDecidedOnce
    <3> QED
      BY <3>1, <3>2
  <2>3. ASSUME NEW c \in deciding', NEW b \in deciding',
               c.turn = b.turn, c.step # "acknowledging", b.step # "acknowledging"
        PROVE  c = b
    BY <1>1, <1>2, <1>9, <2>3 DEF ConvInv, RowsAreDecidedOnce
  <2> QED
    BY <1>1, <2>1, <2>2, <2>3 DEF RowsAreDecidedOnce
<1>11. ResultsAreTold'
  <2>1. ASSUME NEW u \in DOMAIN turns
        PROVE  /\ AtMostOne(ResumesOf(u)') /\ AtMostOne(ResultsOf(u)')
               /\ inbox'[u] # "consumed" => ResumesOf(u)' = {} /\ ResultsOf(u)' = {}
    BY <1>5, <1>6, <1>7 DEF ConvInv, ResultsAreTold
  <2> QED
    BY <1>1, <2>1 DEF ResultsAreTold, AtMostOne
<1>12. HistoryPairs'
  BY <1>1, <1>3, ExchangeStep, TurnFacts DEF ConvInv
<1> QED
  BY <1>8, <1>10, <1>11, <1>12 DEF ConvInv

LEMMA FollowUpStep ==
  ASSUME ConvInv, NEW d \in deciding, FollowUp(d)
  PROVE  ConvInv'
<1> DEFINE t == d.turn
<1>1. /\ t \in DOMAIN turns /\ d.step = "telling" /\ inbox[t] = "consumed" /\ ResultsOf(t) = {}
      /\ UNCHANGED <<history, turns, inbox, memories>>
      /\ deciding' = deciding \ {d}
      /\ Express(t, "result") \/ UNCHANGED sent
  BY DEF FollowUp, ConvInv, ConvTypes, RowsAreDecidedOnce
<1>2. \A c \in deciding \ {d} : c.turn = t => c.step = "acknowledging"
  BY <1>1 DEF ConvInv, RowsAreDecidedOnce
<1> HIDE DEF t
<1>3. /\ sent' \in Seq(Told) /\ \A i \in DOMAIN sent' : sent'[i].of \in DOMAIN turns
      /\ \A u : u # t => ResultsOf(u)' = ResultsOf(u)
      /\ AtMostOne(ResultsOf(t)')
  BY <1>1, ExpressStep DEF ConvInv
<1>4. \A u : ResumesOf(u)' = ResumesOf(u)
  BY <1>1 DEF ResumesOf
<1>5. ConvTypes'
  BY <1>1, <1>3 DEF ConvInv, ConvTypes
<1>6. RowsAreDecidedOnce'
  BY <1>1, <1>2, <1>3 DEF ConvInv, RowsAreDecidedOnce
<1>7. ResultsAreTold'
  <2>1. ASSUME NEW u \in DOMAIN turns
        PROVE  /\ AtMostOne(ResumesOf(u)') /\ AtMostOne(ResultsOf(u)')
               /\ inbox[u] # "consumed" => ResumesOf(u)' = {} /\ ResultsOf(u)' = {}
    BY <1>1, <1>3, <1>4 DEF ConvInv, ResultsAreTold
  <2> QED
    BY <1>1, <2>1 DEF ResultsAreTold, AtMostOne
<1>8. HistoryPairs'
  BY <1>1 DEF ConvInv, HistoryPairs
<1> QED
  BY <1>5, <1>6, <1>7, <1>8 DEF ConvInv

\* The gateway restarts, or a conversation is cleared.
LEMMA RestartOrClear ==
  ASSUME ConvInv, GatewayRestarts \/ (\E s \in Sessions : Clear(s)) \/ UNCHANGED conversationVars
  PROVE  ConvInv'
<1>1. UNCHANGED <<inbox, memories, sent>> /\ deciding' \subseteq deciding
  BY DEF GatewayRestarts, Clear, conversationVars
<1>2. /\ turns' \in Seq(Turns) /\ DOMAIN turns' = DOMAIN turns
      /\ \A t \in DOMAIN turns : turns'[t].stage \in Early => turns[t].stage \in Early
  <2>1. CASE GatewayRestarts
    <3>1. turns' = [t \in DOMAIN turns |->
                      IF turns[t].stage \in InFlight THEN [turns[t] EXCEPT !.stage = "failed"] ELSE turns[t]]
      BY <2>1 DEF GatewayRestarts, TurnIds
    <3>2. \A t \in DOMAIN turns : turns[t] \in Turns
      BY TurnFacts DEF ConvInv
    <3>3. ASSUME NEW x \in Turns PROVE [x EXCEPT !.stage = "failed"] \in Turns /\ [x EXCEPT !.stage = "failed"].stage = "failed"
      BY DEF Turns, Stages
    <3>4. \A t \in DOMAIN turns : turns'[t] \in Turns /\ (turns'[t] = turns[t] \/ turns'[t].stage = "failed")
      BY <3>1, <3>2, <3>3
    <3>5. turns' \in [1..Len(turns) -> Turns] /\ Len(turns) \in Nat /\ DOMAIN turns = 1..Len(turns)
      BY <3>1, <3>4, TurnFacts DEF ConvInv
    <3>6. turns' \in Seq(Turns)
      BY <3>5, SeqDef
    <3> QED
      BY <3>1, <3>4, <3>6 DEF Early
  <2>2. CASE turns' = turns
    BY <2>2 DEF ConvInv, ConvTypes
  <2> QED
    BY <2>1, <2>2 DEF Clear, conversationVars
<1>3. \A u : ResumesOf(u)' = ResumesOf(u) /\ ResultsOf(u)' = ResultsOf(u)
  BY <1>1 DEF ResumesOf, ResultsOf
<1>4. ConvTypes'
  BY <1>1, <1>2 DEF ConvInv, ConvTypes
<1>5. RowsAreDecidedOnce'
  BY <1>1, <1>2, <1>3 DEF ConvInv, RowsAreDecidedOnce
<1>6. ResultsAreTold'
  <2>1. ASSUME NEW u \in DOMAIN turns
        PROVE  /\ AtMostOne(ResumesOf(u)') /\ AtMostOne(ResultsOf(u)')
               /\ inbox'[u] # "consumed" => ResumesOf(u)' = {} /\ ResultsOf(u)' = {}
    BY <1>1, <1>3 DEF ConvInv, ResultsAreTold
  <2> QED
    BY <1>2, <2>1 DEF ResultsAreTold, AtMostOne
<1>7. HistoryPairs'
  <2>1. <<>> \in Seq(Spoken) /\ Len(<<>>) = 0 /\ Paired(<<>>) /\ 0 <= MaxMessages
    BY ConversationAssumption, EmptySeq DEF Paired
  <2>2. history' = history \/ \E s \in Sessions : history' = [history EXCEPT ![s] = <<>>]
    BY DEF GatewayRestarts, Clear, conversationVars
  <2> QED
    BY <2>1, <2>2 DEF ConvInv, HistoryPairs
<1> QED
  BY <1>4, <1>5, <1>6, <1>7 DEF ConvInv

\* The result of an approved action is recorded and told at most once, and
\* only when it was carried out, and what a conversation remembers is whole
\* exchanges, newest last, for any surfaces, decisions and restarts, and for
\* any size that histories are cut to (Engine.respond, resume_after_approval,
\* ConversationStore.append_exchange, ApprovalCoordinator.decide).
THEOREM ConversationIsIntact == ConversationSpec => []ConversationIntact
<1>1. ConversationInit => ConvInv
  <2> SUFFICES ASSUME ConversationInit PROVE ConvInv
    OBVIOUS
  <2>1. <<>> \in Seq(Spoken) /\ Len(<<>>) = 0 /\ Paired(<<>>) /\ 0 <= MaxMessages
    BY ConversationAssumption, EmptySeq DEF Paired
  <2>2. HistoryPairs
    BY <2>1 DEF ConversationInit, HistoryPairs
  <2>3. DOMAIN turns = {} /\ deciding = {}
    BY DEF ConversationInit
  <2>4. ConvTypes
    BY <2>3, EmptySeq DEF ConversationInit, ConvTypes
  <2> QED
    BY <2>2, <2>3, <2>4 DEF ConvInv, RowsAreDecidedOnce, ResultsAreTold
<1>2. ConvInv /\ [ConversationNext]_conversationVars => ConvInv'
  <2> SUFFICES ASSUME ConvInv, [ConversationNext]_conversationVars PROVE ConvInv'
    OBVIOUS
  <2>1. ASSUME NEW s \in Sessions, ChatRoute(s) \/ ClearCommand(s) \/ TextUpdate(s) \/ VoiceUpdate(s)
        PROVE  ConvInv'
    <3>1. Clear(s) \/ Asked(s, "thinking") \/ Asked(s, "hearing")
      BY <2>1 DEF ChatRoute, ClearCommand, TextUpdate, VoiceUpdate
    <3> QED
      BY <3>1, RestartOrClear, AskedStep DEF Stages
  <2>2. ASSUME NEW t \in TurnIds, Transcribed(t) \/ Handle(t) PROVE ConvInv'
    BY <2>2, TurnActions
  <2>3. ASSUME NEW d \in deciding, ResumeAfterApproval(d) \/ FollowUp(d) PROVE ConvInv'
    BY <2>3, ResumeStep, FollowUpStep
  <2>4. CASE GatewayRestarts \/ UNCHANGED conversationVars
    BY <2>4, RestartOrClear
  <2> QED
    BY <2>1, <2>2, <2>3, <2>4, DecisionActions DEF ConversationNext
<1>3. ConvInv => ConversationIntact
  <2> SUFFICES ASSUME ConvInv PROVE ConversationIntact
    OBVIOUS
  <2>1. ToldOnce
    <3>1. ASSUME NEW t \in TurnIds
          PROVE  /\ Occurrences(memories, [of |-> t, kind |-> "resume"]) <= 1
                 /\ Cardinality({i \in DOMAIN sent : sent[i].of = t /\ sent[i].kind = "result"}) <= 1
                 /\ \A i \in DOMAIN memories :
                       memories[i] = [of |-> t, kind |-> "resume"] => inbox[t] = "consumed"
      <4>1. /\ AtMostOne(ResumesOf(t)) /\ AtMostOne(ResultsOf(t))
            /\ inbox[t] # "consumed" => ResumesOf(t) = {}
        BY DEF ConvInv, ResultsAreTold, TurnIds
      <4>2. Cardinality(ResumesOf(t)) <= 1 /\ Cardinality(ResultsOf(t)) <= 1
        BY <4>1, OneAtMost
      <4> QED
        BY <4>1, <4>2 DEF ResumesOf, ResultsOf, Occurrences
    <3> QED
      BY <3>1 DEF ToldOnce
  <2>2. ExchangesIntact
    <3>1. ASSUME NEW s \in Sessions
          PROVE  /\ Len(history[s]) <= MaxMessages /\ Paired(history[s])
                 /\ DOMAIN history[s] = 1..Len(history[s])
      <4>1. history[s] \in Seq(Spoken) /\ Len(history[s]) <= MaxMessages /\ Paired(history[s])
        BY DEF ConvInv, HistoryPairs
      <4> QED
        BY <4>1, LenProperties
    <3> QED
      BY <3>1, Zenon DEF ExchangesIntact, Paired
  <2> QED
    BY <2>1, <2>2 DEF ConversationIntact
<1> QED
  BY <1>1, <1>2, <1>3, PTL DEF ConversationSpec

-----------------------------------------------------------------------------
(* DriverStream: the result is whole                                       *)

\* The files of the first frames.
FilesOf(F, n) == UNION {F[i].file : i \in 1..n}
Carried == FilesOf(frames, Len(frames))

\* The tool is gone, ended well, and all it said was read and held no failure.
EndedWell ==
    /\ tool = [state |-> "exited", ok |-> TRUE]
    /\ driver.read = Len(said) /\ ~driver.fatal
    /\ Deleted = {}

StreamTypes ==
    /\ tool \in ToolStates
    /\ said \in Seq(Kinds) /\ frames \in Seq(Frames)
    /\ DOMAIN driver = {"stage", "read", "frames", "fatal", "completed", "todo", "ok"}
    /\ driver.stage \in {"checking", "reading", "emitting", "exited"}
    /\ driver.read \in 0..Len(said)
    /\ DOMAIN host = {"stage", "read", "patches", "completed"}
    /\ host.read \in 0..Len(frames)

\* What was read so far held no failure that the driver does not know of.
ReadWell ==
    \A i \in 1..driver.read :
        said[i] # "malformed" /\ (EventSummary(said[i]).fatal => driver.fatal)

\* The frames carry what the driver has emitted of the changed files: nothing
\* before it has compared, and all of them when it has ended well.
FramesCarry ==
    /\ driver.stage \in {"checking", "reading"} => Carried = {} /\ driver.ok = FALSE
    /\ driver.stage = "emitting" => EndedWell /\ Carried \cup driver.todo = Changed /\ driver.ok = FALSE
    /\ driver.stage = "exited" => driver.ok = FALSE \/ (driver.ok = TRUE /\ EndedWell /\ Carried = Changed)

HostFollows ==
    /\ host.patches = FilesOf(frames, host.read)
    /\ host.stage = "returned" => driver.ok = TRUE /\ driver.stage = "exited" /\ host.read = Len(frames)

StreamInv == StreamTypes /\ ReadWell /\ FramesCarry /\ HostFollows

LEMMA FrameAdded ==
  ASSUME NEW F \in Seq(Frames), NEW x \in Frames
  PROVE  /\ Append(F, x) \in Seq(Frames) /\ Len(F) \in Nat /\ Len(Append(F, x)) = Len(F) + 1
         /\ \A n \in 0..Len(F) : FilesOf(Append(F, x), n) = FilesOf(F, n)
         /\ FilesOf(Append(F, x), Len(F) + 1) = FilesOf(F, Len(F)) \cup x.file
<1> DEFINE G == Append(F, x)
<1>1. G \in Seq(Frames) /\ Len(F) \in Nat /\ Len(G) = Len(F) + 1
  BY AppendProperties, LenProperties
<1>2. (\A i \in 1..Len(F) : G[i] = F[i]) /\ G[Len(F) + 1] = x
  BY <1>1, AppendProperties
<1> HIDE DEF G
<1>3. ASSUME NEW n \in 0..Len(F) PROVE FilesOf(G, n) = FilesOf(F, n)
  <2>1. \A i \in 1..n : G[i] = F[i]
    BY <1>1, <1>2
  <2> QED
    BY <2>1 DEF FilesOf
<1>4. FilesOf(G, Len(F) + 1) = FilesOf(F, Len(F)) \cup x.file
  <2> DEFINE n == Len(F)
  <2>1. 1..(n + 1) = (1..n) \cup {n + 1}
    BY <1>1
  <2>2. \A i \in 1..n : G[i].file = F[i].file
    BY <1>2
  <2> HIDE DEF n
  <2> QED
    BY <1>2, <2>1, <2>2 DEF FilesOf, n
<1> QED
  BY <1>1, <1>3, <1>4 DEF G

\* The driver reads on or emits; the host stays.
LEMMA EmitStep ==
  ASSUME StreamInv, NEW type \in FrameTypes, NEW file \in SUBSET Files, Emit(type, file), UNCHANGED host,
         driver.stage # "exited"
  PROVE  /\ frames' \in Seq(Frames) /\ host'.read \in 0..Len(frames')
         /\ Carried' = Carried \cup file
         /\ HostFollows'
<1> DEFINE x == [type |-> type, file |-> file]
<1>1. x \in Frames /\ x.file = file
  BY DEF Frames
<1>2. frames \in Seq(Frames) /\ frames' = Append(frames, x)
  BY DEF Emit, StreamInv, StreamTypes
<1> HIDE DEF x
<1>3. /\ frames' \in Seq(Frames) /\ Len(frames) \in Nat /\ Len(frames') = Len(frames) + 1
      /\ \A n \in 0..Len(frames) : FilesOf(frames', n) = FilesOf(frames, n)
      /\ FilesOf(frames', Len(frames')) = FilesOf(frames, Len(frames)) \cup file
  <2>1. /\ Append(frames, x) \in Seq(Frames) /\ Len(frames) \in Nat /\ Len(Append(frames, x)) = Len(frames) + 1
        /\ \A n \in 0..Len(frames) : FilesOf(Append(frames, x), n) = FilesOf(frames, n)
        /\ FilesOf(Append(frames, x), Len(frames) + 1) = FilesOf(frames, Len(frames)) \cup x.file
    BY <1>1, <1>2, FrameAdded, Zenon
  <2>2. Len(frames') = Len(frames) + 1
    BY <1>2, <2>1, Zenon
  <2> QED
    BY <1>1, <1>2, <2>1, <2>2, Zenon
<1>4. host.read \in 0..Len(frames) /\ host.stage # "returned"
  BY DEF StreamInv, StreamTypes, HostFollows
<1> QED
  BY <1>3, <1>4 DEF StreamInv, HostFollows, Carried

\* Nothing is emitted.
LEMMA SilentStep ==
  ASSUME StreamInv, UNCHANGED <<frames, host>>, driver.stage # "exited"
  PROVE  /\ frames' \in Seq(Frames) /\ host'.read \in 0..Len(frames')
         /\ Carried' = Carried
         /\ HostFollows'
BY DEF StreamInv, StreamTypes, HostFollows, Carried

\* A step of the driver, with what it emits.
Written(file) ==
    /\ frames' \in Seq(Frames) /\ host'.read \in 0..Len(frames')
    /\ Carried' = Carried \cup file
    /\ HostFollows'

LEMMA DriverStep ==
  ASSUME StreamInv, UNCHANGED <<vendor, said, copy, host>>, tool' \in ToolStates,
         driver.stage # "exited", NEW file \in SUBSET Files, Written(file),
         NEW fields, fields = {"stage", "read", "frames", "fatal", "completed", "todo", "ok"},
         DOMAIN driver' = fields, driver'.read = driver.read, driver'.fatal = driver.fatal,
         \/ driver.stage = "checking" /\ driver'.stage = "reading" /\ driver'.ok = FALSE /\ file = {}
         \/ driver'.stage = "exited" /\ driver'.ok = FALSE
         \/ /\ driver.stage = "reading" /\ driver'.stage = "emitting" /\ driver'.ok = FALSE /\ file = {}
            /\ tool' = tool /\ EndedWell /\ driver'.todo = Changed
         \/ /\ driver.stage = "emitting" /\ driver'.stage = "emitting" /\ driver'.ok = FALSE
            /\ tool' = tool /\ driver.todo = file \cup driver'.todo
         \/ /\ driver.stage = "emitting" /\ driver'.stage = "exited" /\ driver'.ok = TRUE
            /\ tool' = tool /\ file = {} /\ driver.todo = {}
  PROVE  StreamInv'
<1>1. StreamTypes'
  BY DEF StreamInv, StreamTypes, Written
<1>2. ReadWell'
  BY DEF StreamInv, ReadWell, EventSummary, ClaudeSummary, CodexSummary, GeminiSummary, OpenCodeSummary
<1>3. Changed' = Changed /\ (tool' = tool => (EndedWell' <=> EndedWell))
  BY DEF Changed, EndedWell, Deleted, After, Before
<1>4. FramesCarry'
  BY <1>3 DEF StreamInv, FramesCarry, Written
<1> QED
  BY <1>1, <1>2, <1>4 DEF StreamInv, Written

LEMMA EmitsOrNot ==
  ASSUME StreamInv, UNCHANGED host, driver.stage # "exited"
  PROVE  /\ \A type \in FrameTypes : \A file \in SUBSET Files : Emit(type, file) => Written(file)
         /\ UNCHANGED frames => Written({})
BY EmitStep, SilentStep DEF Written

LEMMA DriverActions ==
  ASSUME StreamInv, RunTask \/ DriverDies
  PROVE  StreamInv'
<1> DEFINE fields == {"stage", "read", "frames", "fatal", "completed", "todo", "ok"}
<1>1. DOMAIN driver = fields /\ tool \in ToolStates
  BY DEF StreamInv, StreamTypes
<1>2. ASSUME DriverFails
      PROVE  /\ Emit("error", {}) /\ DOMAIN driver' = fields /\ driver'.stage = "exited" /\ driver'.ok = FALSE
             /\ driver'.read = driver.read /\ driver'.fatal = driver.fatal
  BY <1>1, <1>2 DEF DriverFails
<1>3. CASE DriverStarts
  <2>1. UNCHANGED <<vendor, said, copy, host>> /\ driver.stage = "checking"
    BY <1>3 DEF DriverStarts
  <2>2. CASE CanRun
    <3>1. /\ Emit("accepted", {}) /\ driver' = [driver EXCEPT !.stage = "reading"]
          /\ tool' = [tool EXCEPT !.state = "running"]
      BY <1>3, <2>2 DEF DriverStarts
    <3>2. tool' \in ToolStates
      BY <1>1, <3>1 DEF ToolStates
    <3>3. Written({})
      BY <2>1, <3>1, EmitsOrNot DEF FrameTypes
    <3>4. /\ DOMAIN driver' = fields /\ driver'.read = driver.read /\ driver'.fatal = driver.fatal
          /\ driver'.stage = "reading" /\ driver'.ok = driver.ok
      BY <1>1, <3>1
    <3>5. driver.ok = FALSE
      BY <2>1 DEF StreamInv, FramesCarry
    <3> QED
      BY <2>1, <3>2, <3>3, <3>4, <3>5, DriverStep
  <2>3. CASE ~CanRun
    <3>1. DriverFails /\ tool' = tool
      BY <1>3, <2>3 DEF DriverStarts
    <3>2. Written({})
      BY <1>2, <2>1, <3>1, EmitsOrNot DEF FrameTypes
    <3> QED
      BY <1>1, <1>2, <2>1, <3>1, <3>2, DriverStep
  <2> QED
    BY <2>2, <2>3
<1>4. CASE DriverReads
  <2> DEFINE e == said[driver.read + 1]
             s == EventSummary(e)
  <2>1. /\ UNCHANGED <<vendor, said, copy, host>> /\ driver.stage = "reading" /\ driver.read < Len(said)
        /\ \/ DriverAbandons
           \/ /\ ~(driver.read + 1 > MaxEvents \/ e = "malformed")
              /\ driver' = [driver EXCEPT !.read = @ + 1,
                                          !.fatal = @ \/ s.fatal,
                                          !.completed = @ \/ s.completed,
                                          !.frames = IF Progress(s) THEN @ + 1 ELSE @]
              /\ Emit("progress", {}) \/ UNCHANGED frames
              /\ UNCHANGED tool
    BY <1>4, Zenon DEF DriverReads
  <2> HIDE DEF s
  <2>2. CASE DriverAbandons
    <3>1. DriverFails /\ tool' \in ToolStates
      BY <1>1, <2>2 DEF DriverAbandons, ToolStates
    <3>2. Written({})
      BY <1>2, <2>1, <3>1, EmitsOrNot DEF FrameTypes
    <3> QED
      BY <1>1, <1>2, <2>1, <3>1, <3>2, DriverStep
  <2>3. ASSUME /\ ~(driver.read + 1 > MaxEvents \/ e = "malformed")
               /\ driver' = [driver EXCEPT !.read = @ + 1,
                                           !.fatal = @ \/ s.fatal,
                                           !.completed = @ \/ s.completed,
                                           !.frames = IF Progress(s) THEN @ + 1 ELSE @]
               /\ Emit("progress", {}) \/ UNCHANGED frames
               /\ UNCHANGED tool
        PROVE  StreamInv'
    <3>1. Written({})
      BY <2>1, <2>3, EmitsOrNot DEF FrameTypes
    <3>2. /\ DOMAIN driver' = fields /\ driver'.stage = "reading" /\ driver'.ok = driver.ok
          /\ driver'.read = driver.read + 1
      BY <1>1, <2>1, <2>3
    <3>3. (driver.fatal \/ s.fatal) => driver'.fatal
      BY <1>1, <2>3
    <3>4. driver.read \in Nat /\ Len(said) \in Nat
      BY LenProperties DEF StreamInv, StreamTypes
    <3>5. StreamTypes'
      BY <2>1, <2>3, <3>1, <3>2, <3>4 DEF StreamInv, StreamTypes, Written
    <3>6. ReadWell'
      <4>1. ASSUME NEW i \in 1..(driver.read + 1)
            PROVE  said[i] # "malformed" /\ (EventSummary(said[i]).fatal => driver'.fatal)
        <5>1. CASE i = driver.read + 1
          BY <2>3, <3>3, <5>1 DEF s
        <5>2. CASE i \in 1..driver.read
          BY <3>3, <5>2 DEF StreamInv, ReadWell
        <5> QED
          BY <3>4, <5>1, <5>2
      <4> QED
        BY <2>1, <3>2, <4>1
        DEF ReadWell, EventSummary, ClaudeSummary, CodexSummary, GeminiSummary, OpenCodeSummary
    <3>7. FramesCarry'
      BY <2>1, <3>1, <3>2 DEF StreamInv, FramesCarry, Written
    <3> QED
      BY <3>1, <3>5, <3>6, <3>7 DEF StreamInv, Written
  <2> QED
    BY <2>1, <2>2, <2>3, Zenon
<1>5. CASE DriverCompares
  <2>1. /\ UNCHANGED <<vendor, said, copy, host, tool>> /\ driver.stage = "reading"
        /\ tool.state = "exited" /\ driver.read = Len(said)
        /\ \/ /\ StreamSucceeded /\ Deleted = {}
              /\ driver' = [driver EXCEPT !.stage = "emitting", !.todo = Changed]
              /\ Emit("progress", {}) \/ UNCHANGED frames
           \/ DriverFails
    BY <1>5 DEF DriverCompares, ToolUnchanged
  <2>2. CASE DriverFails
    <3>1. Written({})
      BY <1>2, <2>1, <2>2, EmitsOrNot DEF FrameTypes
    <3> QED
      BY <1>1, <1>2, <2>1, <2>2, <3>1, DriverStep
  <2>3. CASE /\ StreamSucceeded /\ Deleted = {}
             /\ driver' = [driver EXCEPT !.stage = "emitting", !.todo = Changed]
             /\ Emit("progress", {}) \/ UNCHANGED frames
    <3>1. Written({})
      BY <2>1, <2>3, EmitsOrNot DEF FrameTypes
    <3>2. EndedWell
      BY <1>1, <2>1, <2>3 DEF EndedWell, StreamSucceeded, ToolStates
    <3>3. /\ DOMAIN driver' = fields /\ driver'.read = driver.read /\ driver'.fatal = driver.fatal
          /\ driver'.stage = "emitting" /\ driver'.ok = driver.ok /\ driver'.todo = Changed
      BY <1>1, <2>3
    <3>4. driver.ok = FALSE
      BY <2>1 DEF StreamInv, FramesCarry
    <3> QED
      BY <1>1, <2>1, <3>1, <3>2, <3>3, <3>4, DriverStep
  <2> QED
    BY <2>1, <2>2, <2>3
<1>6. CASE DriverEmits
  <2>1. UNCHANGED <<vendor, said, copy, host, tool>> /\ driver.stage = "emitting" /\ driver.ok = FALSE
    BY <1>6 DEF DriverEmits, ToolUnchanged, StreamInv, FramesCarry
  <2>2. CASE driver.todo # {}
    <3>1. PICK f \in driver.todo : Emit("patch", {f}) /\ driver' = [driver EXCEPT !.todo = @ \ {f}]
      BY <1>6, <2>2 DEF DriverEmits
    <3>2. f \in Files
      BY <2>1 DEF StreamInv, FramesCarry, Changed, After, Before
    <3>3. Written({f})
      BY <2>1, <3>1, <3>2, EmitsOrNot DEF FrameTypes
    <3>4. /\ DOMAIN driver' = fields /\ driver'.read = driver.read /\ driver'.fatal = driver.fatal
          /\ driver'.stage = "emitting" /\ driver'.ok = FALSE /\ driver.todo = {f} \cup driver'.todo
      BY <1>1, <2>1, <3>1
    <3> QED
      BY <1>1, <2>1, <3>2, <3>3, <3>4, DriverStep
  <2>3. CASE driver.todo = {}
    <3>1. Emit("completed", {}) /\ driver' = [driver EXCEPT !.stage = "exited", !.ok = TRUE]
      BY <1>6, <2>3 DEF DriverEmits
    <3>2. Written({})
      BY <2>1, <3>1, EmitsOrNot DEF FrameTypes
    <3>3. /\ DOMAIN driver' = fields /\ driver'.read = driver.read /\ driver'.fatal = driver.fatal
          /\ driver'.stage = "exited" /\ driver'.ok = TRUE
      BY <1>1, <3>1
    <3> QED
      BY <1>1, <2>1, <2>3, <3>2, <3>3, DriverStep
  <2> QED
    BY <2>2, <2>3
<1>7. CASE DriverDies
  <2>1. /\ UNCHANGED <<vendor, said, copy, host, tool, frames>> /\ driver.stage # "exited"
        /\ driver' = [driver EXCEPT !.stage = "exited", !.ok = FALSE]
    BY <1>7 DEF DriverDies, ToolUnchanged
  <2>2. /\ DOMAIN driver' = fields /\ driver'.read = driver.read /\ driver'.fatal = driver.fatal
        /\ driver'.stage = "exited" /\ driver'.ok = FALSE
    BY <1>1, <2>1
  <2>3. Written({})
    BY <2>1, EmitsOrNot
  <2> QED
    BY <1>1, <2>1, <2>2, <2>3, DriverStep
<1> QED
  BY <1>3, <1>4, <1>5, <1>6, <1>7 DEF RunTask

\* The tool works only while the driver has not compared: nothing that the
\* frames carry is about its last edits.
LEMMA ToolStep ==
  ASSUME StreamInv, UNCHANGED <<driver, frames, host>>, tool.state = "running", tool' \in ToolStates,
         said' \in Seq(Kinds), driver.read <= Len(said'),
         \A i \in 1..driver.read : said'[i] = said[i],
         UNCHANGED vendor
  PROVE  StreamInv'
<1>1. StreamTypes'
  <2>1. Len(said') \in Nat
    BY LenProperties
  <2> QED
    BY <2>1 DEF StreamInv, StreamTypes
<1>2. ReadWell'
  BY DEF StreamInv, ReadWell, EventSummary, ClaudeSummary, CodexSummary, GeminiSummary, OpenCodeSummary
<1>3. driver.stage # "emitting" /\ (driver.stage = "exited" => driver.ok = FALSE) /\ Carried' = Carried
  BY DEF StreamInv, FramesCarry, EndedWell, Carried
<1>4. FramesCarry'
  BY <1>3 DEF StreamInv, FramesCarry
<1>5. HostFollows'
  BY DEF StreamInv, HostFollows
<1> QED
  BY <1>1, <1>2, <1>4, <1>5 DEF StreamInv

LEMMA ToolActions ==
  ASSUME StreamInv,
         (\E f \in Files : ToolEdits(f)) \/ (\E e \in Kinds : ToolSays(e)) \/ (\E ok \in BOOLEAN : ToolExits(ok))
  PROVE  StreamInv'
<1>1. /\ tool \in ToolStates /\ said \in Seq(Kinds) /\ Len(said) \in Nat
      /\ driver.read \in 0..Len(said)
  BY LenProperties DEF StreamInv, StreamTypes
<1>2. CASE \E f \in Files : ToolEdits(f)
  <2>1. UNCHANGED <<driver, frames, host, tool, said, vendor>> /\ tool.state = "running"
    BY <1>2 DEF ToolEdits
  <2> QED
    BY <1>1, <2>1, ToolStep
<1>3. CASE \E e \in Kinds : ToolSays(e)
  <2>1. PICK e \in Kinds : ToolSays(e)
    BY <1>3
  <2>2. UNCHANGED <<driver, frames, host, tool, vendor>> /\ tool.state = "running" /\ said' = Append(said, e)
    BY <2>1 DEF ToolSays
  <2>3. said' \in Seq(Kinds) /\ Len(said') = Len(said) + 1 /\ \A i \in 1..Len(said) : said'[i] = said[i]
    BY <1>1, <2>2, AppendProperties
  <2> QED
    BY <1>1, <2>2, <2>3, ToolStep
<1>4. CASE \E ok \in BOOLEAN : ToolExits(ok)
  <2>1. UNCHANGED <<driver, frames, host, said, vendor>> /\ tool.state = "running" /\ tool' \in ToolStates
    BY <1>4 DEF ToolExits, ToolStates
  <2> QED
    BY <1>1, <2>1, ToolStep
<1> QED
  BY <1>2, <1>3, <1>4

\* The gateway takes the frames in order, and what it returns is all of them.
LEMMA HostActions ==
  ASSUME StreamInv, RunExternalProcess
  PROVE  StreamInv'
<1>1. /\ UNCHANGED <<vendor, tool, said, copy, frames>> /\ host.stage = "reading"
      /\ DOMAIN driver = {"stage", "read", "frames", "fatal", "completed", "todo", "ok"}
      /\ DOMAIN host = {"stage", "read", "patches", "completed"}
      /\ frames \in Seq(Frames) /\ Len(frames) \in Nat
      /\ host.read \in 0..Len(frames)
  BY LenProperties
  DEF RunExternalProcess, HostReads, HostTimesOut, HostEnds, ToolUnchanged, StreamInv, StreamTypes
<1>2. Carried' = Carried /\ Changed' = Changed
  BY <1>1 DEF Carried, Changed, After, Before
<1>3. CASE HostFails
  <2>1. /\ DOMAIN host' = DOMAIN host /\ host'.stage = "failed" /\ host'.read = host.read
        /\ host'.patches = host.patches
        /\ DOMAIN driver' = DOMAIN driver /\ driver'.stage = "exited"
        /\ driver'.ok = (IF driver.stage = "exited" THEN driver.ok ELSE FALSE)
        /\ driver'.read = driver.read /\ driver'.fatal = driver.fatal
    BY <1>1, <1>3 DEF HostFails
  <2>2. EndedWell' <=> EndedWell
    BY <1>1, <2>1 DEF EndedWell, Deleted, After, Before
  <2>3. StreamTypes'
    BY <1>1, <2>1 DEF StreamInv, StreamTypes
  <2>4. ReadWell'
    BY <1>1, <2>1
    DEF StreamInv, ReadWell, EventSummary, ClaudeSummary, CodexSummary, GeminiSummary, OpenCodeSummary
  <2>5. FramesCarry'
    <3>1. CASE driver.stage = "exited"
      BY <1>2, <2>1, <2>2, <3>1 DEF StreamInv, FramesCarry
    <3>2. CASE driver.stage # "exited"
      BY <2>1, <3>2 DEF FramesCarry
    <3> QED
      BY <3>1, <3>2
  <2>6. HostFollows'
    BY <1>1, <2>1 DEF StreamInv, HostFollows
  <2> QED
    BY <2>3, <2>4, <2>5, <2>6 DEF StreamInv
<1>4. ASSUME UNCHANGED driver, DOMAIN host' = DOMAIN host, host'.read \in 0..Len(frames), HostFollows'
      PROVE  StreamInv'
  <2>1. StreamTypes'
    BY <1>1, <1>4 DEF StreamInv, StreamTypes
  <2>2. ReadWell'
    BY <1>1, <1>4
    DEF StreamInv, ReadWell, EventSummary, ClaudeSummary, CodexSummary, GeminiSummary, OpenCodeSummary
  <2>3. EndedWell' <=> EndedWell
    BY <1>1, <1>4 DEF EndedWell, Deleted, After, Before
  <2>4. FramesCarry'
    BY <1>2, <1>4, <2>3 DEF StreamInv, FramesCarry
  <2> QED
    BY <1>4, <2>1, <2>2, <2>4 DEF StreamInv
<1>5. ASSUME NEW frame, frame = frames[host.read + 1], host.read < Len(frames), UNCHANGED driver,
             host' = [host EXCEPT !.read = @ + 1,
                                  !.patches = @ \cup frame.file,
                                  !.completed = @ \/ frame.type = "completed"]
      PROVE  StreamInv'
  <2>1. /\ DOMAIN host' = DOMAIN host /\ host'.read = host.read + 1
        /\ host'.patches = host.patches \cup frame.file /\ host'.stage = "reading"
    BY <1>1, <1>5
  <2>2. FilesOf(frames, host.read + 1) = FilesOf(frames, host.read) \cup frame.file
    <3>1. 1..(host.read + 1) = (1..host.read) \cup {host.read + 1}
      BY <1>1
    <3> QED
      BY <1>5, <3>1 DEF FilesOf
  <2>3. HostFollows'
    BY <1>1, <2>1, <2>2 DEF StreamInv, HostFollows
  <2>4. host'.read \in 0..Len(frames)
    BY <1>1, <1>5, <2>1
  <2> QED
    BY <1>4, <1>5, <2>1, <2>3, <2>4
<1>6. CASE HostReads
  <2>1. HostFails \/ /\ host.read < Len(frames) /\ UNCHANGED driver
                     /\ host' = [host EXCEPT !.read = @ + 1,
                                             !.patches = @ \cup frames[host.read + 1].file,
                                             !.completed = @ \/ frames[host.read + 1].type = "completed"]
    BY <1>6, Zenon DEF HostReads
  <2> QED
    BY <1>3, <1>5, <2>1, Zenon
<1>7. CASE HostTimesOut
  BY <1>3, <1>7 DEF HostTimesOut
<1>8. CASE HostEnds
  <2>1. /\ UNCHANGED driver /\ host.read = Len(frames) /\ driver.stage = "exited"
        /\ DOMAIN host' = DOMAIN host /\ host'.read = host.read /\ host'.patches = host.patches
        /\ host'.stage = (IF driver.ok /\ host.completed THEN "returned" ELSE "failed")
    BY <1>1, <1>8 DEF HostEnds
  <2>2. driver.ok = FALSE \/ driver.ok = TRUE
    BY <2>1 DEF StreamInv, FramesCarry
  <2>3. HostFollows'
    BY <1>1, <2>1, <2>2 DEF StreamInv, HostFollows
  <2> QED
    BY <1>1, <1>4, <2>1, <2>3
<1> QED
  BY <1>6, <1>7, <1>8 DEF RunExternalProcess

LEMMA StreamStart ==
  ASSUME DriverInit
  PROVE  StreamInv
<1>1. /\ tool \in ToolStates /\ said \in Seq(Kinds) /\ frames \in Seq(Frames)
      /\ Len(said) = 0 /\ Len(frames) = 0
  BY DEF DriverInit, ToolStates
<1>2. FilesOf(frames, 0) = {}
  BY DEF FilesOf
<1>3. StreamTypes /\ ReadWell /\ FramesCarry /\ HostFollows
  BY <1>1, <1>2 DEF DriverInit, StreamTypes, ReadWell, FramesCarry, HostFollows, Carried
<1> QED
  BY <1>3 DEF StreamInv

LEMMA StreamStutters ==
  ASSUME StreamInv, UNCHANGED driverVars
  PROVE  StreamInv'
<1>1. UNCHANGED <<vendor, present, tool, said, copy, driver, frames, host>>
  BY DEF driverVars
<1>2. Carried' = Carried /\ Changed' = Changed /\ Deleted' = Deleted
  BY <1>1 DEF Carried, Changed, Deleted, After, Before
<1>3. EndedWell' <=> EndedWell
  BY <1>1, <1>2 DEF EndedWell
<1>4. StreamTypes' /\ HostFollows'
  BY <1>1 DEF StreamInv, StreamTypes, HostFollows
<1>5. FramesCarry'
  BY <1>1, <1>2, <1>3 DEF StreamInv, FramesCarry
<1>6. ReadWell'
  BY <1>1 DEF StreamInv, ReadWell, EventSummary, ClaudeSummary, CodexSummary, GeminiSummary, OpenCodeSummary
<1> QED
  BY <1>4, <1>5, <1>6 DEF StreamInv

\* What _run_external_process returns is all that the tool left changed, of a
\* tool that ended well and reported no failure anywhere in its stream.
THEOREM ResultIsWhole == DriverSpec => []WholeResult
<1>1. DriverInit => StreamInv
  BY StreamStart
<1>2. StreamInv /\ [DriverNext]_driverVars => StreamInv'
  <2> SUFFICES ASSUME StreamInv, [DriverNext]_driverVars
               PROVE  StreamInv'
    OBVIOUS
  <2>1. CASE RunTask \/ DriverDies
    BY <2>1, DriverActions
  <2>2. CASE (\E f \in Files : ToolEdits(f)) \/ (\E e \in Kinds : ToolSays(e)) \/ (\E ok \in BOOLEAN : ToolExits(ok))
    BY <2>2, ToolActions
  <2>3. CASE RunExternalProcess
    BY <2>3, HostActions
  <2>4. CASE UNCHANGED driverVars
    BY <2>4, StreamStutters
  <2> QED
    BY <2>1, <2>2, <2>3, <2>4 DEF DriverNext, ClaudeRun, CodexRun, GeminiRun, OpenCodeRun
<1>3. StreamInv => WholeResult
  <2> SUFFICES ASSUME StreamInv, host.stage = "returned"
               PROVE  /\ host.patches = {f \in Files \ Hidden : copy[f] = "text"}
                      /\ \A f \in Texts \ Hidden : copy[f] \in {"same", "text"}
                      /\ tool = [state |-> "exited", ok |-> TRUE]
                      /\ \A i \in DOMAIN said : ~EventSummary(said[i]).fatal /\ said[i] # "malformed"
    BY DEF WholeResult
  <2>1. driver.ok = TRUE /\ driver.stage = "exited" /\ host.patches = Carried
    BY DEF StreamInv, HostFollows, Carried
  <2>2. EndedWell /\ Carried = Changed
    BY <2>1 DEF StreamInv, FramesCarry
  <2>3. DOMAIN said = 1..driver.read
    BY <2>2 DEF EndedWell, StreamInv, StreamTypes
  <2>4. \A i \in DOMAIN said : ~EventSummary(said[i]).fatal /\ said[i] # "malformed"
    BY <2>2, <2>3 DEF EndedWell, StreamInv, ReadWell
  <2> QED
    BY <2>1, <2>2, <2>4 DEF EndedWell, Changed, Deleted, After, Before
<1> QED
  BY <1>1, <1>2, <1>3, PTL DEF DriverSpec
=============================================================================
