----------------------------- MODULE OAuthEdge -----------------------------
(***************************************************************************)
(* The OAuth edge in front of the Living Machine MCP server:               *)
(*   aether_gateway/oauth_edge/server.py          the routes               *)
(*   aether_gateway/oauth_edge/token_store.py     requests and tokens      *)
(*   aether_gateway/oauth_edge/approval_inbox.py  the governed row         *)
(*   aether_gateway/oauth_edge/session.py         the Founder's cookie     *)
(*   aether_gateway/oauth_edge/registry.py        the principals           *)
(*                                                                         *)
(* An authorization request lives twice: in the edge's memory and as a row *)
(* of the pending action store, which the gateway's inbox, another         *)
(* process, decides and executes too.  The routes run on one event loop    *)
(* and await nothing while they decide, so `handler` holds the one that is *)
(* between two of its database transactions; meanwhile only the gateway,   *)
(* the clock or a crash can move.  Clocks are abstracted: `late` and `due` *)
(* hold what has outlived its time.  PKCE verifiers, signatures and the    *)
(* operator token are taken as valid, and a refusal that writes nothing is *)
(* no step.                                                                *)
(***************************************************************************)
EXTENDS Naturals, FiniteSets

CONSTANTS
    Requests,       \* request ids
    Tokens,         \* refresh tokens
    Clients,        \* client ids of the principal registry
    NoClient,       \* the client_id of a refresh call that names none
    Authority,      \* clients whose principal has mutation_authority
    Calls,          \* calls of /mcp in flight
    MaxCrashes

ASSUME EdgeAssumption ==
    /\ Authority \subseteq Clients
    /\ NoClient \notin Clients
    /\ MaxCrashes \in Nat

VARIABLES
    req,        \* TokenStore._pending
    late,       \* requests older than AUTH_CODE_TTL
    row,        \* status of the governed proposal of a request
    asked,      \* its metadata: client and scopes
    due,        \* rows past expires_at
    told,       \* the redirects sent to the client's browser
    page,       \* the page the Founder's browser shows for a request
    cookie,     \* the Founder's session cookie
    refresh,    \* the refresh_tokens table
    access,     \* access tokens that have not expired
    grants,     \* code exchanges of a request
    call,       \* what mcp_proxy has established about a call
    proxied,    \* the last tool call forwarded upstream, and whether it was checked
    handler,    \* the route between two transactions
    crashes

requestVars == <<req, late, told, page, cookie>>
rowVars == <<row, asked, due>>
tokenVars == <<refresh, access, grants>>
callVars == <<call, proxied>>
edgeVars == <<requestVars, rowVars, tokenVars, callVars, handler, crashes>>

Scopes == {"read", "mutate"}

\* The statuses of a row on which a decision to approve is recorded.
Granted == {"approved", "executing", "consumed"}

Idle == [op |-> "idle"]

Unused == [client |-> NoClient, scopes |-> {}, from |-> "none", live |-> FALSE]

EdgeTypeOK ==
    /\ req \in [Requests -> {"unused", "open", "approved", "rejected", "gone"}]
    /\ late \subseteq Requests
    /\ row \in [Requests -> {"absent", "pending", "rejected", "expired"} \cup Granted]
    /\ asked \in [Requests -> [client : Clients \cup {NoClient}, scopes : SUBSET Scopes]]
    /\ due \subseteq Requests
    /\ told \in [Requests -> SUBSET {"code", "denied"}]
    /\ page \in [Requests -> {"none", "login", "consent"}]
    /\ cookie \in {"none", "signed"}
    /\ refresh \in [Tokens -> [client : Clients \cup {NoClient}, scopes : SUBSET Scopes,
                               from : Requests \cup {"none"}, live : BOOLEAN]]
    /\ access \subseteq [from : Requests, how : {"code", "refresh"}, scopes : SUBSET Scopes]
    /\ grants \in [Requests -> Nat]
    /\ crashes \in 0..MaxCrashes

EdgeInit ==
    /\ req = [r \in Requests |-> "unused"]
    /\ late = {}
    /\ row = [r \in Requests |-> "absent"]
    /\ asked = [r \in Requests |-> [client |-> NoClient, scopes |-> {}]]
    /\ due = {}
    /\ told = [r \in Requests |-> {}]
    /\ page = [r \in Requests |-> "none"]
    /\ cookie = "none"
    /\ refresh = [t \in Tokens |-> Unused]
    /\ access = {}
    /\ grants = [r \in Requests |-> 0]
    /\ call = [c \in Calls |-> Idle]
    /\ proxied = Idle
    /\ handler = Idle
    /\ crashes = 0

-----------------------------------------------------------------------------
(* Authorization requests and the Founder's browser.                       *)

\* Principal.effective_scopes.
EffectiveScopes(c, requested) ==
    IF c \in Authority THEN requested ELSE requested \ {"mutate"}

\* _approval_page: Approve and Reject buttons, or a form to sign in.
ApprovalPage == IF cookie = "signed" THEN "consent" ELSE "login"

CreatePendingAuth(r) == req' = [req EXCEPT ![r] = "open"]

\* authorize, up to create_pending_auth.  The pending request is in memory
\* before its proposal is submitted.
Authorize(r, c, requested) ==
    /\ handler = Idle
    /\ req[r] = "unused"
    /\ handler' = [op |-> "submit", req |-> r, client |-> c,
                   scopes |-> EffectiveScopes(c, requested)]
    /\ CreatePendingAuth(r)
    /\ UNCHANGED <<late, told, page, cookie, rowVars, tokenVars, callVars, crashes>>

\* submit_oauth_proposal: the row, and the consent page.
SubmitProposal ==
    /\ handler.op = "submit"
    /\ LET r == handler.req IN
       /\ row' = [row EXCEPT ![r] = "pending"]
       /\ asked' = [asked EXCEPT ![r] =
                       [client |-> handler.client, scopes |-> handler.scopes]]
       /\ page' = [page EXCEPT ![r] = ApprovalPage]
    /\ handler' = Idle
    /\ UNCHANGED <<req, late, told, cookie, due, tokenVars, callVars, crashes>>

\* The store refuses the proposal: cancel_pending_auth.
SubmitFails ==
    /\ handler.op = "submit"
    /\ req' = [req EXCEPT ![handler.req] = "gone"]
    /\ handler' = Idle
    /\ UNCHANGED <<late, told, page, cookie, rowVars, tokenVars, callVars, crashes>>

\* oauth_login mints the cookie.  The redirect to `next` is a new call of
\* authorize, which makes a new request.
OauthLogin ==
    /\ handler = Idle
    /\ cookie' = "signed"
    /\ UNCHANGED <<req, late, told, page, rowVars, tokenVars, callVars, handler, crashes>>

\* oauth_logout deletes the cookie, and verify_founder_session refuses one
\* that is older than SESSION_TTL.
OauthLogout ==
    /\ handler = Idle
    /\ cookie = "signed"
    /\ cookie' = "none"
    /\ UNCHANGED <<req, late, told, page, rowVars, tokenVars, callVars, handler, crashes>>

\* _authenticate_founder: an operator token in the header, or the cookie,
\* which a browser sends from a page that has the buttons.
AuthenticateFounder(r, header) == header \/ (cookie = "signed" /\ page[r] = "consent")

\* get_pending_auth: a request past its time is dropped.
PendingAuth(r) == req[r] \in {"open", "approved", "rejected"} /\ r \notin late

\* PendingActionStore.decide on the row of request r: only a pending row
\* that is in time takes the decision.
Decided(r, decision) ==
    IF row[r] # "pending" THEN row[r]
    ELSE IF r \in due THEN "expired" ELSE decision

\* approve_auth and reject_auth, up to the commit of mark_decision.  An
\* expired row raises, and ends the route.
MarkDecision(r, op, header) ==
    /\ handler = Idle
    /\ AuthenticateFounder(r, header)
    /\ PendingAuth(r)
    /\ row[r] # "absent"
    /\ row' = [row EXCEPT ![r] =
                  Decided(r, IF op = "approve" THEN "approved" ELSE "rejected")]
    /\ handler' = IF row[r] = "pending" /\ r \in due
                  THEN Idle ELSE [op |-> op, req |-> r]
    /\ UNCHANGED <<requestVars, asked, due, tokenVars, callVars, crashes>>

\* TokenStore.approve_auth: a code for a request that is still undecided.
MintCode(r) ==
    IF PendingAuth(r) /\ req[r] = "open"
    THEN /\ req' = [req EXCEPT ![r] = "approved"]
         /\ told' = [told EXCEPT ![r] = @ \cup {"code"}]
    ELSE UNCHANGED <<req, told>>

\* Mutant: a row decided otherwise in the meantime is not looked at.
ApproveUnread ==
    /\ handler.op = "approve"
    /\ handler' = Idle
    /\ MintCode(handler.req)
    /\ UNCHANGED <<late, page, cookie, rowVars, tokenVars, callVars, crashes>>

\* approve_auth, from the row read back: only an approved one yields a code.
ApproveAuth ==
    /\ handler.op = "approve"
    /\ handler' = Idle
    /\ IF row[handler.req] = "approved" THEN MintCode(handler.req) ELSE UNCHANGED <<req, told>>
    /\ UNCHANGED <<late, page, cookie, rowVars, tokenVars, callVars, crashes>>

\* TokenStore.reject_auth marks the request whatever was decided on it before,
\* unless it has just lapsed.
MarkRejected(r) == req' = [req EXCEPT ![r] = IF PendingAuth(r) THEN "rejected" ELSE "gone"]

\* reject_auth, from the row read back; the redirect is sent in both cases.
RejectAuth ==
    /\ handler.op = "reject"
    /\ handler' = Idle
    /\ LET r == handler.req IN
       IF row[r] = "rejected"
       THEN /\ MarkRejected(r)
            /\ told' = [told EXCEPT ![r] = @ \cup {"denied"}]
       ELSE UNCHANGED <<req, told>>
    /\ UNCHANGED <<late, page, cookie, rowVars, tokenVars, callVars, crashes>>

-----------------------------------------------------------------------------
(* Tokens.                                                                 *)

\* get_pending_auth_by_code.
CodeValid(r) == req[r] = "approved" /\ r \notin late

\* _handle_code_exchange, up to consume_auth_code: the code of an approved
\* request in time, named by its own client and redirect URI.
ConsumeAuthCode(r) ==
    /\ handler = Idle
    /\ CodeValid(r)
    /\ req' = [req EXCEPT ![r] = "gone"]
    /\ grants' = [grants EXCEPT ![r] = @ + 1]
    /\ handler' = [op |-> "issue", from |-> r, how |-> "code",
                   client |-> asked[r].client, scopes |-> asked[r].scopes]
    /\ UNCHANGED <<late, told, page, cookie, rowVars, refresh, access, callVars, crashes>>

\* consume_refresh_token accepts t from client c: one of the two names no
\* client, or both name the same.
Accepts(t, c) ==
    /\ refresh[t].live
    /\ c = NoClient \/ refresh[t].client \in {NoClient, c}

\* Mutant: a token that is used stays valid.
RefreshKeepsToken(t, c) ==
    /\ handler = Idle
    /\ Accepts(t, c)
    /\ handler' = [op |-> "issue", from |-> refresh[t].from, how |-> "refresh",
                   client |-> c, scopes |-> refresh[t].scopes]
    /\ UNCHANGED <<requestVars, rowVars, tokenVars, callVars, crashes>>

\* _handle_refresh, up to the commit that revokes the token.
ConsumeRefreshToken(t, c) ==
    /\ handler = Idle
    /\ Accepts(t, c)
    /\ refresh' = [refresh EXCEPT ![t].live = FALSE]
    /\ handler' = [op |-> "issue", from |-> refresh[t].from, how |-> "refresh",
                   client |-> c, scopes |-> refresh[t].scopes]
    /\ UNCHANGED <<requestVars, rowVars, access, grants, callVars, crashes>>

\* POST token: the two grant types.
TokenEndpoint ==
    \/ \E r \in Requests : ConsumeAuthCode(r)
    \/ \E t \in Tokens, c \in Clients \cup {NoClient} : ConsumeRefreshToken(t, c)

\* issue_refresh_token never carries aether.mutate on.
SafeScopes(scopes) == scopes \ {"mutate"}

\* issue_access_token and issue_refresh_token, and the reply with both.
IssueTokens(t) ==
    /\ handler.op = "issue"
    /\ refresh[t] = Unused
    /\ access' = access \cup {[from |-> handler.from, how |-> handler.how,
                               scopes |-> handler.scopes]}
    /\ refresh' = [refresh EXCEPT ![t] =
                      [client |-> handler.client, scopes |-> SafeScopes(handler.scopes),
                       from |-> handler.from, live |-> TRUE]]
    /\ handler' = Idle
    /\ UNCHANGED <<requestVars, rowVars, grants, callVars, crashes>>

\* The insert fails: what was consumed is gone and nothing is issued.
IssueFails ==
    /\ handler.op = "issue"
    /\ handler' = Idle
    /\ UNCHANGED <<requestVars, rowVars, tokenVars, callVars, crashes>>

\* revoke_token consumes the refresh token and answers 200 in any case; and
\* a refresh token lapses after REFRESH_TOKEN_TTL.
RevokeToken(t) ==
    /\ handler = Idle
    /\ refresh[t].live
    /\ refresh' = [refresh EXCEPT ![t].live = FALSE]
    /\ UNCHANGED <<requestVars, rowVars, access, grants, callVars, handler, crashes>>

-----------------------------------------------------------------------------
(* The proxy.                                                              *)

\* TOOL_SCOPE_MAP, by class of tool.
ToolScopes == [read |-> {"read"}, mutate |-> {"mutate"}]

\* mcp_proxy, up to the await of the request body: the scopes of an access
\* token, or of one of the two tokens configured for developers and
\* operators.
Authenticate(c, a) ==
    /\ handler = Idle
    /\ call[c] = Idle
    /\ call' = [call EXCEPT ![c] = [op |-> "oauth", token |-> a, scopes |-> a.scopes]]
    /\ UNCHANGED <<requestVars, rowVars, tokenVars, proxied, handler, crashes>>

DirectToken(c, operator) ==
    /\ handler = Idle
    /\ call[c] = Idle
    /\ call' = [call EXCEPT ![c] =
                  IF operator THEN [op |-> "operator-direct", scopes |-> {"read", "mutate"}]
                              ELSE [op |-> "developer-direct", scopes |-> {"read"}]]
    /\ UNCHANGED <<requestVars, rowVars, tokenVars, proxied, handler, crashes>>

\* The body has come.  One that the check can read as a tools/call is forwarded
\* if the tool is classified and the caller holds its scopes, and refused
\* otherwise; one on which the check raises is forwarded as it is, for upstream
\* to handle, and what upstream makes of it is not known here.
Forward(c, tool, readable) ==
    /\ handler = Idle
    /\ call[c] # Idle
    /\ proxied' = IF readable => ToolScopes[tool] \subseteq call[c].scopes
                  THEN [op |-> tool, checked |-> readable, call |-> call[c]] ELSE proxied
    /\ call' = [call EXCEPT ![c] = Idle]
    /\ UNCHANGED <<requestVars, rowVars, tokenVars, handler, crashes>>

-----------------------------------------------------------------------------
(* The gateway's inbox, the clocks and a crash.                            *)

\* The row is decided, claimed or finalized by the gateway (GovernedActions),
\* or expire_due sweeps it.
GatewayMoves(r, to) ==
    /\ \/ /\ to \in {"approved", "rejected"}
          /\ row[r] = "pending" /\ r \notin due
       \/ to = "expired" /\ row[r] = "pending" /\ r \in due
       \/ to = "executing" /\ row[r] = "approved"
       \/ to = "consumed" /\ row[r] = "executing"
    /\ row' = [row EXCEPT ![r] = to]
    /\ UNCHANGED <<requestVars, asked, due, tokenVars, callVars, handler, crashes>>

RequestLapses(r) ==
    /\ req[r] \in {"open", "approved", "rejected"} /\ r \notin late
    /\ late' = late \cup {r}
    /\ UNCHANGED <<req, told, page, cookie, rowVars, tokenVars, callVars, handler, crashes>>

RowLapses(r) ==
    /\ row[r] = "pending" /\ r \notin due
    /\ due' = due \cup {r}
    /\ UNCHANGED <<requestVars, row, asked, tokenVars, callVars, handler, crashes>>

\* verify_access_token refuses a token past its time.
AccessLapses(a) ==
    /\ access' = access \ {a}
    /\ UNCHANGED <<requestVars, rowVars, refresh, grants, callVars, handler, crashes>>

\* The edge dies and is started again: the rows and the refresh tokens are
\* durable, the requests in memory are not.
Restart ==
    /\ crashes < MaxCrashes
    /\ crashes' = crashes + 1
    /\ req' = [r \in Requests |-> IF req[r] = "unused" THEN "unused" ELSE "gone"]
    /\ handler' = Idle
    /\ call' = [c \in Calls |-> Idle]
    /\ UNCHANGED <<late, told, page, cookie, rowVars, tokenVars, proxied>>

EdgeNext ==
    \/ \E r \in Requests :
          \/ \E c \in Clients, s \in SUBSET Scopes : Authorize(r, c, s)
          \/ \E op \in {"approve", "reject"}, h \in BOOLEAN : MarkDecision(r, op, h)
          \/ \E to \in {"approved", "rejected", "expired", "executing", "consumed"} :
                GatewayMoves(r, to)
          \/ RequestLapses(r) \/ RowLapses(r)
    \/ SubmitProposal \/ SubmitFails \/ ApproveAuth \/ RejectAuth
    \/ OauthLogin \/ OauthLogout
    \/ \E t \in Tokens :
          \/ IssueTokens(t)
          \/ RevokeToken(t)
    \/ TokenEndpoint \/ IssueFails
    \/ \E c \in Calls :
          \/ \E a \in access : Authenticate(c, a)
          \/ \E o \in BOOLEAN : DirectToken(c, o)
          \/ \E tool \in {"read", "mutate"}, readable \in BOOLEAN : Forward(c, tool, readable)
    \/ \E a \in access : AccessLapses(a)
    \/ Restart

EdgeSpec == EdgeInit /\ [][EdgeNext]_edgeVars

-----------------------------------------------------------------------------
(* Properties.                                                             *)

\* No token, and no call let through under one, has a scope the approved
\* proposal did not show to the Founder or the registry does not give to
\* the client; and aether.mutate is held only by an access token that was
\* exchanged for a code, never by one that was refreshed (ADR-0056, "never
\* auto-renewed via refresh").  A call that was checked uses no more than the
\* scopes of its caller; of one whose body made the check raise, which is
\* forwarded unchecked (server.py, "let upstream handle malformed request"),
\* this says only that it goes out under such a token's scopes.
ScopesAsConsented ==
    LET within(r, s) == /\ s \subseteq asked[r].scopes
                        /\ "mutate" \in s => asked[r].client \in Authority
        fine(a) == /\ within(a.from, a.scopes)
                   /\ "mutate" \in a.scopes => a.how = "code"
    IN /\ \A a \in access : fine(a)
       /\ \A t \in Tokens : refresh[t].live =>
             within(refresh[t].from, refresh[t].scopes) /\ "mutate" \notin refresh[t].scopes
       /\ \/ proxied = Idle
          \/ /\ proxied.call.op = "oauth"
             /\ fine(proxied.call.token)
             /\ proxied.call.scopes = proxied.call.token.scopes
             /\ proxied.checked => proxied.op \in proxied.call.scopes
          \/ proxied.call.op = "operator-direct"
          \/ /\ proxied.call.op = "developer-direct"
             /\ proxied.checked => proxied.op = "read"

\* The Founder's answer holds everywhere (server.py, "only a durably
\* APPROVED governed proposal yields a code"): a client is sent a code or
\* has exchanged one only when the row, which the gateway's inbox decides
\* too, was approved, is told access_denied only when it was rejected, and
\* holds the scopes that were shown, which its checked calls stay within.
ConsentHonoured ==
    /\ \A r \in Requests :
          /\ ("code" \in told[r] \/ grants[r] > 0) => row[r] \in Granted
          /\ "denied" \in told[r] => row[r] = "rejected"
    /\ ScopesAsConsented

\* One consent is one line of tokens (token_store.py, "single-use" codes and
\* "rotation" of refresh tokens): a code is exchanged at most once, and at
\* most one refresh token that descends from it is valid, the one about to
\* be issued included.
OneLinePerConsent ==
    \A r \in Requests :
        LET line == {t \in Tokens : refresh[t].from = r /\ refresh[t].live} IN
        /\ grants[r] <= 1
        /\ \A t, u \in line : t = u
        /\ (handler.op = "issue" /\ handler.from = r) => line = {}
=============================================================================
