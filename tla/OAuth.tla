------------------------------- MODULE OAuth -------------------------------
(***************************************************************************)
(* The built-in authorization server (src/internal/oauth) with its HTTP    *)
(* handlers (src/internal/httpapi/oauth.go) and the check /mcp makes of an *)
(* access token (src/internal/httpapi/mcp_auth.go).                        *)
(*                                                                         *)
(* Rows of oauth_clients, oauth_client_consents, oauth_refresh_tokens and  *)
(* oauth_signing_key survive a restart; pending codes, consent screens,    *)
(* the cache of client metadata documents and every request in flight do   *)
(* not.  A restart may also change FUND_PUBLIC_BASE_URL and                *)
(* FUND_OAUTH_ALLOW_WRITE_SCOPE.  A step ends where another request could  *)
(* make a difference: at a database statement that reads or writes rows    *)
(* others change, at a critical section, at either half of a fetch.        *)
(* Requests that are refused without touching state are not actions, nor   *)
(* are pages.  Signatures are by key identity; PKCE and the other          *)
(* comparisons of a token request with its grant are the `good' bit.       *)
(***************************************************************************)
EXTENDS Integers, FiniteSets

CONSTANTS
    OReqs,         \* requests in flight at once
    Stored,        \* ids of dynamically registered clients
    Docs,          \* ids that are metadata document URLs (allowlisted host)
    URIs,          \* redirect URIs that clients name
    RegLists, DocLists,  \* lists a registration, a document may name
    Asks,          \* sets of scopes a client asks for
    Workloads,     \* sets of operations a behaviour may exercise together
    Plain, Loop,   \* the URIs that are http to another host, and loopback ones
    Bases,         \* values of FUND_PUBLIC_BASE_URL
    AutoApprove,   \* FUND_OAUTH_AUTO_APPROVE
    CodeTTL, ConsentTTL, DocTTL, AccessTTL, RefreshTTL, Retention,
    NoTime,        \* NULL
    MaxClock, MaxCodes, MaxScreens, MaxTokens, MaxRestarts, MaxDocEdits

ASSUME OAuthAssumption ==
    /\ MaxCodes \in Nat /\ MaxScreens \in Nat /\ MaxTokens \in Nat
    /\ CodeTTL \in Nat /\ ConsentTTL \in Nat /\ DocTTL \in Nat /\ AccessTTL \in Nat
    /\ RefreshTTL \in Nat /\ Retention \in Nat
    /\ NoTime \notin Int
    /\ RegLists \subseteq SUBSET URIs /\ DocLists \subseteq SUBSET URIs

VARIABLES
    oclock,        \* s.opts.Now()
    workload,      \* the operations of this behaviour
    base, allowWrite, activeKey, restarts,  \* configuration and key of this process
    keyRow,        \* oauth_signing_key
    clients,       \* oauth_clients: redirect URIs, {} where there is no row
    consentRows,   \* oauth_client_consents
    refreshRows, tokensIssued,  \* oauth_refresh_tokens, in the order of issue
    codes, codesIssued,      \* codeStore.entries
    screens, screensIssued,  \* consentStore.entries
    doc, docEdits,           \* what each metadata document lists (external)
    docCache,                \* cimdResolver.cache
    oreq,                    \* requests in flight
    access,                  \* access tokens handed out
    \* history
    clicked,       \* <<client, scope>> the owner approved on a screen
    dropped,       \* when a document last stopped listing a URI
    successors,    \* how many responses each refresh token produced
    shared,        \* refresh tokens two requests held, unrevoked, at once
    moved          \* the base URL has changed

config   == <<base, allowWrite, activeKey, restarts, keyRow>>
history  == <<clicked, dropped, successors, shared, moved>>
codeVars == <<codes, codesIssued>>
rowVars  == <<refreshRows, tokensIssued>>
scrVars  == <<screens, screensIssued>>
docVars  == <<doc, docEdits, docCache>>
oauthVars == <<oclock, workload, config, clients, consentRows, rowVars,
               codeVars, scrVars, docVars, oreq, access, history>>

Clients == Stored \cup Docs
Scopes  == {"read", "write"}
Times   == 0..(MaxClock + RefreshTTL)

Grant == [client : Clients, scopes : (SUBSET Scopes) \ {{}}, base : Bases]
Idle  == [pc |-> "idle"]
Gone  == [state |-> "gone"]

-----------------------------------------------------------------------------
(* Pure decisions of the code.                                             *)

\* normalizeRedirectURI: https to a literal host, or loopback http.
NormalizeRedirectURI(u) == u \notin Plain

\* ValidateRedirectURI: a registered URI, or a loopback URI whose path equals
\* that of a registered loopback URI (they differ in host spelling and port).
ValidateRedirectURI(registered, u) ==
    \/ u \in registered
    \/ u \in Loop /\ registered \cap Loop # {}

ScopesSupported == IF allowWrite THEN Scopes ELSE {"read"}

\* Mutant of NegotiateScopes: no default.
NegotiateScopesBare(asked) == asked \cap ScopesSupported

\* NegotiateScopes: what is asked for and supported; read if that is nothing.
NegotiateScopes(asked) ==
    IF asked \cap ScopesSupported = {} THEN {"read"} ELSE asked \cap ScopesSupported

HasClientConsent(c, scopes) == \A s \in scopes : <<c, s>> \in consentRows

\* Mutant of ConsentRequired: any earlier approval of the client counts.
ConsentRequiredOnce(c, scopes) ==
    \/ ~AutoApprove
    \/ \A s \in Scopes : <<c, s>> \notin consentRows

\* consentRequired: silent only for a read-only grant approved before.
ConsentRequired(c, scopes) ==
    \/ ~AutoApprove
    \/ scopes # {"read"}
    \/ ~HasClientConsent(c, scopes)

\* Mutant of EnsureSigningKey: a key per process.
EnsureSigningKeyFresh(row, fresh) == fresh

EnsureSigningKey(row, fresh) == IF row = 0 THEN fresh ELSE row

\* A document or a code whose time has come is gone before it is looked up.
Live(entries) == [i \in DOMAIN entries |->
    IF entries[i] # Gone /\ entries[i].expires <= oclock THEN Gone ELSE entries[i]]

CachedDoc(d) == docCache[d] # Gone /\ oclock < docCache[d].expires

VerifyAccessToken(a) ==
    /\ a.key = activeKey
    /\ a.issuer = base
    /\ a.audience = base
    /\ oclock < a.exp

RoleForScopes(scopes) == IF "write" \in scopes THEN "operator" ELSE "analyst"

\* verifyMCPOAuthToken: an operator only where fund.write is offered.
MCPRole(a) == IF RoleForScopes(a.scopes) = "operator" /\ ~allowWrite
              THEN "analyst" ELSE RoleForScopes(a.scopes)

-----------------------------------------------------------------------------
OAuthInit ==
    /\ oclock = Retention + 1
    /\ workload \in Workloads
    /\ base \in Bases /\ allowWrite \in BOOLEAN
    /\ keyRow = EnsureSigningKey(0, 1) /\ activeKey = keyRow /\ restarts = 0
    /\ clients = [c \in Stored |-> {}]
    /\ consentRows = {}
    /\ refreshRows = [t \in 1..MaxTokens |-> Gone] /\ tokensIssued = 0
    /\ codes = [i \in 1..MaxCodes |-> Gone] /\ codesIssued = 0
    /\ screens = [i \in 1..MaxScreens |-> Gone] /\ screensIssued = 0
    /\ doc \in [Docs -> IF "doc" \in workload THEN DocLists ELSE {{}}] /\ docEdits = 0
    /\ docCache = [d \in Docs |-> Gone]
    /\ oreq = [q \in OReqs |-> Idle]
    /\ access = {}
    /\ clicked = {}
    /\ dropped = [d \in Docs |-> [u \in URIs |-> 0]]
    /\ successors = [t \in 1..MaxTokens |-> 0]
    /\ shared = {}
    /\ moved = FALSE

\* The environment: time, and the publisher of a document.
Tick == /\ oclock < MaxClock
        /\ oclock' = oclock + 1
        /\ UNCHANGED <<workload, config, clients, consentRows, rowVars, codeVars, scrVars,
                       docVars, oreq, access, history>>

PublishDoc(d, us) ==
    /\ "publish" \in workload /\ docEdits < MaxDocEdits /\ us # doc[d]
    /\ doc' = [doc EXCEPT ![d] = us]
    /\ docEdits' = docEdits + 1
    /\ dropped' = [dropped EXCEPT ![d] =
                      [u \in URIs |-> IF u \in doc[d] \ us THEN oclock ELSE @[u]]]
    /\ UNCHANGED <<oclock, workload, config, clients, consentRows, rowVars, codeVars,
                   scrVars, docCache, oreq, access, clicked, successors, shared, moved>>

\* A new process: memory is gone, rows stay, configuration may differ.
Restart(b, w) ==
    /\ "restart" \in workload /\ restarts < MaxRestarts
    /\ restarts' = restarts + 1
    /\ base' = b /\ allowWrite' = w
    /\ moved' = (moved \/ b # base)
    /\ activeKey' = EnsureSigningKey(keyRow, restarts + 2)
    /\ codes' = [i \in 1..MaxCodes |-> Gone]
    /\ screens' = [i \in 1..MaxScreens |-> Gone]
    /\ docCache' = [d \in Docs |-> Gone]
    /\ oreq' = [q \in OReqs |-> Idle]
    /\ UNCHANGED <<oclock, workload, keyRow, clients, consentRows, rowVars, codesIssued,
                   screensIssued, doc, docEdits, access, clicked, dropped, successors, shared>>

\* RegisterClient: every URI must normalise, then the row is inserted.
RegisterClient(c, us) ==
    /\ "register" \in workload /\ clients[c] = {}
    /\ \A u \in us : NormalizeRedirectURI(u)
    /\ clients' = [clients EXCEPT ![c] = us]
    /\ UNCHANGED <<oclock, workload, config, consentRows, rowVars, codeVars, scrVars,
                   docVars, oreq, access, history>>

-----------------------------------------------------------------------------
(* GET /oauth/authorize: resolve the client, then decide.                  *)

\* codeStore.Issue: sweep what expired, store the grant.
IssueCode(g) ==
    /\ codesIssued < MaxCodes
    /\ codesIssued' = codesIssued + 1
    /\ codes' = [Live(codes) EXCEPT ![codesIssued + 1] =
                    [state |-> "held", grant |-> g, expires |-> oclock + CodeTTL]]

\* consentStore.Begin: sweep what expired, store the screen.
BeginConsent(g) ==
    /\ screensIssued < MaxScreens
    /\ screensIssued' = screensIssued + 1
    /\ screens' = [Live(screens) EXCEPT ![screensIssued + 1] =
                      [state |-> "held", grant |-> g, expires |-> oclock + ConsentTTL,
                       target |-> 0]]

\* The redirect URI a request names is one the client lists.
Redirectable(us) == {u \in URIs : ValidateRedirectURI(us, u)} # {}

\* What a request may be negotiated down to.
Negotiable == {NegotiateScopes(asked) : asked \in Asks}

\* The end of Authorize for a browser with a session: a code or a screen.
Granted(c, us, scopes) ==
    LET g == [client |-> c, scopes |-> scopes, base |-> base]
    IN  /\ Redirectable(us)
        /\ \/ ~ConsentRequired(c, scopes) /\ IssueCode(g) /\ UNCHANGED scrVars
           \/ ConsentRequired(c, scopes) /\ BeginConsent(g) /\ UNCHANGED codeVars

\* ResolveClient finds a row or a cached document.
Authorize(c, scopes) ==
    /\ \/ c \in Stored /\ clients[c] # {} /\ Granted(c, clients[c], scopes)
       \/ c \in Docs /\ CachedDoc(c) /\ Granted(c, docCache[c].uris, scopes)
    /\ UNCHANGED <<oclock, workload, config, clients, consentRows, rowVars,
                   docVars, oreq, access, history>>

\* ResolveClient has to fetch the document.  What else the request asks for is
\* chosen where it is first used, when the fetch is over.
AuthorizeFetch(q, d) ==
    /\ "doc" \in workload /\ oreq[q] = Idle /\ ~CachedDoc(d)
    /\ oreq' = [oreq EXCEPT ![q] = [pc |-> "fetch", client |-> d, uris |-> {}, at |-> oclock]]
    /\ UNCHANGED <<oclock, workload, config, clients, consentRows, rowVars, codeVars,
                   scrVars, docVars, access, history>>

\* The publisher answers; an error or an invalid document ends the request.
DocServed(q) ==
    /\ oreq[q].pc = "fetch"
    /\ \/ /\ \A u \in doc[oreq[q].client] : NormalizeRedirectURI(u)
          /\ oreq' = [oreq EXCEPT ![q].pc = "fetched", ![q].uris = doc[oreq[q].client]]
       \/ oreq' = [oreq EXCEPT ![q] = Idle]
    /\ UNCHANGED <<oclock, workload, config, clients, consentRows, rowVars, codeVars,
                   scrVars, docVars, access, history>>

\* The document is cached until a TTL after the resolve began, also where the
\* request then ends on a page (no session, an unlisted URI, an error).
FinishAuthorize(q, scopes) ==
    /\ oreq[q].pc = "fetched"
    /\ docCache' = [docCache EXCEPT ![oreq[q].client] =
                       [state |-> "held", uris |-> oreq[q].uris,
                        expires |-> oreq[q].at + DocTTL]]
    /\ \/ Granted(oreq[q].client, oreq[q].uris, scopes)
       \/ UNCHANGED <<codeVars, scrVars>>
    /\ oreq' = [oreq EXCEPT ![q] = Idle]
    /\ UNCHANGED <<oclock, workload, config, clients, consentRows, rowVars,
                   doc, docEdits, access, history>>

-----------------------------------------------------------------------------
(* POST /oauth/consent: under the consent store's mutex.  target is the    *)
(* remembered redirect: 0 none yet, -1 denied, else the code it carries.   *)

PendingScreen(i) == "consent" \in workload /\ Live(screens)[i] # Gone /\ screens[i].target = 0

\* ApproveGrant records every scope, then issues the code.
Approve(i) ==
    LET g == screens[i].grant
    IN  /\ PendingScreen(i)
        /\ clicked' = clicked \cup ({g.client} \X g.scopes)
        /\ consentRows' = consentRows \cup ({g.client} \X g.scopes)
        /\ IssueCode(g)
        /\ screens' = [Live(screens) EXCEPT ![i].target = codesIssued + 1]
        /\ UNCHANGED <<oclock, workload, config, clients, rowVars, screensIssued, docVars,
                       oreq, access, dropped, successors, shared, moved>>

\* A failing insert leaves the scopes recorded before it and the screen pending.
ApproveFails(i) ==
    LET g == screens[i].grant
    IN  /\ PendingScreen(i)
        /\ clicked' = clicked \cup ({g.client} \X g.scopes)
        /\ \E done \in SUBSET g.scopes :
              /\ done # g.scopes
              /\ consentRows' = consentRows \cup ({g.client} \X done)
        /\ screens' = Live(screens)
        /\ UNCHANGED <<oclock, workload, config, clients, rowVars, codeVars, screensIssued,
                       docVars, oreq, access, dropped, successors, shared, moved>>

Deny(i) ==
    /\ PendingScreen(i)
    /\ screens' = [Live(screens) EXCEPT ![i].target = -1]
    /\ UNCHANGED <<oclock, workload, config, clients, consentRows, rowVars, codeVars,
                   screensIssued, docVars, oreq, access, history>>

\* A second submit is sent to the remembered target, a late one to an error
\* page; either sweeps.
SubmitAgain(i) ==
    /\ screens[i] # Gone /\ ~PendingScreen(i) /\ "consent" \in workload
    /\ screens' = Live(screens)
    /\ UNCHANGED <<oclock, workload, config, clients, consentRows, rowVars, codeVars,
                   screensIssued, docVars, oreq, access, history>>

-----------------------------------------------------------------------------
(* POST /oauth/token and /oauth/revoke.                                    *)

\* exchangeCode: Redeem deletes the code first, whatever the checks then say.
RedeemCode(q, i, good) ==
    /\ "token" \in workload /\ oreq[q] = Idle /\ codes[i] # Gone
    /\ codes' = [codes EXCEPT ![i] = Gone]
    /\ oreq' = IF oclock < codes[i].expires /\ good
               THEN [oreq EXCEPT ![q] = [pc |-> "insert", token |-> 0, client |-> codes[i].grant.client,
                        scopes |-> codes[i].grant.scopes, resource |-> codes[i].grant.base]]
               ELSE oreq
    /\ UNCHANGED <<oclock, workload, config, clients, consentRows, rowVars, codesIssued,
                   scrVars, docVars, access, history>>

Unrevoked(t) == refreshRows[t] # Gone /\ refreshRows[t].revoked = NoTime

\* RefreshTokenByID: the row must be unrevoked and unexpired.
RefreshRead(q, t) ==
    /\ oreq[q] = Idle
    /\ Unrevoked(t) /\ oclock < refreshRows[t].expires
    /\ oreq' = [oreq EXCEPT ![q] = [pc |-> "rotate", token |-> t, client |-> refreshRows[t].client,
                   scopes |-> refreshRows[t].scopes, resource |-> refreshRows[t].resource]]
    /\ shared' = IF \E p \in OReqs : oreq[p].pc = "rotate" /\ oreq[p].token = t
                 THEN shared \cup {t} ELSE shared
    /\ UNCHANGED <<oclock, workload, config, clients, consentRows, rowVars, codeVars,
                   scrVars, docVars, access, clicked, dropped, successors, moved>>

\* Mutant of Revoked: the presented token stays valid.
RevokedNot(t) == refreshRows

\* Store.RevokeRefreshToken: UPDATE ... WHERE id = ? AND revoked_at IS NULL.
Revoked(t) == IF Unrevoked(t) THEN [refreshRows EXCEPT ![t].revoked = oclock] ELSE refreshRows

\* The presented token is revoked before the replacement is issued; whether
\* the UPDATE changed a row is not looked at.
RefreshRevoke(q) ==
    /\ oreq[q].pc = "rotate"
    /\ \/ /\ refreshRows' = Revoked(oreq[q].token)
          /\ oreq' = [oreq EXCEPT ![q].pc = "insert"]
       \/ UNCHANGED refreshRows /\ oreq' = [oreq EXCEPT ![q] = Idle]
    /\ UNCHANGED <<oclock, workload, config, clients, consentRows, tokensIssued, codeVars,
                   scrVars, docVars, access, history>>

\* sweepExpiredRefreshTokens: rows that ended a retention period ago.
Swept(rows) ==
    LET cutoff == oclock - Retention
    IN  [t \in DOMAIN rows |->
           IF /\ cutoff > 0 /\ rows[t] # Gone
              /\ \/ rows[t].expires <= cutoff
                 \/ rows[t].revoked # NoTime /\ rows[t].revoked > 0 /\ rows[t].revoked <= cutoff
           THEN Gone ELSE rows[t]]

\* issueTokens: sign the access token, insert the refresh row, sweep.  A row
\* that cannot be inserted degrades the response to the access token alone.
IssueTokens(q) ==
    LET r == oreq[q]
    IN  /\ r.pc = "insert"
        /\ access' = access \cup {[client |-> r.client, scopes |-> r.scopes, issuer |-> base,
              audience |-> r.resource, exp |-> oclock + AccessTTL, key |-> activeKey]}
        /\ \/ /\ tokensIssued < MaxTokens
              /\ tokensIssued' = tokensIssued + 1
              /\ refreshRows' = Swept([refreshRows EXCEPT ![tokensIssued + 1] =
                    [state |-> "held", client |-> r.client, scopes |-> r.scopes,
                     resource |-> r.resource, expires |-> oclock + RefreshTTL,
                     revoked |-> NoTime]])
           \/ UNCHANGED rowVars
        /\ successors' = [t \in 1..MaxTokens |->
                             IF t = r.token THEN successors[t] + 1 ELSE successors[t]]
        /\ oreq' = [oreq EXCEPT ![q] = Idle]
        /\ UNCHANGED <<oclock, workload, config, clients, consentRows, codeVars, scrVars,
                       docVars, clicked, dropped, shared, moved>>

\* POST /oauth/revoke.
RevokeToken(t) ==
    /\ "revoke" \in workload /\ Unrevoked(t)
    /\ refreshRows' = Revoked(t)
    /\ UNCHANGED <<oclock, workload, config, clients, consentRows, tokensIssued, codeVars,
                   scrVars, docVars, oreq, access, history>>

-----------------------------------------------------------------------------
ServeRequest(q) ==
    \/ \E d \in Docs : AuthorizeFetch(q, d)
    \/ DocServed(q)
    \/ \E scopes \in Negotiable : FinishAuthorize(q, scopes)
    \/ \E i \in 1..MaxCodes, good \in BOOLEAN : RedeemCode(q, i, good)
    \/ \E t \in 1..MaxTokens : RefreshRead(q, t)
    \/ RefreshRevoke(q) \/ IssueTokens(q)

OAuthNext ==
    \/ Tick
    \/ \E d \in Docs, us \in DocLists : PublishDoc(d, us)
    \/ \E b \in Bases, w \in BOOLEAN : Restart(b, w)
    \/ \E c \in Stored, us \in RegLists : RegisterClient(c, us)
    \/ \E c \in Clients, scopes \in Negotiable : Authorize(c, scopes)
    \/ \E q \in OReqs : ServeRequest(q)
    \/ \E i \in 1..MaxScreens : Approve(i) \/ ApproveFails(i) \/ Deny(i) \/ SubmitAgain(i)
    \/ \E t \in 1..MaxTokens : RevokeToken(t)

OAuthSpec == OAuthInit /\ [][OAuthNext]_oauthVars

-----------------------------------------------------------------------------
(* Properties.                                                             *)

CodeEntry   == [state : {"held"}, grant : Grant, expires : Int]
ScreenEntry == [state : {"held"}, grant : Grant, expires : Int, target : Int]
RefreshRow  == [state : {"held"}, client : Clients, scopes : SUBSET Scopes, resource : Bases,
                expires : Int, revoked : Int \cup {NoTime}]
CacheEntry  == [state : {"held"}, uris : SUBSET URIs, expires : Int]
AccessToken == [client : Clients, scopes : SUBSET Scopes, issuer : Bases, audience : Bases,
                exp : Int, key : Nat]

FetchCall  == [pc : {"fetch", "fetched"}, client : Docs, uris : SUBSET URIs, at : Int]
TokenCall  == [pc : {"rotate", "insert"}, token : 0..MaxTokens, client : Clients,
               scopes : SUBSET Scopes, resource : Bases]
OAuthCalls == {Idle} \cup FetchCall \cup TokenCall

\* Types of every variable.
OAuthTypeOK ==
    /\ oclock \in Int /\ workload \in Workloads /\ moved \in BOOLEAN
    /\ base \in Bases /\ allowWrite \in BOOLEAN
    /\ activeKey \in Nat /\ keyRow \in Nat /\ restarts \in Nat
    /\ clients \in [Stored -> SUBSET URIs]
    /\ consentRows \subseteq Clients \X Scopes /\ clicked \subseteq Clients \X Scopes
    /\ refreshRows \in [1..MaxTokens -> {Gone} \cup RefreshRow]
    /\ codes \in [1..MaxCodes -> {Gone} \cup CodeEntry]
    /\ screens \in [1..MaxScreens -> {Gone} \cup ScreenEntry]
    /\ codesIssued \in 0..MaxCodes /\ screensIssued \in 0..MaxScreens
    /\ tokensIssued \in 0..MaxTokens
    /\ doc \in [Docs -> SUBSET URIs] /\ docEdits \in Nat
    /\ docCache \in [Docs -> {Gone} \cup CacheEntry]
    /\ oreq \in [OReqs -> OAuthCalls]
    /\ access \subseteq AccessToken
    /\ dropped \in [Docs -> [URIs -> Int]]
    /\ successors \in [1..MaxTokens -> Nat] /\ shared \subseteq 1..MaxTokens

ApprovedFor(c, scopes) == {c} \X scopes \subseteq clicked

\* Whatever path led to it (a silent authorization, a screen, a refresh after
\* a restart), an access token carries only scopes the owner approved for
\* that client by a click on a consent screen: consentRequired and
\* HasClientConsent never turn into a grant nobody gave.
TokensWereApproved == \A a \in access : a.scopes # {} /\ ApprovedFor(a.client, a.scopes)

\* Rotation: a refresh token is answered more than once only if two requests
\* had read its row before either revoked it, because refresh does not look at
\* how many rows its UPDATE changed.
RotationHasCause == \A t \in 1..MaxTokens : successors[t] > 1 => t \in shared

\* As long as the base URL is unchanged, restarts and configuration changes
\* leave every unexpired access token accepted at /mcp: the signing key
\* persists, and a rotated token keeps the audience of its grant.
TokensSurviveRestart == ~moved => \A a \in access : oclock < a.exp => VerifyAccessToken(a)

\* A redirect URI trusted through the cache of metadata documents was listed
\* by the document less than a cache lifetime ago, however slow the fetch was
\* and in whatever order overlapping fetches were stored.
DocCacheBounded ==
    \A d \in Docs : CachedDoc(d) =>
        \A u \in docCache[d].uris : u \in doc[d] \/ oclock < dropped[d][u] + DocTTL
=============================================================================
