---------------------------- MODULE PartsProofs -----------------------------
(***************************************************************************)
(* Theorems about four parts of the platform: the authorization server of  *)
(* module OAuth, for any number of requests, clients, documents, codes and *)
(* refresh tokens and any lifetimes; the limiters of module Edge, for every *)
(* rate, burst, sweep interval, set of keys and number of requests; the    *)
(* schema, the signing key and the rows that boots and imports leave in a  *)
(* database (Boot); and the market data the caches hold (Market), for any  *)
(* number of processes, requests, symbols and source rows and any lifetimes. *)
(***************************************************************************)
EXTENDS OAuth, Edge, Boot, Market, FiniteSetTheorems, TLAPS

-----------------------------------------------------------------------------
(* What the operators of the model return                                  *)

\* A sweep of codes or screens keeps an entry or drops it (Issue, Begin).
LEMMA LiveKeeps ==
    ASSUME NEW entries, NEW n, NEW S, entries \in [1..n -> {Gone} \cup S]
    PROVE  /\ Live(entries) \in [1..n -> {Gone} \cup S]
           /\ \A i \in 1..n : Live(entries)[i] = Gone \/ Live(entries)[i] = entries[i]
  BY DEF Live

\* Negotiation never ends with no scope, and never with one nobody offers.
LEMMA NegotiableScopes == \A scopes \in Negotiable : scopes \subseteq Scopes /\ scopes # {}
<1> SUFFICES ASSUME NEW asked \in Asks
             PROVE  /\ NegotiateScopes(asked) \subseteq Scopes
                    /\ NegotiateScopes(asked) # {}
  BY Zenon DEF Negotiable
<1>1. ScopesSupported \subseteq Scopes /\ "read" \in Scopes
  BY DEF ScopesSupported, Scopes
<1>2. CASE asked \cap ScopesSupported = {}
  <2>1. NegotiateScopes(asked) = {"read"}
    BY <1>2 DEF NegotiateScopes
  <2>2. {"read"} # {} /\ {"read"} \subseteq Scopes
    BY <1>1
  <2> QED
    BY <2>1, <2>2
<1>3. CASE asked \cap ScopesSupported # {}
  <2>1. NegotiateScopes(asked) = asked \cap ScopesSupported
    BY <1>3 DEF NegotiateScopes
  <2>2. asked \cap ScopesSupported \subseteq Scopes
    BY <1>1
  <2> QED
    BY <1>3, <2>1, <2>2
<1> QED
  BY <1>2, <1>3

\* A held entry is told from a dropped one.
LEMMA HeldIsNotGone == Gone \notin CodeEntry \cup ScreenEntry \cup RefreshRow \cup CacheEntry
  BY DEF Gone, CodeEntry, ScreenEntry, RefreshRow, CacheEntry

\* Issue keeps or drops the codes there are and adds one for its grant.
LEMMA IssueGives ==
    ASSUME OAuthTypeOK, NEW g \in Grant, IssueCode(g)
    PROVE  /\ codes' \in [1..MaxCodes -> {Gone} \cup CodeEntry] /\ codesIssued' \in 0..MaxCodes
           /\ \A i \in 1..MaxCodes :
                 codes'[i] = Gone \/ codes'[i] = codes[i] \/ codes'[i].grant = g
<1> DEFINE e == [state |-> "held", grant |-> g, expires |-> oclock + CodeTTL]
<1>1. codes \in [1..MaxCodes -> {Gone} \cup CodeEntry]
  BY DEF OAuthTypeOK
<1>2. e \in CodeEntry /\ e.grant = g
  BY OAuthAssumption DEF OAuthTypeOK, CodeEntry
<1>3. codes' = [Live(codes) EXCEPT ![codesIssued + 1] = e] /\ codesIssued' \in 0..MaxCodes
  BY OAuthAssumption DEF IssueCode, OAuthTypeOK
<1> HIDE DEF e
<1> QED
  BY <1>1, <1>2, <1>3, LiveKeeps

\* What the end of Authorize leaves: a new code for a silent grant, or a new
\* screen, and otherwise what was there.
LEMMA GrantedGives ==
    ASSUME OAuthTypeOK, NEW c \in Clients, NEW us, NEW scopes \in Negotiable,
           Granted(c, us, scopes)
    PROVE  /\ codes' \in [1..MaxCodes -> {Gone} \cup CodeEntry] /\ codesIssued' \in 0..MaxCodes
           /\ screens' \in [1..MaxScreens -> {Gone} \cup ScreenEntry]
           /\ screensIssued' \in 0..MaxScreens
           /\ \A i \in 1..MaxCodes :
                 \/ codes'[i] = Gone \/ codes'[i] = codes[i]
                 \/ /\ ~ConsentRequired(c, scopes) /\ codes'[i].grant.client = c
                    /\ codes'[i].grant.scopes = scopes /\ codes'[i].grant.base = base
           /\ \A i \in 1..MaxScreens :
                 \/ screens'[i] = Gone \/ screens'[i] = screens[i]
                 \/ screens'[i].grant.base = base
<1> DEFINE g == [client |-> c, scopes |-> scopes, base |-> base]
<1>1. g \in Grant
  <2>1. scopes \in (SUBSET Scopes) \ {{}}
    BY NegotiableScopes
  <2> QED
    BY <2>1 DEF OAuthTypeOK, Grant
<1>2. codes \in [1..MaxCodes -> {Gone} \cup CodeEntry]
  BY DEF OAuthTypeOK
<1>3. screens \in [1..MaxScreens -> {Gone} \cup ScreenEntry]
  BY DEF OAuthTypeOK
<1>4. CASE ~ConsentRequired(c, scopes) /\ IssueCode(g) /\ UNCHANGED scrVars
  <2>1. \A i \in 1..MaxCodes : codes'[i] = Gone \/ codes'[i] = codes[i] \/ codes'[i].grant = g
    BY <1>1, <1>4, IssueGives
  <2>2. codes' \in [1..MaxCodes -> {Gone} \cup CodeEntry] /\ codesIssued' \in 0..MaxCodes
    BY <1>1, <1>4, IssueGives
  <2> QED
    BY <1>3, <1>4, <2>1, <2>2 DEF scrVars, OAuthTypeOK
<1>5. CASE ConsentRequired(c, scopes) /\ BeginConsent(g) /\ UNCHANGED codeVars
  <2> DEFINE e == [state |-> "held", grant |-> g, expires |-> oclock + ConsentTTL, target |-> 0]
  <2>1. e \in ScreenEntry
    BY <1>1, OAuthAssumption DEF OAuthTypeOK, ScreenEntry
  <2>2. screens' = [Live(screens) EXCEPT ![screensIssued + 1] = e] /\ screensIssued' \in 0..MaxScreens
    BY <1>5, OAuthAssumption DEF BeginConsent, OAuthTypeOK
  <2> HIDE DEF e
  <2>3. screens' \in [1..MaxScreens -> {Gone} \cup ScreenEntry]
    BY <1>3, <2>1, <2>2, LiveKeeps
  <2>4. \A i \in 1..MaxScreens : screens'[i] = Gone \/ screens'[i] = screens[i] \/ screens'[i] = e
    BY <1>3, <2>2, LiveKeeps
  <2>5. e.grant.base = base
    BY DEF e
  <2> QED
    BY <1>2, <1>5, <2>2, <2>3, <2>4, <2>5 DEF codeVars, OAuthTypeOK
<1> QED
  BY <1>4, <1>5 DEF Granted

-----------------------------------------------------------------------------
(* Types                                                                   *)

\* What a request is, by where it stands.
LEMMA CallKinds ==
    ASSUME OAuthTypeOK, NEW q \in OReqs
    PROVE  /\ oreq[q].pc \in {"fetch", "fetched"} => oreq[q] \in FetchCall
           /\ oreq[q].pc \in {"rotate", "insert"} => oreq[q] \in TokenCall
           /\ oreq[q] = Idle \/ oreq[q] \in FetchCall \/ oreq[q] \in TokenCall
           /\ oreq[q] = Idle => oreq[q].pc = "idle"
           /\ oreq[q].pc \in {"idle", "fetch", "fetched", "rotate", "insert"}
<1>1. oreq[q] = Idle \/ oreq[q] \in FetchCall \/ oreq[q] \in TokenCall
  BY DEF OAuthTypeOK, OAuthCalls
<1> QED
  BY <1>1 DEF Idle, FetchCall, TokenCall

\* The sweep of refresh rows keeps a row or drops it.
LEMMA SweptKeeps ==
    ASSUME NEW kept \in [1..MaxTokens -> {Gone} \cup RefreshRow]
    PROVE  /\ Swept(kept) \in [1..MaxTokens -> {Gone} \cup RefreshRow]
           /\ \A t \in 1..MaxTokens : Swept(kept)[t] = Gone \/ Swept(kept)[t] = kept[t]
  BY DEF Swept

\* The UPDATE of a revocation changes one column of one row.
LEMMA RevokedKeeps ==
    ASSUME OAuthTypeOK, NEW t \in 1..MaxTokens
    PROVE  /\ Revoked(t) \in [1..MaxTokens -> {Gone} \cup RefreshRow]
           /\ \A s \in 1..MaxTokens :
                 \/ Revoked(t)[s] = refreshRows[s]
                 \/ /\ s = t /\ Unrevoked(t) /\ Revoked(t)[s] \in RefreshRow
                    /\ Revoked(t)[s] = [refreshRows[s] EXCEPT !.revoked = oclock]
           /\ Revoked(t)[t] = Gone \/ Revoked(t)[t].revoked # NoTime
<1>1. refreshRows \in [1..MaxTokens -> {Gone} \cup RefreshRow] /\ oclock \in Int
  BY DEF OAuthTypeOK
<1>2. CASE ~Unrevoked(t)
  BY <1>1, <1>2 DEF Revoked, Unrevoked
<1>3. CASE Unrevoked(t)
  <2>1. refreshRows[t] \in RefreshRow
    BY <1>1, <1>3 DEF Unrevoked
  <2> DEFINE r == [refreshRows[t] EXCEPT !.revoked = oclock]
  <2>2. r \in RefreshRow /\ r.revoked = oclock /\ oclock # NoTime
    BY <2>1, <1>1, OAuthAssumption DEF RefreshRow
  <2>3. Revoked(t) = [refreshRows EXCEPT ![t] = r]
    BY <1>3 DEF Revoked
  <2> HIDE DEF r
  <2>4. Revoked(t)[t] = r /\ \A s \in 1..MaxTokens \ {t} : Revoked(t)[s] = refreshRows[s]
    BY <2>3, <1>1
  <2>5. Revoked(t) \in [1..MaxTokens -> {Gone} \cup RefreshRow]
    BY <2>3, <2>2, <1>1
  <2> QED
    BY <2>2, <2>4, <2>5, <1>3 DEF r
<1> QED
  BY <1>2, <1>3

\* A request without a refresh token revokes nothing.
LEMMA RevokedNothing == OAuthTypeOK => Revoked(0) = refreshRows
  BY OAuthAssumption DEF Revoked, OAuthTypeOK

\* A revocation leaves the grant of every row as it was.
LEMMA RowsRevoked ==
    ASSUME OAuthTypeOK, NEW t \in 0..MaxTokens, NEW s \in 1..MaxTokens
    PROVE  \/ Revoked(t)[s] = refreshRows[s]
           \/ /\ s = t /\ refreshRows[s] # Gone /\ Revoked(t)[s] # Gone
              /\ Revoked(t)[s].scopes = refreshRows[s].scopes
              /\ Revoked(t)[s].client = refreshRows[s].client
              /\ Revoked(t)[s].resource = refreshRows[s].resource
              /\ Revoked(t)[s].revoked # NoTime
<1>1. CASE t = 0
  BY <1>1, RevokedNothing
<1>2. CASE t \in 1..MaxTokens /\ Revoked(t)[s] # refreshRows[s]
  <2>1. /\ s = t /\ Unrevoked(t) /\ Revoked(t)[s] \in RefreshRow
        /\ Revoked(t)[s] = [refreshRows[s] EXCEPT !.revoked = oclock]
    BY <1>2, RevokedKeeps
  <2>2. refreshRows[s] \in RefreshRow /\ refreshRows[s] # Gone
    BY <2>1 DEF Unrevoked, OAuthTypeOK
  <2>3. Revoked(t)[s] # Gone /\ Revoked(t)[s].revoked # NoTime
    BY <1>2, <2>1, RevokedKeeps, HeldIsNotGone
  <2> QED
    BY <2>1, <2>2, <2>3 DEF RefreshRow
<1> QED
  BY <1>1, <1>2

\* The insert of a refresh row changes no other row, except that it may sweep.
LEMMA RowsIssued ==
    ASSUME OAuthTypeOK, NEW q \in OReqs, IssueTokens(q), NEW s \in 1..MaxTokens
    PROVE  \/ refreshRows'[s] = Gone \/ refreshRows'[s] = refreshRows[s]
           \/ /\ s = tokensIssued + 1 /\ tokensIssued' = s
              /\ refreshRows'[s].scopes = oreq[q].scopes
              /\ refreshRows'[s].client = oreq[q].client
              /\ refreshRows'[s].resource = oreq[q].resource
<1> DEFINE row == [state |-> "held", client |-> oreq[q].client, scopes |-> oreq[q].scopes,
                   resource |-> oreq[q].resource, expires |-> oclock + RefreshTTL,
                   revoked |-> NoTime]
           kept == [refreshRows EXCEPT ![tokensIssued + 1] = row]
<1>0. refreshRows \in [1..MaxTokens -> {Gone} \cup RefreshRow] /\ tokensIssued \in 0..MaxTokens
  BY DEF OAuthTypeOK
<1>1. CASE UNCHANGED rowVars
  BY <1>1 DEF rowVars
<1>2. CASE /\ tokensIssued < MaxTokens /\ tokensIssued' = tokensIssued + 1
           /\ refreshRows' = Swept(kept)
  <2>1. oreq[q] \in TokenCall
    BY CallKinds DEF IssueTokens
  <2>2. row \in RefreshRow
    BY <2>1, OAuthAssumption DEF TokenCall, RefreshRow, OAuthTypeOK
  <2>3. row.scopes = oreq[q].scopes /\ row.client = oreq[q].client /\ row.resource = oreq[q].resource
    OBVIOUS
  <2> HIDE DEF row
  <2>4. kept \in [1..MaxTokens -> {Gone} \cup RefreshRow]
    BY <1>0, <2>2
  <2>5. kept[s] = refreshRows[s] \/ (s = tokensIssued + 1 /\ kept[s] = row)
    BY <1>0
  <2> HIDE DEF kept
  <2>6. Swept(kept)[s] = Gone \/ Swept(kept)[s] = kept[s]
    BY <2>4, SweptKeeps
  <2> QED
    BY <1>2, <2>3, <2>5, <2>6
<1> QED
  BY <1>1, <1>2 DEF IssueTokens

\* What answering screen i leaves of the screens.
Answered(i, n) == [Live(screens) EXCEPT ![i].target = n]

\* A pending screen is held, and its answer changes no grant.
LEMMA PendingIsHeld ==
    ASSUME OAuthTypeOK, NEW i \in 1..MaxScreens, PendingScreen(i), NEW n \in Int
    PROVE  /\ screens[i] \in ScreenEntry /\ screens[i].grant \in Grant
           /\ Answered(i, n) \in [1..MaxScreens -> {Gone} \cup ScreenEntry]
           /\ \A j \in 1..MaxScreens :
                 \/ Answered(i, n)[j] = Gone
                 \/ Answered(i, n)[j].grant = screens[j].grant /\ screens[j] # Gone
<1>1. screens \in [1..MaxScreens -> {Gone} \cup ScreenEntry]
  BY DEF OAuthTypeOK
<1>2. Live(screens) \in [1..MaxScreens -> {Gone} \cup ScreenEntry]
      /\ \A j \in 1..MaxScreens : Live(screens)[j] = Gone \/ Live(screens)[j] = screens[j]
  BY <1>1, LiveKeeps
<1>3. Live(screens)[i] \in ScreenEntry /\ Live(screens)[i] = screens[i]
  BY <1>2 DEF PendingScreen
<1>4. screens[i].grant \in Grant
  BY <1>3 DEF ScreenEntry
<1> DEFINE e == [screens[i] EXCEPT !.target = n]
<1>5. e \in ScreenEntry /\ e.grant = screens[i].grant
  BY <1>3 DEF ScreenEntry
<1>6. Answered(i, n) = [Live(screens) EXCEPT ![i] = e]
  BY <1>3 DEF Answered
<1> HIDE DEF e
<1>7. Answered(i, n) \in [1..MaxScreens -> {Gone} \cup ScreenEntry]
  BY <1>2, <1>5, <1>6
<1>8. ASSUME NEW j \in 1..MaxScreens, Answered(i, n)[j] # Gone
      PROVE  Answered(i, n)[j].grant = screens[j].grant /\ screens[j] # Gone
  <2>1. CASE j = i
    BY <1>2, <1>3, <1>5, <1>6, <2>1, HeldIsNotGone
  <2>2. CASE j # i
    BY <1>2, <1>6, <1>8, <2>2
  <2> QED
    BY <2>1, <2>2
<1> QED
  BY <1>3, <1>4, <1>7, <1>8

LEMMA OAuthTypeInit == OAuthInit => OAuthTypeOK
<1> SUFFICES ASSUME OAuthInit PROVE OAuthTypeOK
  OBVIOUS
<1>1. keyRow \in Nat /\ activeKey \in Nat
  BY DEF OAuthInit, EnsureSigningKey
<1>2. doc \in [Docs -> SUBSET URIs]
  BY OAuthAssumption DEF OAuthInit
<1>3. oreq \in [OReqs -> OAuthCalls] /\ clients \in [Stored -> SUBSET URIs]
  BY DEF OAuthInit, OAuthCalls
<1>4. dropped \in [Docs -> [URIs -> Int]] /\ successors \in [1..MaxTokens -> Nat]
  BY DEF OAuthInit
<1>5. /\ refreshRows \in [1..MaxTokens -> {Gone} \cup RefreshRow]
      /\ codes \in [1..MaxCodes -> {Gone} \cup CodeEntry]
      /\ screens \in [1..MaxScreens -> {Gone} \cup ScreenEntry]
      /\ docCache \in [Docs -> {Gone} \cup CacheEntry]
  BY DEF OAuthInit
<1>6. /\ consentRows \subseteq Clients \X Scopes /\ clicked \subseteq Clients \X Scopes
      /\ access \subseteq AccessToken /\ shared \subseteq 1..MaxTokens
  BY DEF OAuthInit
<1>7. /\ oclock \in Int /\ restarts \in Nat /\ docEdits \in Nat
      /\ codesIssued \in 0..MaxCodes /\ screensIssued \in 0..MaxScreens
      /\ tokensIssued \in 0..MaxTokens
  BY OAuthAssumption DEF OAuthInit
<1>8. /\ workload \in Workloads /\ moved \in BOOLEAN
      /\ base \in Bases /\ allowWrite \in BOOLEAN
  BY Zenon DEF OAuthInit
<1> QED
  BY <1>1, <1>2, <1>3, <1>4, <1>5, <1>6, <1>7, <1>8 DEF OAuthTypeOK

\* Every step keeps the types.
LEMMA OAuthTypeStep == OAuthTypeOK /\ [OAuthNext]_oauthVars => OAuthTypeOK'
<1> SUFFICES ASSUME OAuthTypeOK, [OAuthNext]_oauthVars
             PROVE  OAuthTypeOK'
  OBVIOUS
<1> USE OAuthAssumption DEF OAuthTypeOK, config, history, codeVars, rowVars, scrVars, docVars
<1>1. CASE UNCHANGED oauthVars
  BY <1>1 DEF oauthVars
<1>2. CASE Tick
  BY <1>2 DEF Tick
<1>3. ASSUME NEW d \in Docs, NEW us \in DocLists, PublishDoc(d, us)
      PROVE  OAuthTypeOK'
  <2>1. dropped' \in [Docs -> [URIs -> Int]]
    BY <1>3 DEF PublishDoc
  <2>2. doc' \in [Docs -> SUBSET URIs] /\ docEdits' \in Nat
    BY <1>3 DEF PublishDoc
  <2> QED
    BY <1>3, <2>1, <2>2 DEF PublishDoc
<1>4. ASSUME NEW b \in Bases, NEW w \in BOOLEAN, Restart(b, w)
      PROVE  OAuthTypeOK'
  BY <1>4 DEF Restart, EnsureSigningKey, OAuthCalls
<1>5. ASSUME NEW c \in Stored, NEW us \in RegLists, RegisterClient(c, us)
      PROVE  OAuthTypeOK'
  BY <1>5 DEF RegisterClient
<1>6. ASSUME NEW c \in Clients, NEW scopes \in Negotiable, Authorize(c, scopes)
      PROVE  OAuthTypeOK'
  <2>1. PICK us : Granted(c, us, scopes)
    BY <1>6 DEF Authorize
  <2> QED
    BY <1>6, <2>1, GrantedGives DEF Authorize
<1>7. ASSUME NEW q \in OReqs, ServeRequest(q)
      PROVE  OAuthTypeOK'
  <2>1. ASSUME NEW d \in Docs, AuthorizeFetch(q, d)
        PROVE  OAuthTypeOK'
    <3>1. [pc |-> "fetch", client |-> d, uris |-> {}, at |-> oclock] \in OAuthCalls
      BY DEF OAuthCalls, FetchCall
    <3> QED
      BY <2>1, <3>1 DEF AuthorizeFetch
  <2>2. CASE DocServed(q)
    <3>0. oreq[q] \in FetchCall
      BY <2>2, CallKinds DEF DocServed
    <3>1. oreq[q] \in FetchCall /\ doc[oreq[q].client] \in SUBSET URIs
      BY <3>0 DEF FetchCall
    <3>2. [oreq[q] EXCEPT !.pc = "fetched", !.uris = doc[oreq[q].client]] \in OAuthCalls
      BY <3>1 DEF FetchCall, OAuthCalls
    <3>3. oreq' \in [OReqs -> OAuthCalls]
      BY <2>2, <3>2 DEF DocServed, OAuthCalls
    <3> QED
      BY <2>2, <3>3 DEF DocServed
  <2>3. ASSUME NEW scopes \in Negotiable, FinishAuthorize(q, scopes)
        PROVE  OAuthTypeOK'
    <3>1. oreq[q] \in FetchCall
      BY <2>3, CallKinds DEF FinishAuthorize
    <3>2. [state |-> "held", uris |-> oreq[q].uris, expires |-> oreq[q].at + DocTTL] \in CacheEntry
          /\ oreq[q].client \in Docs
      BY <3>1 DEF FetchCall, CacheEntry
    <3>3. docCache' \in [Docs -> {Gone} \cup CacheEntry] /\ oreq' \in [OReqs -> OAuthCalls]
      BY <2>3, <3>2 DEF FinishAuthorize, OAuthCalls
    <3>4. /\ codes' \in [1..MaxCodes -> {Gone} \cup CodeEntry] /\ codesIssued' \in 0..MaxCodes
          /\ screens' \in [1..MaxScreens -> {Gone} \cup ScreenEntry]
          /\ screensIssued' \in 0..MaxScreens
      BY <2>3, <3>2, GrantedGives DEF FinishAuthorize, Clients
    <3> QED
      BY <2>3, <3>3, <3>4 DEF FinishAuthorize
  <2>4. ASSUME NEW i \in 1..MaxCodes, NEW good \in BOOLEAN, RedeemCode(q, i, good)
        PROVE  OAuthTypeOK'
    <3>1. codes[i] \in CodeEntry
      BY <2>4 DEF RedeemCode
    <3>2. [pc |-> "insert", token |-> 0, client |-> codes[i].grant.client,
           scopes |-> codes[i].grant.scopes, resource |-> codes[i].grant.base] \in OAuthCalls
      BY <3>1 DEF CodeEntry, Grant, OAuthCalls, TokenCall
    <3>3. oreq' \in [OReqs -> OAuthCalls]
      BY <2>4, <3>2 DEF RedeemCode
    <3> QED
      BY <2>4, <3>3 DEF RedeemCode
  <2>5. ASSUME NEW t \in 1..MaxTokens, RefreshRead(q, t)
        PROVE  OAuthTypeOK'
    <3>1. refreshRows[t] \in RefreshRow
      BY <2>5 DEF RefreshRead, Unrevoked
    <3>2. [pc |-> "rotate", token |-> t, client |-> refreshRows[t].client,
           scopes |-> refreshRows[t].scopes, resource |-> refreshRows[t].resource] \in OAuthCalls
      BY <3>1 DEF RefreshRow, OAuthCalls, TokenCall
    <3>3. oreq' \in [OReqs -> OAuthCalls]
      BY <2>5, <3>2 DEF RefreshRead
    <3> QED
      BY <2>5, <3>3 DEF RefreshRead
  <2>6. CASE RefreshRevoke(q)
    <3>1. oreq[q] \in TokenCall
      BY <2>6, CallKinds DEF RefreshRevoke
    <3>2. [oreq[q] EXCEPT !.pc = "insert"] \in OAuthCalls
      BY <3>1 DEF TokenCall, OAuthCalls
    <3>3. oreq' \in [OReqs -> OAuthCalls]
      BY <2>6, <3>2 DEF RefreshRevoke, OAuthCalls
    <3>4. refreshRows' \in [1..MaxTokens -> {Gone} \cup RefreshRow]
      <4>1. oreq[q].token = 0 \/ oreq[q].token \in 1..MaxTokens
        BY <3>1 DEF TokenCall
      <4>2. Revoked(oreq[q].token) \in [1..MaxTokens -> {Gone} \cup RefreshRow]
        BY <4>1, RevokedKeeps, RevokedNothing
      <4> QED
        BY <2>6, <4>2 DEF RefreshRevoke
    <3> QED
      BY <2>6, <3>3, <3>4 DEF RefreshRevoke
  <2>7. CASE IssueTokens(q)
    <3> DEFINE r == oreq[q]
               row == [state |-> "held", client |-> r.client, scopes |-> r.scopes,
                       resource |-> r.resource, expires |-> oclock + RefreshTTL,
                       revoked |-> NoTime]
               token == [client |-> r.client, scopes |-> r.scopes, issuer |-> base,
                         audience |-> r.resource, exp |-> oclock + AccessTTL, key |-> activeKey]
    <3>1. r \in TokenCall
      BY <2>7, CallKinds DEF IssueTokens
    <3>2. row \in RefreshRow /\ token \in AccessToken
      BY <3>1 DEF TokenCall, RefreshRow, AccessToken
    <3>3. access' = access \cup {token}
      BY <2>7 DEF IssueTokens
    <3>4. refreshRows' \in [1..MaxTokens -> {Gone} \cup RefreshRow] /\ tokensIssued' \in 0..MaxTokens
      <4>1. CASE UNCHANGED rowVars
        BY <4>1
      <4>2. CASE /\ tokensIssued < MaxTokens /\ tokensIssued' = tokensIssued + 1
                 /\ refreshRows' = Swept([refreshRows EXCEPT ![tokensIssued + 1] = row])
        <5> DEFINE kept == [refreshRows EXCEPT ![tokensIssued + 1] = row]
        <5> HIDE DEF row
        <5>1. kept \in [1..MaxTokens -> {Gone} \cup RefreshRow]
          BY <3>2
        <5>2. refreshRows' = Swept(kept) /\ tokensIssued' \in 0..MaxTokens
          BY <4>2 DEF row
        <5> HIDE DEF kept
        <5> QED
          BY <5>1, <5>2, SweptKeeps
      <4> QED
        BY <2>7, <4>1, <4>2 DEF IssueTokens
    <3>5. oreq' \in [OReqs -> OAuthCalls] /\ successors' \in [1..MaxTokens -> Nat]
      BY <2>7, <3>1 DEF IssueTokens, OAuthCalls, TokenCall
    <3> QED
      BY <2>7, <3>2, <3>3, <3>4, <3>5 DEF IssueTokens
  <2> QED
    BY <1>7, <2>1, <2>2, <2>3, <2>4, <2>5, <2>6, <2>7 DEF ServeRequest
<1>8. ASSUME NEW i \in 1..MaxScreens, Approve(i) \/ ApproveFails(i) \/ Deny(i) \/ SubmitAgain(i)
      PROVE  OAuthTypeOK'
  <2> DEFINE g == screens[i].grant
  <2>0. Live(screens) \in [1..MaxScreens -> {Gone} \cup ScreenEntry]
    BY LiveKeeps
  <2>1. CASE Approve(i)
    <3>1. g \in Grant
      BY <2>1, PendingIsHeld, 0 \in Int DEF Approve
    <3>2. screens' \in [1..MaxScreens -> {Gone} \cup ScreenEntry]
      <4>1. screens' = Answered(i, codesIssued + 1) /\ PendingScreen(i)
        BY <2>1 DEF Approve, Answered
      <4>2. codesIssued + 1 \in Int
        BY DEF OAuthTypeOK
      <4> QED
        BY <4>1, <4>2, PendingIsHeld
    <3>3. {g.client} \X g.scopes \subseteq Clients \X Scopes
      BY <3>1 DEF Grant
    <3>4. codes' \in [1..MaxCodes -> {Gone} \cup CodeEntry] /\ codesIssued' \in 0..MaxCodes
      BY <2>1, <3>1, IssueGives DEF Approve
    <3> QED
      BY <2>1, <3>2, <3>3, <3>4 DEF Approve
  <2>2. CASE ApproveFails(i)
    <3>1. g \in Grant
      BY <2>2, PendingIsHeld, 0 \in Int DEF ApproveFails
    <3>2. {g.client} \X g.scopes \subseteq Clients \X Scopes
      BY <3>1 DEF Grant
    <3>3. PICK done \in SUBSET g.scopes : consentRows' = consentRows \cup ({g.client} \X done)
      BY <2>2 DEF ApproveFails
    <3>4. {g.client} \X done \subseteq Clients \X Scopes
      BY <3>2
    <3> QED
      BY <2>0, <2>2, <3>2, <3>3, <3>4 DEF ApproveFails
  <2>3. CASE Deny(i)
    <3>1. screens' = Answered(i, -1) /\ PendingScreen(i)
      BY <2>3 DEF Deny, Answered
    <3>2. screens' \in [1..MaxScreens -> {Gone} \cup ScreenEntry]
      BY <3>1, PendingIsHeld, -1 \in Int
    <3> QED
      BY <2>3, <3>2 DEF Deny
  <2>4. CASE SubmitAgain(i)
    BY <2>0, <2>4 DEF SubmitAgain
  <2> QED
    BY <1>8, <2>1, <2>2, <2>3, <2>4
<1>9. ASSUME NEW t \in 1..MaxTokens, RevokeToken(t)
      PROVE  OAuthTypeOK'
  BY <1>9, RevokedKeeps DEF RevokeToken, RefreshRow
<1> QED
  BY <1>1, <1>2, <1>3, <1>4, <1>5, <1>6, <1>7, <1>8, <1>9 DEF OAuthNext

-----------------------------------------------------------------------------
(* The inductive invariants                                                *)

\* Request q stands behind refresh token t (0: behind a code).
Presents(q, t) == oreq[q].pc \in {"rotate", "insert"} /\ oreq[q].token = t

\* What the owner approved covers every grant that is on its way to a token.
ApprovedInv ==
    /\ consentRows \subseteq clicked
    /\ \A i \in 1..MaxCodes :
          codes[i] # Gone => ApprovedFor(codes[i].grant.client, codes[i].grant.scopes)
    /\ \A q \in OReqs :
          oreq[q].pc \in {"rotate", "insert"} =>
              oreq[q].scopes # {} /\ ApprovedFor(oreq[q].client, oreq[q].scopes)
    /\ \A t \in 1..MaxTokens :
          refreshRows[t] # Gone =>
              refreshRows[t].scopes # {} /\ ApprovedFor(refreshRows[t].client, refreshRows[t].scopes)
    /\ TokensWereApproved

\* Nothing has happened to a token that is not issued; one that was never
\* shared has at most one request behind it, and once that request has revoked
\* the row it can neither be presented again nor be answered twice.
RotationInv ==
    /\ \A t \in 1..MaxTokens :
          t > tokensIssued =>
              refreshRows[t] = Gone /\ successors[t] = 0 /\ \A q \in OReqs : ~Presents(q, t)
    /\ \A t \in (1..MaxTokens) \ shared :
          /\ \A p, q \in OReqs : Presents(p, t) /\ Presents(q, t) => p = q
          /\ \A q \in OReqs : Presents(q, t) /\ oreq[q].pc = "insert" => ~Unrevoked(t)
          /\ successors[t] # 0 =>
                successors[t] = 1 /\ ~Unrevoked(t) /\ \A q \in OReqs : ~Presents(q, t)

\* The key in use is the one on disk, and while the base URL stands every
\* grant on its way to a token, and every token, is bound to it.
KeyInv ==
    /\ activeKey = keyRow /\ keyRow # 0
    /\ ~moved =>
          /\ \A i \in 1..MaxCodes : codes[i] # Gone => codes[i].grant.base = base
          /\ \A i \in 1..MaxScreens : screens[i] # Gone => screens[i].grant.base = base
          /\ \A q \in OReqs : oreq[q].pc \in {"rotate", "insert"} => oreq[q].resource = base
          /\ \A t \in 1..MaxTokens : refreshRows[t] # Gone => refreshRows[t].resource = base
          /\ \A a \in access : a.key = activeKey /\ a.issuer = base /\ a.audience = base

\* A URI that was read from a document and is no longer in it was dropped
\* after the resolve began, so that the cached copy ends within a TTL of that.
DocInv ==
    /\ \A q \in OReqs : oreq[q].pc \in {"fetch", "fetched"} =>
          /\ oreq[q].at <= oclock
          /\ oreq[q].pc = "fetched" =>
                \A u \in oreq[q].uris :
                    u \in doc[oreq[q].client] \/ oreq[q].at <= dropped[oreq[q].client][u]
    /\ \A d \in Docs : docCache[d] # Gone =>
          /\ docCache[d].expires <= oclock + DocTTL
          /\ \A u \in docCache[d].uris :
                u \in doc[d] \/ docCache[d].expires <= dropped[d][u] + DocTTL

-----------------------------------------------------------------------------
(* Every token was approved                                                *)

\* No step takes an approval back.
LEMMA ClickedGrows == ASSUME [OAuthNext]_oauthVars PROVE clicked \subseteq clicked'
<1> USE DEF history
<1>1. ASSUME NEW q \in OReqs, ServeRequest(q) PROVE clicked \subseteq clicked'
  BY <1>1 DEF ServeRequest, AuthorizeFetch, DocServed, FinishAuthorize, RedeemCode, RefreshRead,
              RefreshRevoke, IssueTokens
<1>2. ASSUME NEW i \in 1..MaxScreens, Approve(i) \/ ApproveFails(i) \/ Deny(i) \/ SubmitAgain(i)
      PROVE  clicked \subseteq clicked'
  BY <1>2 DEF Approve, ApproveFails, Deny, SubmitAgain
<1> QED
  BY <1>1, <1>2 DEF OAuthNext, oauthVars, Tick, PublishDoc, Restart, RegisterClient, Authorize, RevokeToken

\* An approval, of now or of after the step.
Covers(approvals, c, scopes) == {c} \X scopes \subseteq approvals

\* What was approved stays approved.
LEMMA ApprovalsStand ==
    ASSUME NEW c, NEW scopes, ApprovedFor(c, scopes), clicked \subseteq clicked'
    PROVE  Covers(clicked', c, scopes)
  BY DEF ApprovedFor, Covers

\* A grant given without a screen is one the owner approved before.
LEMMA SilentIsApproved ==
    ASSUME consentRows \subseteq clicked, NEW c, NEW scopes, ~ConsentRequired(c, scopes)
    PROVE  ApprovedFor(c, scopes)
  BY DEF ConsentRequired, HasClientConsent, ApprovedFor

\* What a step may do to grants: drop them, or bring in one that is approved.
ApprovedMove ==
    /\ consentRows' \subseteq clicked'
    /\ \A i \in 1..MaxCodes :
          \/ codes'[i] = Gone \/ codes'[i] = codes[i]
          \/ Covers(clicked', codes'[i].grant.client, codes'[i].grant.scopes)
    /\ \A q \in OReqs :
          \/ oreq'[q] = oreq[q] \/ oreq'[q].pc \notin {"rotate", "insert"}
          \/ oreq'[q].scopes # {} /\ Covers(clicked', oreq'[q].client, oreq'[q].scopes)
    /\ \A t \in 1..MaxTokens :
          \/ refreshRows'[t] = Gone \/ refreshRows'[t] = refreshRows[t]
          \/ /\ refreshRows'[t].scopes # {}
             /\ Covers(clicked', refreshRows'[t].client, refreshRows'[t].scopes)
    /\ \A a \in access' : a \in access \/ (a.scopes # {} /\ Covers(clicked', a.client, a.scopes))

\* Such a step keeps the invariant.
LEMMA ApprovedMoveKeeps ==
    ASSUME ApprovedInv, clicked \subseteq clicked', ApprovedMove
    PROVE  ApprovedInv'
<1>1. \A i \in 1..MaxCodes :
         codes'[i] # Gone => Covers(clicked', codes'[i].grant.client, codes'[i].grant.scopes)
  BY ApprovalsStand DEF ApprovedMove, ApprovedInv
<1>2. \A q \in OReqs : oreq'[q].pc \in {"rotate", "insert"} =>
         oreq'[q].scopes # {} /\ Covers(clicked', oreq'[q].client, oreq'[q].scopes)
  BY ApprovalsStand DEF ApprovedMove, ApprovedInv
<1>3. \A t \in 1..MaxTokens : refreshRows'[t] # Gone =>
         refreshRows'[t].scopes # {} /\ Covers(clicked', refreshRows'[t].client, refreshRows'[t].scopes)
  BY ApprovalsStand DEF ApprovedMove, ApprovedInv
<1>4. TokensWereApproved'
  BY ApprovalsStand DEF ApprovedMove, ApprovedInv, TokensWereApproved, ApprovedFor, Covers
<1> QED
  BY <1>1, <1>2, <1>3, <1>4 DEF ApprovedMove, ApprovedInv, ApprovedFor, Covers

\* A held code carries a grant, and grants have a scope.
LEMMA CodesCarryGrants ==
    ASSUME OAuthTypeOK, NEW i \in 1..MaxCodes, codes[i] # Gone
    PROVE  codes[i].grant \in Grant /\ codes[i].grant.scopes # {}
<1>1. codes[i] \in CodeEntry
  BY DEF OAuthTypeOK
<1> QED
  BY <1>1 DEF CodeEntry, Grant

LEMMA ApprovedInductive ==
    OAuthTypeOK /\ ApprovedInv /\ [OAuthNext]_oauthVars => ApprovedInv'
<1> SUFFICES ASSUME OAuthTypeOK, ApprovedInv, [OAuthNext]_oauthVars PROVE ApprovedMove
  BY ClickedGrows, ApprovedMoveKeeps
<1>0. clicked \subseteq clicked' /\ consentRows \subseteq clicked
  BY ClickedGrows DEF ApprovedInv
<1> USE DEF ApprovedMove, config, history, codeVars, rowVars, scrVars, docVars
<1>1. CASE UNCHANGED oauthVars
  BY <1>0, <1>1 DEF oauthVars
<1>2. CASE Tick
  BY <1>0, <1>2 DEF Tick
<1>3. ASSUME NEW d \in Docs, NEW us \in DocLists, PublishDoc(d, us)
      PROVE  ApprovedMove
  BY <1>0, <1>3 DEF PublishDoc
<1>4. ASSUME NEW b \in Bases, NEW w \in BOOLEAN, Restart(b, w)
      PROVE  ApprovedMove
  BY <1>0, <1>4 DEF Restart, Idle
<1>5. ASSUME NEW c \in Stored, NEW us \in RegLists, RegisterClient(c, us)
      PROVE  ApprovedMove
  BY <1>0, <1>5 DEF RegisterClient
<1>6. ASSUME NEW c \in Clients, NEW us, NEW scopes \in Negotiable, Granted(c, us, scopes)
      PROVE  \A i \in 1..MaxCodes :
                \/ codes'[i] = Gone \/ codes'[i] = codes[i]
                \/ Covers(clicked', codes'[i].grant.client, codes'[i].grant.scopes)
  BY <1>0, <1>6, GrantedGives, SilentIsApproved, ApprovalsStand
<1>7. ASSUME NEW c \in Clients, NEW scopes \in Negotiable, Authorize(c, scopes)
      PROVE  ApprovedMove
  BY <1>0, <1>6, <1>7 DEF Authorize
<1>8. ASSUME NEW q \in OReqs, ServeRequest(q)
      PROVE  ApprovedMove
  <2>0. oreq \in [OReqs -> OAuthCalls]
    BY DEF OAuthTypeOK
  <2>1. ASSUME NEW d \in Docs, AuthorizeFetch(q, d)
        PROVE  ApprovedMove
    BY <1>0, <2>0, <2>1 DEF AuthorizeFetch
  <2>2. CASE DocServed(q)
    <3>1. oreq'[q].pc \notin {"rotate", "insert"} /\ \A p \in OReqs \ {q} : oreq'[p] = oreq[p]
      <4>1. oreq[q] \in FetchCall
        BY <2>2, CallKinds DEF DocServed
      <4> QED
        BY <2>0, <2>2, <4>1 DEF DocServed, Idle, FetchCall
    <3> QED
      BY <1>0, <2>2, <3>1 DEF DocServed
  <2>3. ASSUME NEW scopes \in Negotiable, FinishAuthorize(q, scopes)
        PROVE  ApprovedMove
    <3>1. oreq[q].client \in Clients
      BY <2>3, CallKinds DEF FinishAuthorize, FetchCall, Clients
    <3>2. \A i \in 1..MaxCodes :
             \/ codes'[i] = Gone \/ codes'[i] = codes[i]
             \/ Covers(clicked', codes'[i].grant.client, codes'[i].grant.scopes)
      BY <1>6, <2>3, <3>1 DEF FinishAuthorize
    <3>3. oreq'[q].pc \notin {"rotate", "insert"} /\ \A p \in OReqs \ {q} : oreq'[p] = oreq[p]
      BY <2>0, <2>3 DEF FinishAuthorize, Idle
    <3> QED
      BY <1>0, <2>3, <3>2, <3>3 DEF FinishAuthorize
  <2>4. ASSUME NEW i \in 1..MaxCodes, NEW good \in BOOLEAN, RedeemCode(q, i, good)
        PROVE  ApprovedMove
    <3> DEFINE g == codes[i].grant
    <3>1. g.scopes # {} /\ Covers(clicked', g.client, g.scopes)
      BY <1>0, <2>4, CodesCarryGrants, ApprovalsStand DEF RedeemCode, ApprovedInv
    <3>2. \A p \in OReqs : oreq'[p] = oreq[p] \/ (oreq'[p].scopes = g.scopes /\ oreq'[p].client = g.client)
      BY <2>0, <2>4 DEF RedeemCode
    <3>3. \A j \in 1..MaxCodes : codes'[j] = Gone \/ codes'[j] = codes[j]
      BY <2>4 DEF RedeemCode, OAuthTypeOK
    <3> HIDE DEF g
    <3> QED
      BY <1>0, <2>4, <3>1, <3>2, <3>3 DEF RedeemCode
  <2>5. ASSUME NEW t \in 1..MaxTokens, RefreshRead(q, t)
        PROVE  ApprovedMove
    <3> DEFINE row == refreshRows[t]
    <3>1. row.scopes # {} /\ Covers(clicked', row.client, row.scopes)
      BY <1>0, <2>5, ApprovalsStand DEF RefreshRead, Unrevoked, ApprovedInv
    <3>2. \A p \in OReqs : oreq'[p] = oreq[p] \/ (oreq'[p].scopes = row.scopes /\ oreq'[p].client = row.client)
      BY <2>0, <2>5 DEF RefreshRead
    <3> HIDE DEF row
    <3> QED
      BY <1>0, <2>5, <3>1, <3>2 DEF RefreshRead
  <2>6. CASE RefreshRevoke(q)
    <3>1. oreq[q].pc = "rotate" /\ oreq[q] \in TokenCall
      BY <2>6, CallKinds DEF RefreshRevoke
    <3>2. oreq[q].scopes # {} /\ Covers(clicked', oreq[q].client, oreq[q].scopes)
      BY <1>0, <3>1, ApprovalsStand DEF ApprovedInv
    <3>3. \A p \in OReqs : \/ oreq'[p] = oreq[p] \/ oreq'[p] = Idle
                           \/ oreq'[p].scopes = oreq[q].scopes /\ oreq'[p].client = oreq[q].client
      BY <2>0, <2>6, <3>1 DEF RefreshRevoke, TokenCall
    <3>4. \A t \in 1..MaxTokens :
             \/ refreshRows'[t] = refreshRows[t]
             \/ /\ refreshRows[t] # Gone /\ refreshRows'[t].scopes = refreshRows[t].scopes
                /\ refreshRows'[t].client = refreshRows[t].client
      BY <2>6, <3>1, RowsRevoked DEF RefreshRevoke, TokenCall
    <3>5. \A t \in 1..MaxTokens :
              \/ refreshRows'[t] = refreshRows[t]
              \/ /\ refreshRows'[t].scopes # {}
                 /\ Covers(clicked', refreshRows'[t].client, refreshRows'[t].scopes)
      BY <1>0, <3>4, ApprovalsStand DEF ApprovedInv
    <3>6. Idle.pc \notin {"rotate", "insert"}
      BY DEF Idle
    <3> QED
      BY <1>0, <2>6, <3>2, <3>3, <3>5, <3>6 DEF RefreshRevoke
  <2>7. CASE IssueTokens(q)
    <3>1. oreq[q] \in TokenCall /\ oreq[q].pc = "insert"
      BY <2>7, CallKinds DEF IssueTokens
    <3>2. oreq[q].scopes # {} /\ Covers(clicked', oreq[q].client, oreq[q].scopes)
      BY <1>0, <3>1, ApprovalsStand DEF ApprovedInv
    <3>3. \A a \in access' : a \in access \/ (a.scopes = oreq[q].scopes /\ a.client = oreq[q].client)
      BY <2>7 DEF IssueTokens
    <3>4. \A t \in 1..MaxTokens :
             \/ refreshRows'[t] = Gone \/ refreshRows'[t] = refreshRows[t]
             \/ refreshRows'[t].scopes = oreq[q].scopes /\ refreshRows'[t].client = oreq[q].client
      BY <2>7, RowsIssued
    <3>5. \A p \in OReqs : oreq'[p] = oreq[p] \/ oreq'[p].pc \notin {"rotate", "insert"}
      BY <2>0, <2>7 DEF IssueTokens, Idle
    <3> QED
      BY <1>0, <2>7, <3>2, <3>3, <3>4, <3>5 DEF IssueTokens
  <2> QED
    BY <1>8, <2>1, <2>2, <2>3, <2>4, <2>5, <2>6, <2>7 DEF ServeRequest
<1>9. ASSUME NEW i \in 1..MaxScreens, Approve(i) \/ ApproveFails(i) \/ Deny(i) \/ SubmitAgain(i)
      PROVE  ApprovedMove
  <2> DEFINE g == screens[i].grant
  <2>1. CASE Approve(i)
    <3>1. g \in Grant
      BY <2>1, PendingIsHeld, 0 \in Int DEF Approve
    <3>2. Covers(clicked', g.client, g.scopes) /\ consentRows' \subseteq clicked'
      BY <1>0, <2>1 DEF Approve, Covers
    <3>3. \A j \in 1..MaxCodes : codes'[j] = Gone \/ codes'[j] = codes[j] \/ codes'[j].grant = g
      BY <2>1, <3>1, IssueGives DEF Approve
    <3> HIDE DEF g
    <3> QED
      BY <1>0, <2>1, <3>2, <3>3 DEF Approve
  <2>2. CASE ApproveFails(i)
    <3>1. consentRows' \subseteq clicked'
      BY <1>0, <2>2 DEF ApproveFails
    <3> QED
      BY <1>0, <2>2, <3>1 DEF ApproveFails
  <2>3. CASE Deny(i) \/ SubmitAgain(i)
    BY <1>0, <2>3 DEF Deny, SubmitAgain
  <2> QED
    BY <1>9, <2>1, <2>2, <2>3
<1>10. ASSUME NEW t \in 1..MaxTokens, RevokeToken(t)
       PROVE  ApprovedMove
  <2>1. \A s \in 1..MaxTokens :
           \/ refreshRows'[s] = refreshRows[s]
           \/ /\ refreshRows[s] # Gone /\ refreshRows'[s].scopes = refreshRows[s].scopes
              /\ refreshRows'[s].client = refreshRows[s].client
    BY <1>10, RowsRevoked DEF RevokeToken
  <2>2. \A s \in 1..MaxTokens :
            \/ refreshRows'[s] = refreshRows[s]
            \/ /\ refreshRows'[s].scopes # {}
               /\ Covers(clicked', refreshRows'[s].client, refreshRows'[s].scopes)
    BY <1>0, <2>1, ApprovalsStand DEF ApprovedInv
  <2> QED
    BY <1>0, <1>10, <2>2 DEF RevokeToken
<1> QED
  BY <1>1, <1>2, <1>3, <1>4, <1>5, <1>7, <1>8, <1>9, <1>10 DEF OAuthNext

-----------------------------------------------------------------------------
(* A token is answered twice only if it was shared                         *)

\* Resolving a client document starts and ends no token request.
LEMMA ResolvingCalls ==
    ASSUME OAuthTypeOK, NEW q \in OReqs,
           \/ \E d \in Docs : AuthorizeFetch(q, d)
           \/ DocServed(q)
           \/ \E scopes \in Negotiable : FinishAuthorize(q, scopes)
    PROVE  \A p \in OReqs : oreq'[p] = oreq[p] \/ oreq'[p].pc \notin {"rotate", "insert"}
<1>1. oreq \in [OReqs -> OAuthCalls]
  BY DEF OAuthTypeOK
<1>2. ASSUME NEW d \in Docs, AuthorizeFetch(q, d)
      PROVE  \A p \in OReqs : oreq'[p] = oreq[p] \/ oreq'[p].pc \notin {"rotate", "insert"}
  BY <1>1, <1>2 DEF AuthorizeFetch
<1>3. CASE DocServed(q)
  <2>1. oreq[q] \in FetchCall
    BY <1>3, CallKinds DEF DocServed
  <2> QED
    BY <1>1, <1>3, <2>1 DEF DocServed, Idle, FetchCall
<1>4. ASSUME NEW scopes \in Negotiable, FinishAuthorize(q, scopes)
      PROVE  \A p \in OReqs : oreq'[p] = oreq[p] \/ oreq'[p].pc \notin {"rotate", "insert"}
  BY <1>1, <1>4 DEF FinishAuthorize, Idle
<1> QED
  BY <1>2, <1>3, <1>4

\* A step that leaves rows and answers alone, and starts at most a request
\* behind a code, keeps the invariant.
RotationQuiet ==
    /\ UNCHANGED <<refreshRows, tokensIssued, successors, shared>>
    /\ \A q \in OReqs : \/ oreq'[q] = oreq[q]
                        \/ oreq'[q].pc \notin {"rotate", "insert"}
                        \/ oreq'[q].token = 0

LEMMA RotationQuietKeeps == ASSUME RotationInv, RotationQuiet PROVE RotationInv'
<1>1. \A q \in OReqs, t \in 1..MaxTokens : Presents(q, t)' => Presents(q, t) /\ oreq'[q] = oreq[q]
  BY DEF RotationQuiet, Presents
<1>2. \A t \in 1..MaxTokens : Unrevoked(t)' = Unrevoked(t)
  BY DEF RotationQuiet, Unrevoked
<1> QED
  BY <1>1, <1>2 DEF RotationQuiet, RotationInv

LEMMA RotationInductive ==
    OAuthTypeOK /\ RotationInv /\ [OAuthNext]_oauthVars => RotationInv'
<1> SUFFICES ASSUME OAuthTypeOK, RotationInv, [OAuthNext]_oauthVars PROVE RotationInv'
  OBVIOUS
<1>0. /\ oreq \in [OReqs -> OAuthCalls] /\ successors \in [1..MaxTokens -> Nat]
      /\ refreshRows \in [1..MaxTokens -> {Gone} \cup RefreshRow]
      /\ tokensIssued \in 0..MaxTokens /\ shared \subseteq 1..MaxTokens
      /\ codes \in [1..MaxCodes -> {Gone} \cup CodeEntry]
  BY DEF OAuthTypeOK
<1>1. CASE UNCHANGED oauthVars
  BY <1>1, RotationQuietKeeps DEF RotationQuiet, oauthVars, rowVars, history
<1>2. CASE Tick \/ \E d \in Docs, us \in DocLists : PublishDoc(d, us)
  BY <1>2, RotationQuietKeeps DEF RotationQuiet, Tick, PublishDoc, rowVars, history
<1>3. ASSUME NEW b \in Bases, NEW w \in BOOLEAN, Restart(b, w)
      PROVE  RotationInv'
  BY <1>3, RotationQuietKeeps DEF RotationQuiet, Restart, Idle, rowVars
<1>4. ASSUME NEW c \in Stored, NEW us \in RegLists, RegisterClient(c, us)
      PROVE  RotationInv'
  BY <1>4, RotationQuietKeeps DEF RotationQuiet, RegisterClient, rowVars, history
<1>5. ASSUME NEW c \in Clients, NEW scopes \in Negotiable, Authorize(c, scopes)
      PROVE  RotationInv'
  BY <1>5, RotationQuietKeeps DEF RotationQuiet, Authorize, rowVars, history
<1>6. ASSUME NEW q \in OReqs, ServeRequest(q)
      PROVE  RotationInv'
  <2>1. CASE \/ \E d \in Docs : AuthorizeFetch(q, d)
             \/ DocServed(q)
             \/ \E scopes \in Negotiable : FinishAuthorize(q, scopes)
    <3>1. UNCHANGED <<refreshRows, tokensIssued, successors, shared>>
      BY <2>1 DEF AuthorizeFetch, DocServed, FinishAuthorize, rowVars, history
    <3> QED
      BY <2>1, <3>1, ResolvingCalls, RotationQuietKeeps DEF RotationQuiet
  <2>2. ASSUME NEW i \in 1..MaxCodes, NEW good \in BOOLEAN, RedeemCode(q, i, good)
        PROVE  RotationInv'
    <3>1. \A p \in OReqs : oreq'[p] = oreq[p] \/ oreq'[p].token = 0
      BY <1>0, <2>2 DEF RedeemCode
    <3> QED
      BY <2>2, <3>1, RotationQuietKeeps DEF RotationQuiet, RedeemCode, rowVars, history
  <2>3. ASSUME NEW t \in 1..MaxTokens, RefreshRead(q, t)
        PROVE  RotationInv'
    <3>1. UNCHANGED <<refreshRows, tokensIssued, successors>>
      BY <2>3 DEF RefreshRead, rowVars
    <3>2. /\ oreq[q] = Idle /\ oreq'[q].pc = "rotate" /\ oreq'[q].token = t
          /\ \A p \in OReqs \ {q} : oreq'[p] = oreq[p]
      BY <1>0, <2>3 DEF RefreshRead
    <3>3. shared \subseteq shared' /\ Unrevoked(t)
      BY <2>3 DEF RefreshRead
    <3>4. t \notin shared' => \A p \in OReqs : ~Presents(p, t)
      <4>1. SUFFICES ASSUME t \notin shared', NEW p \in OReqs, Presents(p, t) PROVE FALSE
        OBVIOUS
      <4>2. oreq[p].pc # "rotate"
        BY <2>3, <4>1 DEF RefreshRead, Presents
      <4>3. oreq[p].pc = "insert" /\ t \notin shared
        BY <3>3, <4>1, <4>2 DEF Presents
      <4> QED
        BY <3>3, <4>1, <4>3 DEF RotationInv
    <3>5. \A p \in OReqs, s \in 1..MaxTokens : Presents(p, s)' <=> (Presents(p, s) \/ (p = q /\ s = t))
      BY <3>2 DEF Presents, Idle
    <3>6. \A s \in 1..MaxTokens : Unrevoked(s)' = Unrevoked(s)
      BY <3>1 DEF Unrevoked
    <3>7. t \leq tokensIssued
      BY <1>0, <3>3 DEF RotationInv, Unrevoked
    <3>8. \A s \in 1..MaxTokens : s > tokensIssued' =>
             refreshRows'[s] = Gone /\ successors'[s] = 0 /\ \A p \in OReqs : ~Presents(p, s)'
      BY <1>0, <3>1, <3>5, <3>7 DEF RotationInv
    <3>9. ASSUME NEW s \in (1..MaxTokens) \ shared'
          PROVE  /\ \A p, r \in OReqs : Presents(p, s)' /\ Presents(r, s)' => p = r
                 /\ \A p \in OReqs : Presents(p, s)' /\ oreq'[p].pc = "insert" => ~Unrevoked(s)'
                 /\ successors'[s] # 0 =>
                       successors'[s] = 1 /\ ~Unrevoked(s)' /\ \A p \in OReqs : ~Presents(p, s)'
      <4>1. s \in (1..MaxTokens) \ shared
        BY <3>3, <3>9
      <4>2. CASE s # t
        <5>1. \A p \in OReqs : Presents(p, s)' => Presents(p, s) /\ p # q /\ oreq'[p] = oreq[p]
          BY <3>2, <3>5, <4>2 DEF Presents, Idle
        <5> QED
          BY <3>1, <3>6, <4>1, <5>1 DEF RotationInv
      <4>3. CASE s = t
        <5>1. \A p \in OReqs : Presents(p, s)' <=> p = q
          BY <3>4, <3>5, <3>9, <4>3
        <5>2. successors[s] = 0
          BY <3>3, <4>1, <4>3 DEF RotationInv
        <5> QED
          BY <3>1, <3>2, <5>1, <5>2
      <4> QED
        BY <4>2, <4>3
    <3> QED
      BY <3>8, <3>9 DEF RotationInv
  <2>4. CASE RefreshRevoke(q)
    <3>1. oreq[q].pc = "rotate" /\ oreq[q] \in TokenCall
      BY <2>4, CallKinds DEF RefreshRevoke
    <3> DEFINE t == oreq[q].token
    <3>2. UNCHANGED <<tokensIssued, successors, shared>>
      BY <2>4 DEF RefreshRevoke, history
    <3>3. \A p \in OReqs \ {q} : oreq'[p] = oreq[p]
      BY <1>0, <2>4 DEF RefreshRevoke
    <3>4. \/ oreq'[q] = Idle /\ UNCHANGED refreshRows
          \/ /\ oreq'[q].pc = "insert" /\ oreq'[q].token = t
             /\ refreshRows' = Revoked(t)
      BY <1>0, <2>4, <3>1 DEF RefreshRevoke, TokenCall
    <3>5. t \in 0..MaxTokens
      BY <3>1 DEF TokenCall
    <3>6. \A s \in 1..MaxTokens : /\ Unrevoked(s)' => Unrevoked(s)
                                  /\ refreshRows[s] = Gone => refreshRows'[s] = Gone
      BY <3>4, <3>5, RowsRevoked DEF Unrevoked
    <3>7. \A p \in OReqs, s \in 1..MaxTokens : Presents(p, s)' => Presents(p, s)
      BY <3>1, <3>3, <3>4 DEF Presents, Idle
    <3>8. \A s \in 1..MaxTokens :
             Presents(q, s)' /\ oreq'[q].pc = "insert" => ~Unrevoked(s)'
      <4>1. SUFFICES ASSUME NEW s \in 1..MaxTokens, Presents(q, s)' PROVE ~Unrevoked(s)'
        OBVIOUS
      <4>2. s = t /\ refreshRows' = Revoked(t)
        BY <3>4, <4>1 DEF Presents, Idle
      <4>3. Revoked(s)[s] = Gone \/ Revoked(s)[s].revoked # NoTime
        BY RevokedKeeps
      <4> QED
        BY <4>2, <4>3 DEF Unrevoked
    <3> HIDE DEF t
    <3>9. \A s \in 1..MaxTokens : s > tokensIssued' =>
             refreshRows'[s] = Gone /\ successors'[s] = 0 /\ \A p \in OReqs : ~Presents(p, s)'
      BY <3>2, <3>6, <3>7 DEF RotationInv
    <3>10. ASSUME NEW s \in (1..MaxTokens) \ shared'
           PROVE  /\ \A p, r \in OReqs : Presents(p, s)' /\ Presents(r, s)' => p = r
                  /\ \A p \in OReqs : Presents(p, s)' /\ oreq'[p].pc = "insert" => ~Unrevoked(s)'
                  /\ successors'[s] # 0 =>
                        successors'[s] = 1 /\ ~Unrevoked(s)' /\ \A p \in OReqs : ~Presents(p, s)'
      BY <3>2, <3>3, <3>6, <3>7, <3>8, <3>10 DEF RotationInv
    <3> QED
      BY <3>9, <3>10 DEF RotationInv
  <2>5. CASE IssueTokens(q)
    <3>1. oreq[q].pc = "insert" /\ oreq[q] \in TokenCall
      BY <2>5, CallKinds DEF IssueTokens
    <3> DEFINE t == oreq[q].token
    <3>2. /\ UNCHANGED shared /\ oreq'[q] = Idle
          /\ \A p \in OReqs \ {q} : oreq'[p] = oreq[p]
      BY <1>0, <2>5 DEF IssueTokens
    <3>3. \A s \in 1..MaxTokens :
             successors'[s] = IF s = t THEN successors[s] + 1 ELSE successors[s]
      BY <2>5 DEF IssueTokens
    <3>4. tokensIssued' \in 0..MaxTokens /\ tokensIssued' \geq tokensIssued
      BY <1>0, <2>5, OAuthAssumption DEF IssueTokens, rowVars
    <3>5. \A s \in 1..MaxTokens :
             \/ refreshRows'[s] = Gone \/ refreshRows'[s] = refreshRows[s]
             \/ s = tokensIssued + 1 /\ tokensIssued' = s
      BY <2>5, RowsIssued
    <3>6. \A p \in OReqs, s \in 1..MaxTokens :
             Presents(p, s)' => Presents(p, s) /\ p # q /\ oreq'[p] = oreq[p]
      BY <3>2 DEF Presents, Idle
    <3>7. t \in 1..MaxTokens => Presents(q, t) /\ t \leq tokensIssued
      BY <1>0, <3>1 DEF Presents, RotationInv
    <3> HIDE DEF t
    <3>8. \A s \in 1..MaxTokens : s > tokensIssued' =>
             refreshRows'[s] = Gone /\ successors'[s] = 0 /\ \A p \in OReqs : ~Presents(p, s)'
      BY <1>0, <3>3, <3>4, <3>5, <3>6, <3>7 DEF RotationInv
    <3>9. ASSUME NEW s \in (1..MaxTokens) \ shared'
          PROVE  /\ \A p, r \in OReqs : Presents(p, s)' /\ Presents(r, s)' => p = r
                 /\ \A p \in OReqs : Presents(p, s)' /\ oreq'[p].pc = "insert" => ~Unrevoked(s)'
                 /\ successors'[s] # 0 =>
                       successors'[s] = 1 /\ ~Unrevoked(s)' /\ \A p \in OReqs : ~Presents(p, s)'
      <4>1. s \in (1..MaxTokens) \ shared
        BY <3>2, <3>9
      <4>2. CASE s = tokensIssued + 1
        <5>1. successors'[s] = 0 /\ \A p \in OReqs : ~Presents(p, s)'
          BY <1>0, <3>3, <3>6, <3>7, <4>2 DEF RotationInv
        <5> QED
          BY <5>1
      <4>3. CASE s # tokensIssued + 1
        <5>1. Unrevoked(s)' => Unrevoked(s)
          BY <3>5, <4>3 DEF Unrevoked
        <5>2. CASE s = t
          <6>1. ~Unrevoked(s) /\ successors[s] = 0 /\ \A p \in OReqs : Presents(p, s) => p = q
            BY <3>1, <3>7, <4>1, <5>2 DEF RotationInv
          <6> QED
            BY <1>0, <3>3, <3>6, <5>1, <5>2, <6>1
        <5>3. CASE s # t
          BY <3>3, <3>6, <4>1, <5>1, <5>3 DEF RotationInv
        <5> QED
          BY <5>2, <5>3
      <4> QED
        BY <4>2, <4>3
    <3> QED
      BY <3>8, <3>9 DEF RotationInv
  <2> QED
    BY <1>6, <2>1, <2>2, <2>3, <2>4, <2>5 DEF ServeRequest
<1>7. ASSUME NEW i \in 1..MaxScreens, Approve(i) \/ ApproveFails(i) \/ Deny(i) \/ SubmitAgain(i)
      PROVE  RotationInv'
  BY <1>7, RotationQuietKeeps
     DEF RotationQuiet, Approve, ApproveFails, Deny, SubmitAgain, rowVars, history
<1>8. ASSUME NEW t \in 1..MaxTokens, RevokeToken(t)
      PROVE  RotationInv'
  <2>1. UNCHANGED <<tokensIssued, successors, shared, oreq>>
    BY <1>8 DEF RevokeToken, history
  <2>2. \A s \in 1..MaxTokens : /\ Unrevoked(s)' => Unrevoked(s)
                                /\ refreshRows[s] = Gone => refreshRows'[s] = Gone
    BY <1>8, RowsRevoked DEF Unrevoked, RevokeToken
  <2>3. \A p \in OReqs, s \in 1..MaxTokens : Presents(p, s)' = Presents(p, s)
    BY <2>1 DEF Presents
  <2> QED
    BY <2>1, <2>2, <2>3 DEF RotationInv
<1> QED
  BY <1>1, <1>2, <1>3, <1>4, <1>5, <1>6, <1>7, <1>8 DEF OAuthNext

-----------------------------------------------------------------------------
(* Tokens survive a restart                                                *)

\* What a step may do to what is bound to a base URL, as long as it stands:
\* drop it, or bring in one that is bound to this base URL and this key.
KeyMove ==
    /\ keyRow' = keyRow /\ activeKey' = keyRow
    /\ ~moved' => ~moved /\ base' = base
    /\ ~moved' =>
          /\ \A i \in 1..MaxCodes :
                codes'[i] = Gone \/ codes'[i] = codes[i] \/ codes'[i].grant.base = base
          /\ \A i \in 1..MaxScreens :
                screens'[i] = Gone \/ screens'[i] = screens[i] \/ screens'[i].grant.base = base
          /\ \A q \in OReqs :
                \/ oreq'[q] = oreq[q] \/ oreq'[q].pc \notin {"rotate", "insert"}
                \/ oreq'[q].resource = base
          /\ \A t \in 1..MaxTokens :
                refreshRows'[t] = Gone \/ refreshRows'[t] = refreshRows[t]
                \/ refreshRows'[t].resource = base
          /\ \A a \in access' :
                a \in access \/ (a.key = keyRow /\ a.issuer = base /\ a.audience = base)

LEMMA KeyMoveKeeps == ASSUME KeyInv, KeyMove PROVE KeyInv'
<1>1. activeKey' = keyRow' /\ keyRow' # 0 /\ activeKey' = activeKey
  BY DEF KeyMove, KeyInv
<1> SUFFICES ASSUME ~moved'
             PROVE  /\ \A i \in 1..MaxCodes : codes'[i] # Gone => codes'[i].grant.base = base'
                    /\ \A i \in 1..MaxScreens : screens'[i] # Gone => screens'[i].grant.base = base'
                    /\ \A q \in OReqs : oreq'[q].pc \in {"rotate", "insert"} => oreq'[q].resource = base'
                    /\ \A t \in 1..MaxTokens : refreshRows'[t] # Gone => refreshRows'[t].resource = base'
                    /\ \A a \in access' : a.key = activeKey' /\ a.issuer = base' /\ a.audience = base'
  BY <1>1 DEF KeyInv
<1>2. ~moved /\ base' = base
  BY DEF KeyMove
<1>3. \A i \in 1..MaxCodes : codes'[i] # Gone => codes'[i].grant.base = base'
  BY <1>2 DEF KeyMove, KeyInv
<1>4. \A i \in 1..MaxScreens : screens'[i] # Gone => screens'[i].grant.base = base'
  BY <1>2 DEF KeyMove, KeyInv
<1>5. \A q \in OReqs : oreq'[q].pc \in {"rotate", "insert"} => oreq'[q].resource = base'
  BY <1>2 DEF KeyMove, KeyInv
<1>6. \A t \in 1..MaxTokens : refreshRows'[t] # Gone => refreshRows'[t].resource = base'
  BY <1>2 DEF KeyMove, KeyInv
<1>7. \A a \in access' : a.key = activeKey' /\ a.issuer = base' /\ a.audience = base'
  BY <1>1, <1>2 DEF KeyMove, KeyInv
<1> QED
  BY <1>3, <1>4, <1>5, <1>6, <1>7

\* The restart keeps the key on disk, and if the base URL too is what it was,
\* what rows and tokens are bound to still holds.
LEMMA KeyInductive == OAuthTypeOK /\ KeyInv /\ [OAuthNext]_oauthVars => KeyInv'
<1> SUFFICES ASSUME OAuthTypeOK, KeyInv, [OAuthNext]_oauthVars PROVE KeyMove
  BY KeyMoveKeeps
<1>0. /\ oreq \in [OReqs -> OAuthCalls] /\ moved \in BOOLEAN
      /\ codes \in [1..MaxCodes -> {Gone} \cup CodeEntry]
      /\ screens \in [1..MaxScreens -> {Gone} \cup ScreenEntry]
      /\ activeKey = keyRow
  BY DEF OAuthTypeOK, KeyInv
<1> USE DEF KeyMove, config, history, codeVars, rowVars, scrVars, docVars
<1>1. CASE UNCHANGED oauthVars
  BY <1>0, <1>1 DEF oauthVars
<1>2. CASE Tick \/ \E d \in Docs, us \in DocLists : PublishDoc(d, us)
  BY <1>0, <1>2 DEF Tick, PublishDoc
<1>3. ASSUME NEW b \in Bases, NEW w \in BOOLEAN, Restart(b, w)
      PROVE  KeyMove
  <2>1. keyRow' = keyRow /\ activeKey' = keyRow
    BY <1>3 DEF Restart, EnsureSigningKey, KeyInv
  <2>2. ~moved' => ~moved /\ base' = base
    BY <1>3 DEF Restart
  <2>3. /\ \A i \in 1..MaxCodes : codes'[i] = Gone
        /\ \A i \in 1..MaxScreens : screens'[i] = Gone
        /\ \A q \in OReqs : oreq'[q].pc \notin {"rotate", "insert"}
        /\ refreshRows' = refreshRows /\ access' = access
    BY <1>3 DEF Restart, Idle
  <2> QED
    BY <2>1, <2>2, <2>3
<1>4. ASSUME NEW c \in Stored, NEW us \in RegLists, RegisterClient(c, us)
      PROVE  KeyMove
  BY <1>0, <1>4 DEF RegisterClient
<1>5. ASSUME NEW c \in Clients, NEW us, NEW scopes \in Negotiable, Granted(c, us, scopes)
      PROVE  /\ \A i \in 1..MaxCodes :
                   codes'[i] = Gone \/ codes'[i] = codes[i] \/ codes'[i].grant.base = base
             /\ \A i \in 1..MaxScreens :
                   screens'[i] = Gone \/ screens'[i] = screens[i] \/ screens'[i].grant.base = base
  BY <1>5, GrantedGives
<1>6. ASSUME NEW c \in Clients, NEW scopes \in Negotiable, Authorize(c, scopes)
      PROVE  KeyMove
  BY <1>0, <1>5, <1>6 DEF Authorize
<1>7. ASSUME NEW q \in OReqs, ServeRequest(q)
      PROVE  KeyMove
  <2>1. CASE DocServed(q) \/ \E d \in Docs : AuthorizeFetch(q, d)
    <3>1. \A p \in OReqs : oreq'[p] = oreq[p] \/ oreq'[p].pc \notin {"rotate", "insert"}
      BY <2>1, ResolvingCalls
    <3> QED
      BY <1>0, <2>1, <3>1 DEF AuthorizeFetch, DocServed
  <2>2. ASSUME NEW scopes \in Negotiable, FinishAuthorize(q, scopes)
        PROVE  KeyMove
    <3>1. \A p \in OReqs : oreq'[p] = oreq[p] \/ oreq'[p].pc \notin {"rotate", "insert"}
      BY <2>2, ResolvingCalls
    <3>2. oreq[q].client \in Clients
      BY <2>2, CallKinds DEF FinishAuthorize, FetchCall, Clients
    <3>3. /\ \A i \in 1..MaxCodes :
                codes'[i] = Gone \/ codes'[i] = codes[i] \/ codes'[i].grant.base = base
          /\ \A i \in 1..MaxScreens :
                screens'[i] = Gone \/ screens'[i] = screens[i] \/ screens'[i].grant.base = base
      BY <1>5, <2>2, <3>2 DEF FinishAuthorize
    <3> QED
      BY <1>0, <2>2, <3>1, <3>3 DEF FinishAuthorize
  <2>3. ASSUME NEW i \in 1..MaxCodes, NEW good \in BOOLEAN, RedeemCode(q, i, good)
        PROVE  KeyMove
    <3>1. ~moved => codes[i].grant.base = base
      BY <2>3 DEF RedeemCode, KeyInv
    <3>2. \A p \in OReqs : oreq'[p] = oreq[p] \/ oreq'[p].resource = codes[i].grant.base
      BY <1>0, <2>3 DEF RedeemCode
    <3>3. \A j \in 1..MaxCodes : codes'[j] = Gone \/ codes'[j] = codes[j]
      BY <1>0, <2>3 DEF RedeemCode
    <3> QED
      BY <1>0, <2>3, <3>1, <3>2, <3>3 DEF RedeemCode
  <2>4. ASSUME NEW t \in 1..MaxTokens, RefreshRead(q, t)
        PROVE  KeyMove
    <3>1. ~moved => refreshRows[t].resource = base
      BY <2>4 DEF RefreshRead, Unrevoked, KeyInv
    <3>2. \A p \in OReqs : oreq'[p] = oreq[p] \/ oreq'[p].resource = refreshRows[t].resource
      BY <1>0, <2>4 DEF RefreshRead
    <3> QED
      BY <1>0, <2>4, <3>1, <3>2 DEF RefreshRead
  <2>5. CASE RefreshRevoke(q)
    <3>1. oreq[q].pc = "rotate" /\ oreq[q] \in TokenCall
      BY <2>5, CallKinds DEF RefreshRevoke
    <3>2. ~moved => oreq[q].resource = base
      BY <3>1 DEF KeyInv
    <3>3. \A p \in OReqs : \/ oreq'[p] = oreq[p] \/ oreq'[p].pc \notin {"rotate", "insert"}
                           \/ oreq'[p].resource = oreq[q].resource
      BY <1>0, <2>5, <3>1 DEF RefreshRevoke, TokenCall, Idle
    <3>4. ~moved => \A t \in 1..MaxTokens :
             refreshRows'[t] = refreshRows[t] \/ refreshRows'[t].resource = base
      BY <2>5, <3>1, RowsRevoked DEF RefreshRevoke, TokenCall, KeyInv
    <3> QED
      BY <1>0, <2>5, <3>2, <3>3, <3>4 DEF RefreshRevoke
  <2>6. CASE IssueTokens(q)
    <3>1. oreq[q].pc = "insert" /\ oreq[q] \in TokenCall
      BY <2>6, CallKinds DEF IssueTokens
    <3>2. ~moved => oreq[q].resource = base
      BY <3>1 DEF KeyInv
    <3>3. \A a \in access' :
             a \in access \/ (a.key = activeKey /\ a.issuer = base /\ a.audience = oreq[q].resource)
      BY <2>6 DEF IssueTokens
    <3>4. \A t \in 1..MaxTokens :
             \/ refreshRows'[t] = Gone \/ refreshRows'[t] = refreshRows[t]
             \/ refreshRows'[t].resource = oreq[q].resource
      BY <2>6, RowsIssued
    <3>5. \A p \in OReqs : oreq'[p] = oreq[p] \/ oreq'[p].pc \notin {"rotate", "insert"}
      BY <1>0, <2>6 DEF IssueTokens, Idle
    <3> QED
      BY <1>0, <2>6, <3>2, <3>3, <3>4, <3>5 DEF IssueTokens
  <2> QED
    BY <1>7, <2>1, <2>2, <2>3, <2>4, <2>5, <2>6 DEF ServeRequest
<1>8. ASSUME NEW i \in 1..MaxScreens, Approve(i) \/ ApproveFails(i) \/ Deny(i) \/ SubmitAgain(i)
      PROVE  KeyMove
  <2>0. \A j \in 1..MaxScreens : Live(screens)[j] = Gone \/ Live(screens)[j] = screens[j]
    BY <1>0, LiveKeeps
  <2>1. ASSUME NEW n \in Int, PendingScreen(i), screens' = Answered(i, n)
        PROVE  ~moved => \A j \in 1..MaxScreens : screens'[j] = Gone \/ screens'[j].grant.base = base
    BY <2>1, PendingIsHeld DEF KeyInv
  <2>2. CASE Approve(i)
    <3>1. screens[i].grant \in Grant /\ screens[i] # Gone
      BY <2>2, PendingIsHeld, HeldIsNotGone, 0 \in Int DEF Approve
    <3>2. ~moved => screens[i].grant.base = base
      BY <3>1 DEF KeyInv
    <3>3. \A j \in 1..MaxCodes :
             codes'[j] = Gone \/ codes'[j] = codes[j] \/ codes'[j].grant = screens[i].grant
      BY <2>2, <3>1, IssueGives DEF Approve
    <3>4. codesIssued + 1 \in Int /\ screens' = Answered(i, codesIssued + 1)
      BY <2>2 DEF Approve, Answered, OAuthTypeOK
    <3>5. ~moved => \A j \in 1..MaxScreens : screens'[j] = Gone \/ screens'[j].grant.base = base
      BY <2>1, <2>2, <3>4 DEF Approve
    <3> QED
      BY <1>0, <2>2, <3>2, <3>3, <3>5 DEF Approve
  <2>3. CASE Deny(i)
    <3>1. screens' = Answered(i, -1) /\ PendingScreen(i)
      BY <2>3 DEF Deny, Answered
    <3>2. ~moved => \A j \in 1..MaxScreens : screens'[j] = Gone \/ screens'[j].grant.base = base
      BY <2>1, <3>1
    <3> QED
      BY <1>0, <2>3, <3>2 DEF Deny
  <2>4. CASE ApproveFails(i) \/ SubmitAgain(i)
    BY <1>0, <2>0, <2>4 DEF ApproveFails, SubmitAgain
  <2> QED
    BY <1>8, <2>2, <2>3, <2>4
<1>9. ASSUME NEW t \in 1..MaxTokens, RevokeToken(t)
      PROVE  KeyMove
  <2>1. ~moved => \A s \in 1..MaxTokens :
           refreshRows'[s] = refreshRows[s] \/ refreshRows'[s].resource = base
    BY <1>9, RowsRevoked DEF RevokeToken, KeyInv
  <2> QED
    BY <1>0, <1>9, <2>1 DEF RevokeToken
<1> QED
  BY <1>1, <1>2, <1>3, <1>4, <1>6, <1>7, <1>8, <1>9 DEF OAuthNext

-----------------------------------------------------------------------------
(* The cache of client metadata documents is bounded                       *)

\* What a resolve in flight has read of its document, and since when.
FetchHolds(q) ==
    /\ oreq[q].at <= oclock
    /\ oreq[q].pc = "fetched" =>
          \A u \in oreq[q].uris :
              u \in doc[oreq[q].client] \/ oreq[q].at <= dropped[oreq[q].client][u]

\* What a cached document still vouches for.
CopyHolds(d) ==
    /\ docCache[d].expires <= oclock + DocTTL
    /\ \A u \in docCache[d].uris :
          u \in doc[d] \/ docCache[d].expires <= dropped[d][u] + DocTTL

\* A step that keeps documents, and time or the copies, keeps the invariant.
LEMMA DocQuietKeeps ==
    ASSUME OAuthTypeOK, DocInv, UNCHANGED <<doc, dropped>>,
           oclock' \in Int, oclock' >= oclock,
           \A d \in Docs : docCache'[d] = Gone \/ docCache'[d] = docCache[d],
           \A q \in OReqs : oreq'[q] = oreq[q] \/ oreq'[q].pc \notin {"fetch", "fetched"}
    PROVE  DocInv'
<1>0. /\ oreq \in [OReqs -> OAuthCalls] /\ oclock \in Int
      /\ docCache \in [Docs -> {Gone} \cup CacheEntry]
  BY DEF OAuthTypeOK
<1>1. ASSUME NEW q \in OReqs, oreq'[q].pc \in {"fetch", "fetched"}
      PROVE  FetchHolds(q)'
  <2>1. oreq'[q] = oreq[q] /\ oreq[q].at \in Int
    BY <1>1, CallKinds DEF FetchCall
  <2>2. FetchHolds(q)
    BY <1>1, <2>1 DEF DocInv, FetchHolds
  <2> QED
    BY <1>0, <2>1, <2>2 DEF FetchHolds
<1>2. ASSUME NEW d \in Docs, docCache'[d] # Gone
      PROVE  CopyHolds(d)'
  <2>1. docCache'[d] = docCache[d] /\ docCache[d].expires \in Int
    BY <1>0, <1>2 DEF CacheEntry
  <2>2. CopyHolds(d)
    BY <1>2, <2>1 DEF DocInv, CopyHolds
  <2> QED
    BY <1>0, <2>1, <2>2, OAuthAssumption DEF CopyHolds
<1> QED
  BY <1>1, <1>2 DEF DocInv, FetchHolds, CopyHolds

LEMMA DocInductive == OAuthTypeOK /\ DocInv /\ [OAuthNext]_oauthVars => DocInv'
<1> SUFFICES ASSUME OAuthTypeOK, DocInv, [OAuthNext]_oauthVars PROVE DocInv'
  OBVIOUS
<1>0. /\ oreq \in [OReqs -> OAuthCalls] /\ oclock \in Int
      /\ docCache \in [Docs -> {Gone} \cup CacheEntry]
      /\ dropped \in [Docs -> [URIs -> Int]] /\ doc \in [Docs -> SUBSET URIs]
  BY DEF OAuthTypeOK
<1> USE DEF docVars, history
<1>1. CASE UNCHANGED oauthVars
  BY <1>0, <1>1, DocQuietKeeps DEF oauthVars
<1>2. CASE Tick
  BY <1>0, <1>2, DocQuietKeeps DEF Tick
\* A URI is dropped now: a resolve in flight began before, and a copy that
\* exists ends within a TTL.
<1>3. ASSUME NEW d \in Docs, NEW us \in DocLists, PublishDoc(d, us)
      PROVE  DocInv'
  <2>1. /\ oclock' = oclock /\ oreq' = oreq /\ docCache' = docCache
        /\ \A e \in Docs \ {d} : doc'[e] = doc[e] /\ dropped'[e] = dropped[e]
        /\ doc'[d] = us
    BY <1>0, <1>3 DEF PublishDoc
  <2>2. \A u \in URIs : dropped'[d][u] = IF u \in doc[d] \ us THEN oclock ELSE dropped[d][u]
    BY <1>0, <1>3 DEF PublishDoc
  <2>3. ASSUME NEW q \in OReqs, oreq[q].pc \in {"fetch", "fetched"}
        PROVE  FetchHolds(q)'
    <3>1. oreq[q] \in FetchCall /\ FetchHolds(q)
      BY <2>3, CallKinds DEF DocInv, FetchHolds
    <3>2. oreq[q].at \in Int /\ oreq[q].client \in Docs /\ oreq[q].uris \subseteq URIs
      BY <3>1 DEF FetchCall
    <3> QED
      BY <1>0, <2>1, <2>2, <3>1, <3>2 DEF FetchHolds
  <2>4. ASSUME NEW e \in Docs, docCache[e] # Gone
        PROVE  CopyHolds(e)'
    <3>1. docCache[e] \in CacheEntry /\ CopyHolds(e)
      BY <1>0, <2>4 DEF DocInv, CopyHolds
    <3>2. docCache[e].expires \in Int /\ docCache[e].uris \subseteq URIs
      BY <3>1 DEF CacheEntry
    <3> QED
      BY <1>0, <2>1, <2>2, <3>1, <3>2, OAuthAssumption DEF CopyHolds
  <2> QED
    BY <2>1, <2>3, <2>4 DEF DocInv, FetchHolds, CopyHolds
<1>4. ASSUME NEW b \in Bases, NEW w \in BOOLEAN, Restart(b, w)
      PROVE  DocInv'
  <2>1. UNCHANGED <<oclock, doc, dropped>>
    BY <1>4 DEF Restart
  <2>2. /\ \A d \in Docs : docCache'[d] = Gone
        /\ \A q \in OReqs : oreq'[q].pc \notin {"fetch", "fetched"}
    BY <1>4 DEF Restart, Idle
  <2> QED
    BY <1>0, <2>1, <2>2, DocQuietKeeps
<1>5. ASSUME NEW c \in Stored, NEW us \in RegLists, RegisterClient(c, us)
      PROVE  DocInv'
  BY <1>0, <1>5, DocQuietKeeps DEF RegisterClient
<1>6. ASSUME NEW c \in Clients, NEW scopes \in Negotiable, Authorize(c, scopes)
      PROVE  DocInv'
  BY <1>0, <1>6, DocQuietKeeps DEF Authorize
<1>7. ASSUME NEW q \in OReqs, ServeRequest(q)
      PROVE  DocInv'
  <2>1. ASSUME NEW d \in Docs, AuthorizeFetch(q, d)
        PROVE  DocInv'
    <3>1. /\ UNCHANGED <<oclock, doc, dropped, docCache>>
          /\ oreq'[q].pc = "fetch" /\ oreq'[q].at = oclock
          /\ \A p \in OReqs \ {q} : oreq'[p] = oreq[p]
      BY <1>0, <2>1 DEF AuthorizeFetch
    <3>2. FetchHolds(q)'
      BY <1>0, <3>1 DEF FetchHolds
    <3>3. \A p \in OReqs \ {q} : oreq'[p].pc \in {"fetch", "fetched"} => FetchHolds(p)'
      BY <3>1 DEF DocInv, FetchHolds
    <3>4. \A e \in Docs : docCache'[e] # Gone => CopyHolds(e)'
      BY <3>1 DEF DocInv, CopyHolds
    <3> QED
      BY <3>2, <3>3, <3>4 DEF DocInv, FetchHolds, CopyHolds
  <2>2. CASE DocServed(q)
    <3>1. oreq[q] \in FetchCall /\ oreq[q].pc = "fetch"
      BY <2>2, CallKinds DEF DocServed
    <3>2. /\ UNCHANGED <<oclock, doc, dropped, docCache>>
          /\ \A p \in OReqs \ {q} : oreq'[p] = oreq[p]
          /\ \/ oreq'[q] = Idle
             \/ /\ oreq'[q].uris = doc[oreq[q].client] /\ oreq'[q].at = oreq[q].at
                /\ oreq'[q].client = oreq[q].client
      BY <1>0, <2>2, <3>1 DEF DocServed, FetchCall
    <3>3. oreq'[q].pc \in {"fetch", "fetched"} => FetchHolds(q)'
      BY <3>1, <3>2 DEF DocInv, FetchHolds, Idle
    <3>4. \A p \in OReqs \ {q} : oreq'[p].pc \in {"fetch", "fetched"} => FetchHolds(p)'
      BY <3>2 DEF DocInv, FetchHolds
    <3>5. \A e \in Docs : docCache'[e] # Gone => CopyHolds(e)'
      BY <3>2 DEF DocInv, CopyHolds
    <3> QED
      BY <3>3, <3>4, <3>5 DEF DocInv, FetchHolds, CopyHolds
  <2>3. ASSUME NEW scopes \in Negotiable, FinishAuthorize(q, scopes)
        PROVE  DocInv'
    <3>1. oreq[q] \in FetchCall /\ oreq[q].pc = "fetched" /\ FetchHolds(q)
      BY <2>3, CallKinds DEF FinishAuthorize, DocInv, FetchHolds
    <3>2. oreq[q].at \in Int /\ oreq[q].uris \subseteq URIs
      BY <3>1 DEF FetchCall
    <3>d. PICK d \in Docs : d = oreq[q].client
      BY <3>1 DEF FetchCall
    <3>3. /\ UNCHANGED <<oclock, doc, dropped>> /\ oreq'[q] = Idle
          /\ \A p \in OReqs \ {q} : oreq'[p] = oreq[p]
      BY <1>0, <2>3 DEF FinishAuthorize
    <3>4. /\ docCache'[d].uris = oreq[q].uris /\ docCache'[d].expires = oreq[q].at + DocTTL
          /\ \A e \in Docs \ {d} : docCache'[e] = docCache[e]
      BY <1>0, <2>3, <3>d DEF FinishAuthorize
    <3>5. dropped[d] \in [URIs -> Int]
      BY <1>0
    <3>6. CopyHolds(d)'
      <4>1. oreq[q].at + DocTTL <= oclock + DocTTL
        BY <1>0, <3>1, <3>2, OAuthAssumption DEF FetchHolds
      <4>2. ASSUME NEW u \in oreq[q].uris, u \notin doc[d]
            PROVE  oreq[q].at + DocTTL <= dropped[d][u] + DocTTL
        <5>1. oreq[q].at <= dropped[d][u] /\ dropped[d][u] \in Int
          BY <3>1, <3>2, <3>d, <3>5, <4>2 DEF FetchHolds
        <5> QED
          BY <3>2, <5>1, OAuthAssumption
      <4> QED
        BY <3>3, <3>4, <4>1, <4>2 DEF CopyHolds
    <3>7. \A e \in Docs \ {d} : docCache'[e] # Gone => CopyHolds(e)'
      BY <3>3, <3>4 DEF DocInv, CopyHolds
    <3>8. \A p \in OReqs : oreq'[p].pc \in {"fetch", "fetched"} => FetchHolds(p)'
      BY <3>3 DEF DocInv, FetchHolds, Idle
    <3> QED
      BY <3>6, <3>7, <3>8 DEF DocInv, FetchHolds, CopyHolds
  <2>4. CASE \/ \E i \in 1..MaxCodes, good \in BOOLEAN : RedeemCode(q, i, good)
             \/ \E t \in 1..MaxTokens : RefreshRead(q, t)
             \/ RefreshRevoke(q) \/ IssueTokens(q)
    <3>1. UNCHANGED <<oclock, doc, dropped, docCache>>
      BY <2>4 DEF RedeemCode, RefreshRead, RefreshRevoke, IssueTokens
    <3>2. \A p \in OReqs : oreq'[p] = oreq[p] \/ oreq'[p].pc \notin {"fetch", "fetched"}
      <4>1. ASSUME NEW i \in 1..MaxCodes, NEW good \in BOOLEAN, RedeemCode(q, i, good)
            PROVE  \A p \in OReqs : oreq'[p] = oreq[p] \/ oreq'[p].pc \notin {"fetch", "fetched"}
        BY <1>0, <4>1 DEF RedeemCode
      <4>2. ASSUME NEW t \in 1..MaxTokens, RefreshRead(q, t)
            PROVE  \A p \in OReqs : oreq'[p] = oreq[p] \/ oreq'[p].pc \notin {"fetch", "fetched"}
        BY <1>0, <4>2 DEF RefreshRead
      <4>3. CASE RefreshRevoke(q)
        <5>1. oreq[q] \in TokenCall
          BY <4>3, CallKinds DEF RefreshRevoke
        <5> QED
          BY <1>0, <4>3, <5>1 DEF RefreshRevoke, TokenCall, Idle
      <4>4. CASE IssueTokens(q)
        BY <1>0, <4>4 DEF IssueTokens, Idle
      <4> QED
        BY <2>4, <4>1, <4>2, <4>3, <4>4
    <3> QED
      BY <1>0, <3>1, <3>2, DocQuietKeeps
  <2> QED
    BY <1>7, <2>1, <2>2, <2>3, <2>4 DEF ServeRequest
<1>8. ASSUME NEW i \in 1..MaxScreens, Approve(i) \/ ApproveFails(i) \/ Deny(i) \/ SubmitAgain(i)
      PROVE  DocInv'
  BY <1>0, <1>8, DocQuietKeeps DEF Approve, ApproveFails, Deny, SubmitAgain
<1>9. ASSUME NEW t \in 1..MaxTokens, RevokeToken(t)
      PROVE  DocInv'
  BY <1>0, <1>9, DocQuietKeeps DEF RevokeToken
<1> QED
  BY <1>1, <1>2, <1>3, <1>4, <1>5, <1>6, <1>7, <1>8, <1>9 DEF OAuthNext

-----------------------------------------------------------------------------
(* The theorems                                                            *)

\* Everything that holds from the start.
LEMMA OAuthInvInit == OAuthInit => OAuthTypeOK /\ ApprovedInv /\ RotationInv /\ KeyInv /\ DocInv
<1> SUFFICES ASSUME OAuthInit
             PROVE  OAuthTypeOK /\ ApprovedInv /\ RotationInv /\ KeyInv /\ DocInv
  OBVIOUS
<1>1. /\ \A i \in 1..MaxCodes : codes[i] = Gone
      /\ \A i \in 1..MaxScreens : screens[i] = Gone
      /\ \A t \in 1..MaxTokens : refreshRows[t] = Gone /\ successors[t] = 0
      /\ \A d \in Docs : docCache[d] = Gone
      /\ \A q \in OReqs : oreq[q].pc = "idle"
      /\ consentRows = {} /\ access = {}
  BY DEF OAuthInit, Idle
<1>2. activeKey = keyRow /\ keyRow # 0
  BY DEF OAuthInit, EnsureSigningKey
<1>3. ApprovedInv
  BY <1>1 DEF ApprovedInv, TokensWereApproved
<1>4. RotationInv
  BY <1>1 DEF RotationInv, Presents
<1>5. KeyInv
  BY <1>1, <1>2 DEF KeyInv
<1>6. DocInv
  BY <1>1 DEF DocInv
<1> QED
  BY <1>3, <1>4, <1>5, <1>6, OAuthTypeInit

\* Every reachable state of the authorization server is well typed.
THEOREM OAuthTypeCorrect == OAuthSpec => []OAuthTypeOK
<1>1. OAuthInit => OAuthTypeOK
  BY OAuthTypeInit
<1>2. OAuthTypeOK /\ [OAuthNext]_oauthVars => OAuthTypeOK'
  BY OAuthTypeStep
<1> QED
  BY <1>1, <1>2, PTL DEF OAuthSpec

\* No access token carries a scope that the owner did not approve for its
\* client by a click, however the grant behind it was come by: silently, on a
\* screen, or by refresh, also across restarts.
THEOREM TokensAlwaysApproved == OAuthSpec => []TokensWereApproved
<1>1. OAuthInit => OAuthTypeOK /\ ApprovedInv
  BY OAuthInvInit
<1>2. OAuthTypeOK /\ ApprovedInv /\ [OAuthNext]_oauthVars => OAuthTypeOK' /\ ApprovedInv'
  BY OAuthTypeStep, ApprovedInductive
<1>3. ApprovedInv => TokensWereApproved
  BY DEF ApprovedInv
<1> QED
  BY <1>1, <1>2, <1>3, PTL DEF OAuthSpec

\* However many requests present a refresh token, it is answered more than once
\* only if two of them had read its row before either revoked it.
THEOREM RotationAlwaysHasCause == OAuthSpec => []RotationHasCause
<1>1. OAuthInit => OAuthTypeOK /\ RotationInv
  BY OAuthInvInit
<1>2. OAuthTypeOK /\ RotationInv /\ [OAuthNext]_oauthVars => OAuthTypeOK' /\ RotationInv'
  BY OAuthTypeStep, RotationInductive
<1>3. OAuthTypeOK /\ RotationInv => RotationHasCause
  BY DEF OAuthTypeOK, RotationInv, RotationHasCause
<1> QED
  BY <1>1, <1>2, <1>3, PTL DEF OAuthSpec

\* Restarts and configuration changes that leave the base URL alone leave every
\* unexpired access token accepted.
THEOREM TokensAlwaysSurvive == OAuthSpec => []TokensSurviveRestart
<1>1. OAuthInit => OAuthTypeOK /\ KeyInv
  BY OAuthInvInit
<1>2. OAuthTypeOK /\ KeyInv /\ [OAuthNext]_oauthVars => OAuthTypeOK' /\ KeyInv'
  BY OAuthTypeStep, KeyInductive
<1>3. KeyInv => TokensSurviveRestart
  BY DEF KeyInv, TokensSurviveRestart, VerifyAccessToken
<1> QED
  BY <1>1, <1>2, <1>3, PTL DEF OAuthSpec

\* A redirect URI that the document cache vouches for was listed less than a
\* cache lifetime ago, however slow a fetch was and in whatever order
\* overlapping fetches were stored.
THEOREM DocCacheAlwaysBounded == OAuthSpec => []DocCacheBounded
<1>1. OAuthInit => OAuthTypeOK /\ DocInv
  BY OAuthInvInit
<1>2. OAuthTypeOK /\ DocInv /\ [OAuthNext]_oauthVars => OAuthTypeOK' /\ DocInv'
  BY OAuthTypeStep, DocInductive
<1>3. OAuthTypeOK /\ DocInv => DocCacheBounded
  <2> SUFFICES ASSUME OAuthTypeOK, DocInv, NEW d \in Docs, CachedDoc(d),
                      NEW u \in docCache[d].uris, u \notin doc[d]
               PROVE  oclock < dropped[d][u] + DocTTL
    BY DEF DocCacheBounded
  <2>1. docCache[d] \in CacheEntry /\ docCache[d] # Gone /\ oclock < docCache[d].expires
    BY DEF OAuthTypeOK, CachedDoc
  <2>2. docCache[d].expires \in Int /\ u \in URIs
    BY <2>1 DEF CacheEntry
  <2>3. docCache[d].expires <= dropped[d][u] + DocTTL
    BY <2>1 DEF DocInv
  <2>4. dropped[d][u] \in Int /\ oclock \in Int
    BY <2>2 DEF OAuthTypeOK
  <2> QED
    BY <2>1, <2>2, <2>3, <2>4, OAuthAssumption
<1> QED
  BY <1>1, <1>2, <1>3, PTL DEF OAuthSpec

-----------------------------------------------------------------------------
(* Arithmetic and keys *)

\* Retry-After covers the wait it was computed from (RateLimit).
LEMMA RetryCovers ==
    ASSUME NEW x \in Nat, NEW s \in Nat \ {0}
    PROVE  s * ((x \div s) + 1) \in Nat /\ s * ((x \div s) + 1) >= x
<1>1. (x \div s) \in Nat /\ (x % s) \in 0..(s - 1)
  OBVIOUS
<1>2. x = s * (x \div s) + (x % s)
  OBVIOUS
<1>3. s * ((x \div s) + 1) = s * (x \div s) + s
  BY <1>1
<1>. QED
  BY <1>1, <1>2, <1>3

\* The walk over X-Forwarded-For ends at the caller (clientIP).
LEMMA ClientIsCaller ==
    ASSUME NEW r \in Arrivals
    PROVE  clientIP(r) = r.from /\ r.from \in Addrs
<1>. DEFINE n == Len(r.forged)
            xff == Forwarded(r)
            untrusted == {i \in DOMAIN xff : xff[i] \notin Trusted}
<1>1. /\ r.from \in Addrs /\ r.from \notin Trusted
      /\ r.hops \in Seq(Trusted) /\ r.forged \in Seq(Addrs)
  BY ArrivalAssumption
<1>2. CASE r.hops = <<>>
  BY <1>1, <1>2 DEF clientIP, Peer
<1>3. CASE r.hops # <<>>
  <2>. DEFINE rest == SubSeq(r.hops, 1, Len(r.hops) - 1)
  <2>1. Len(r.hops) \in Nat \ {0} /\ \A i \in 1..Len(r.hops) : r.hops[i] \in Trusted
    BY <1>1, <1>3
  <2>2. Peer(r) \in Trusted
    BY <2>1, <1>3 DEF Peer
  <2>3. rest \in Seq(Trusted)
    BY <1>1, <2>1
  <2>4. xff = r.forged \o <<r.from>> \o rest
    BY <1>3 DEF Forwarded
  <2>5. /\ n \in Nat /\ DOMAIN xff = 1..(n + 1 + Len(rest)) /\ Len(rest) \in Nat
        /\ xff[n + 1] = r.from
        /\ \A i \in (n + 2)..(n + 1 + Len(rest)) : xff[i] \in Trusted
    <3>. HIDE DEF rest
    <3>1. r.forged \in Seq(Addrs) /\ rest \in Seq(Trusted) /\ <<r.from>> \in Seq(Addrs)
      BY <1>1, <2>3
    <3>. QED
      BY <2>4, <3>1
  <2>6. n + 1 \in untrusted /\ \A i \in untrusted : n + 1 >= i
    <3>. HIDE DEF xff, n, rest
    <3>. QED
      BY <2>5, <1>1
  <2>7. Max(untrusted) = n + 1
    <3>1. Max(untrusted) \in untrusted /\ \A y \in untrusted : Max(untrusted) >= y
      <4>. HIDE DEF untrusted
      <4>. QED
        BY <2>6 DEF Max
    <3>2. Max(untrusted) \in Int
      BY <3>1, <2>5
    <3>. HIDE DEF untrusted
    <3>. QED
      BY <2>6, <3>1, <3>2, <2>5
  <2>. QED
    BY <2>2, <2>5, <2>6, <2>7, <1>1 DEF clientIP
<1>. QED
  BY <1>2, <1>3

-----------------------------------------------------------------------------
(* What a bucket is worth *)

\* What a key could take now: a sweep does not change it.
Avail(l, k) == IF bucket[l][k] = NoBucket THEN Burst[l] ELSE Refilled(l, bucket[l][k])

\* A bucket holds no more than the burst and was not filled in the future.
BucketInv ==
    \A l \in Limiters, k \in BucketKeys :
        bucket[l][k] # NoBucket => /\ bucket[l][k].tokens \in 0..Burst[l]
                                   /\ bucket[l][k].last <= eclock

\* Whatever was paid since a token was taken, and whatever is there to be
\* taken, has been in the bucket then or was earned since.
WindowInv ==
    \A c \in charges :
        (Paid(c.limiter, c.key) - c.sum) + Cost[c.limiter] + Avail(c.limiter, c.key)
            <= Burst[c.limiter] + (eclock - c.at)

\* What a key has paid is the last of its sums, or nothing.
Sums(l, k) == {0} \cup {c.sum : c \in {d \in charges : d.limiter = l /\ d.key = k}}
PaidInv ==
    \A l \in Limiters, k \in BucketKeys :
        Paid(l, k) \in Sums(l, k) /\ \A n \in Sums(l, k) : Paid(l, k) >= n

\* A promise is kept already, or what is missing is earned in time.
PromiseInv ==
    \A p \in promise :
        \/ Avail(p.limiter, p.key) >= Cost[p.limiter]
        \/ Avail(p.limiter, p.key) + (p.at - eclock) >= Cost[p.limiter]

\* The tokens MCPAuth may accept.
Real == {AdminKey, PublicKey} \cup OAuthTokens

\* Gates that may be left before a request.
Stages ==
    {<<>>, <<"api">>, <<"api", "AdminAuth">>, <<"api", "SessionAuth">>,
     <<"api", "expensive", "SessionAuth">>, <<"api", "BrowserWriteAuth">>,
     <<"api", "expensive", "BrowserWriteAuth">>, <<"oauth">>,
     <<"preauth", "MCPAuth", "mcp">>, <<"AdminAuth">>, <<"SessionAuth">>,
     <<"expensive", "SessionAuth">>, <<"BrowserWriteAuth">>,
     <<"expensive", "BrowserWriteAuth">>, <<"MCPAuth", "mcp">>, <<"mcp">>}

\* Only a request whose token was accepted stands before its bucket.
GateInv ==
    \A q \in EReqs :
        /\ gates[q] \in Stages
        /\ gates[q] # <<>> => ereq[q] \in Arrivals
        /\ gates[q] = <<"mcp">> => ereq[q].bearer \in Real \cap Bearers

\* The inductive invariant.
EdgeInv == /\ EdgeTypeOK /\ BucketInv /\ PaidInv /\ WindowInv /\ PromiseInv /\ GateInv
           /\ RateIsBounded /\ PayersAreReal

\* What a key could take lies between nothing and the burst (Allow).
LEMMA AvailType ==
    ASSUME EdgeTypeOK, BucketInv, NEW l \in Limiters, NEW k \in BucketKeys
    PROVE  /\ Avail(l, k) \in 0..Burst[l]
           /\ bucket[l][k] # NoBucket => bucket[l][k] \in Bucket
           /\ Burst[l] \in Nat /\ Cost[l] \in Nat \ {0} /\ Burst[l] >= Cost[l]
<1>1. /\ eclock \in Nat /\ bucket[l][k] \in Bucket \cup {NoBucket}
      /\ Burst[l] \in Nat /\ Cost[l] \in Nat \ {0} /\ Burst[l] >= Cost[l]
  BY LimiterAssumption DEF EdgeTypeOK
<1>2. CASE bucket[l][k] = NoBucket
  BY <1>1, <1>2 DEF Avail
<1>3. CASE bucket[l][k] # NoBucket
  <2>1. bucket[l][k].tokens \in 0..Burst[l] /\ bucket[l][k].last <= eclock
    BY <1>3 DEF BucketInv
  <2>2. bucket[l][k].last \in Int
    BY <1>1, <1>3 DEF Bucket
  <2>. QED
    BY <1>1, <1>3, <2>1, <2>2 DEF Avail, Refilled
<1>. QED
  BY <1>2, <1>3

\* A sweep drops only what is as good as new (sweep).
LEMMA LevelIsAvail ==
    ASSUME EdgeTypeOK, BucketInv, NEW l \in Limiters, NEW k \in BucketKeys
    PROVE  Level(l, k) = Avail(l, k)
<1>1. Avail(l, k) \in 0..Burst[l] /\ Burst[l] \in Nat
  BY AvailType
<1>2. CASE SweepDue(l) /\ IdleBucket(l, k)
  <2>1. bucket[l][k] # NoBucket /\ Refilled(l, bucket[l][k]) >= Burst[l]
    BY <1>2 DEF IdleBucket
  <2>2. Avail(l, k) = Refilled(l, bucket[l][k])
    BY <2>1 DEF Avail
  <2>3. Level(l, k) = Burst[l]
    BY <1>2 DEF Level, Kept
  <2>. QED
    BY <1>1, <2>1, <2>2, <2>3
<1>3. CASE ~(SweepDue(l) /\ IdleBucket(l, k))
  BY <1>3 DEF Level, Kept, Avail
<1>. QED
  BY <1>2, <1>3

\* Storing a level sets what the key is worth, and nobody else's (Allow).
LEMMA StoreKeeps ==
    ASSUME EdgeTypeOK, BucketInv, NEW l \in Limiters, NEW k \in BucketKeys,
           NEW v \in 0..Burst[l], PutBucket(l, k, v), eclock' = eclock
    PROVE  /\ bucket' \in [Limiters -> [BucketKeys -> Bucket \cup {NoBucket}]]
           /\ lastSweep' \in [Limiters -> Int]
           /\ BucketInv'
           /\ Avail(l, k)' = v
           /\ \A m \in Limiters, j \in BucketKeys :
                 <<m, j>> # <<l, k>> => Avail(m, j)' = Avail(m, j)
<1>. DEFINE new == [tokens |-> v, last |-> eclock]
<1>1. /\ bucket' = [bucket EXCEPT ![l] =
                       [j \in BucketKeys |-> IF j = k THEN new ELSE Kept(l, j)]]
      /\ lastSweep' = [lastSweep EXCEPT ![l] = IF SweepDue(l) THEN eclock ELSE @]
  BY DEF PutBucket
<1>2. /\ eclock \in Nat /\ Burst \in [Limiters -> Nat] /\ lastSweep \in [Limiters -> Int]
      /\ bucket \in [Limiters -> [BucketKeys -> Bucket \cup {NoBucket}]]
      /\ NoBucket \notin Bucket
  BY LimiterAssumption DEF EdgeTypeOK
<1>3. new \in Bucket /\ new # NoBucket /\ new.tokens = v /\ new.last = eclock
  BY <1>2 DEF Bucket
<1>4. \A j \in BucketKeys : Kept(l, j) \in {bucket[l][j], NoBucket}
  BY DEF Kept
<1>5. /\ bucket' \in [Limiters -> [BucketKeys -> Bucket \cup {NoBucket}]]
      /\ \A m \in Limiters, j \in BucketKeys :
            bucket'[m][j] = IF m # l THEN bucket[m][j] ELSE IF j = k THEN new ELSE Kept(l, j)
  <2>. HIDE DEF new
  <2>. QED
    BY <1>1, <1>2, <1>3, <1>4
<1>6. lastSweep' \in [Limiters -> Int]
  BY <1>1, <1>2
<1>7. BucketInv'
  <2>. SUFFICES ASSUME NEW m \in Limiters, NEW j \in BucketKeys, bucket'[m][j] # NoBucket
                PROVE  bucket'[m][j].tokens \in 0..Burst[m] /\ bucket'[m][j].last <= eclock
    BY DEF BucketInv
  <2>1. CASE m = l /\ j = k
    BY <2>1, <1>3, <1>5, <1>2
  <2>2. CASE ~(m = l /\ j = k)
    <3>1. bucket'[m][j] = bucket[m][j]
      BY <2>2, <1>4, <1>5
    <3>. QED
      BY <3>1 DEF BucketInv
  <2>. QED
    BY <2>1, <2>2
<1>8. Avail(l, k)' = v
  <2>1. bucket'[l][k] = new
    BY <1>5
  <2>. QED
    BY <2>1, <1>2, <1>3 DEF Avail, Refilled
<1>9. ASSUME NEW m \in Limiters, NEW j \in BucketKeys, <<m, j>> # <<l, k>>
      PROVE  Avail(m, j)' = Avail(m, j)
  <2>1. CASE bucket'[m][j] = bucket[m][j]
    BY <2>1 DEF Avail, Refilled
  <2>2. CASE bucket'[m][j] # bucket[m][j]
    <3>1. m = l /\ j # k /\ bucket'[m][j] = NoBucket /\ IdleBucket(l, j)
      BY <2>2, <1>9, <1>5 DEF Kept
    <3>2. bucket[l][j] # NoBucket /\ Refilled(l, bucket[l][j]) >= Burst[l]
      BY <3>1 DEF IdleBucket
    <3>3. Avail(l, j) = Refilled(l, bucket[l][j]) /\ Avail(l, j)' = Burst[l]
      BY <3>1, <3>2 DEF Avail
    <3>4. Avail(l, j) \in 0..Burst[l] /\ Burst[l] \in Nat
      BY AvailType
    <3>. QED
      BY <3>1, <3>2, <3>3, <3>4
  <2>. QED
    BY <2>1, <2>2
<1>. QED
  BY <1>5, <1>6, <1>7, <1>8, <1>9

-----------------------------------------------------------------------------
(* Steps of a limiter *)

\* The types and invariants that a limiter's step can disturb.
LimiterType ==
    /\ bucket \in [Limiters -> [BucketKeys -> Bucket \cup {NoBucket}]]
    /\ lastSweep \in [Limiters -> Int]
    /\ charges \subseteq Charge /\ promise \subseteq Promise

LimiterInv == /\ LimiterType /\ BucketInv /\ PaidInv /\ WindowInv /\ PromiseInv
              /\ RateIsBounded /\ PayersAreReal

\* The greatest of a set of integers is what Max chooses.
LEMMA MaxIs ==
    ASSUME NEW S \in SUBSET Int, NEW m \in S, \A n \in S : m >= n
    PROVE  Max(S) = m
<1>1. Max(S) \in S /\ \A n \in S : Max(S) >= n
  BY DEF Max
<1>2. Max(S) \in Int /\ m \in Int /\ Max(S) >= m /\ m >= Max(S)
  BY <1>1
<1>. QED
  BY <1>2

\* What a key has paid is a number at least as large as each of its sums.
LEMMA PaidFacts ==
    ASSUME EdgeTypeOK, PaidInv, NEW l \in Limiters, NEW k \in BucketKeys
    PROVE  /\ Paid(l, k) \in Int /\ Sums(l, k) \subseteq Int
           /\ \A c \in charges : c.limiter = l /\ c.key = k => c.sum <= Paid(l, k)
<1>1. \A c \in charges : c.sum \in Int
  BY DEF EdgeTypeOK, Charge
<1>2. Sums(l, k) \subseteq Int
  BY <1>1 DEF Sums
<1>3. Paid(l, k) \in Sums(l, k) /\ \A n \in Sums(l, k) : Paid(l, k) >= n
  BY DEF PaidInv
<1>4. \A c \in charges : c.limiter = l /\ c.key = k => c.sum \in Sums(l, k)
  BY DEF Sums
<1>. QED
  BY <1>1, <1>2, <1>3, <1>4

\* A token that is taken is added to what its key has paid (Allow).
LEMMA PaidGrows ==
    ASSUME EdgeTypeOK, PaidInv, NEW l \in Limiters, NEW k \in BucketKeys, NEW from \in Addrs,
           charges' = charges \cup {[limiter |-> l, key |-> k, at |-> eclock,
                                     sum |-> Paid(l, k) + Cost[l], by |-> from]}
    PROVE  /\ charges' \subseteq Charge /\ PaidInv' /\ Paid(l, k)' = Paid(l, k) + Cost[l]
           /\ \A m \in Limiters, j \in BucketKeys :
                 <<m, j>> # <<l, k>> => Paid(m, j)' = Paid(m, j)
<1>. DEFINE new == [limiter |-> l, key |-> k, at |-> eclock,
                    sum |-> Paid(l, k) + Cost[l], by |-> from]
            top == Paid(l, k) + Cost[l]
<1>1. Paid(l, k) \in Int /\ Sums(l, k) \subseteq Int /\ Cost[l] \in Nat /\ eclock \in Nat
  BY PaidFacts, LimiterAssumption DEF EdgeTypeOK
<1>2. Paid(l, k) \in Sums(l, k) /\ \A n \in Sums(l, k) : Paid(l, k) >= n
  BY DEF PaidInv
<1>3. new \in Charge /\ new.limiter = l /\ new.key = k /\ new.sum = top
  BY <1>1 DEF Charge
<1>4. charges' \subseteq Charge
  <2>. HIDE DEF new
  <2>. QED
    BY <1>3 DEF EdgeTypeOK, new
<1>5. Sums(l, k)' = Sums(l, k) \cup {top}
  <2>1. {d \in charges' : d.limiter = l /\ d.key = k}
           = {d \in charges : d.limiter = l /\ d.key = k} \cup {new}
    BY <1>3
  <2>. HIDE DEF top
  <2>. QED
    BY <2>1, <1>3 DEF Sums
<1>6. top \in Sums(l, k)' /\ Sums(l, k)' \subseteq Int /\ \A n \in Sums(l, k)' : top >= n
  BY <1>1, <1>2, <1>5
<1>7. Paid(l, k)' = Max(Sums(l, k)')
  BY DEF Paid, Sums
<1>8. Paid(l, k)' = top
  <2>. HIDE DEF top
  <2>. QED
    BY <1>6, <1>7, MaxIs
<1>9. ASSUME NEW m \in Limiters, NEW j \in BucketKeys, <<m, j>> # <<l, k>>
      PROVE  Sums(m, j)' = Sums(m, j) /\ Paid(m, j)' = Paid(m, j)
  <2>1. {d \in charges' : d.limiter = m /\ d.key = j}
           = {d \in charges : d.limiter = m /\ d.key = j}
    BY <1>3, <1>9
  <2>. QED
    BY <2>1 DEF Sums, Paid
<1>10. PaidInv'
  <2>. SUFFICES ASSUME NEW m \in Limiters, NEW j \in BucketKeys
                PROVE  /\ Paid(m, j)' \in Sums(m, j)'
                       /\ \A n \in Sums(m, j)' : Paid(m, j)' >= n
    BY DEF PaidInv
  <2>1. CASE <<m, j>> # <<l, k>>
    BY <2>1, <1>9 DEF PaidInv
  <2>2. CASE m = l /\ j = k
    BY <2>2, <1>6, <1>8
  <2>. QED
    BY <2>1, <2>2
<1>. QED
  BY <1>4, <1>8, <1>9, <1>10

\* A token that is taken keeps the windows of its key (Allow).
LEMMA AllowKeeps ==
    ASSUME EdgeInv, NEW l \in Limiters, NEW k \in BucketKeys, NEW from \in Addrs,
           Allow(l, k, from), eclock' = eclock,
           IF l = "mcp" THEN k \in Real ELSE from = k
    PROVE  LimiterInv'
<1>. DEFINE a == Avail(l, k)
            new == [limiter |-> l, key |-> k, at |-> eclock,
                    sum |-> Paid(l, k) + Cost[l], by |-> from]
<1>1. /\ EdgeTypeOK /\ BucketInv /\ PaidInv /\ WindowInv /\ PromiseInv
      /\ RateIsBounded /\ PayersAreReal
  BY DEF EdgeInv
<1>2. /\ Level(l, k) = a /\ a \in 0..Burst[l] /\ Burst[l] \in Nat /\ Cost[l] \in Nat \ {0}
      /\ Burst[l] >= Cost[l]
  BY <1>1, AvailType, LevelIsAvail
<1>3. a >= Cost[l] /\ PutBucket(l, k, a - Cost[l])
  BY <1>2 DEF Allow
<1>4. /\ charges' = charges \cup {new}
      /\ promise' = {p \in promise : ~(p.limiter = l /\ p.key = k)}
  BY DEF Allow
<1>5. a - Cost[l] \in 0..Burst[l]
  BY <1>2, <1>3
<1>6. /\ bucket' \in [Limiters -> [BucketKeys -> Bucket \cup {NoBucket}]]
      /\ lastSweep' \in [Limiters -> Int] /\ BucketInv'
      /\ Avail(l, k)' = a - Cost[l]
      /\ \A m \in Limiters, j \in BucketKeys :
            <<m, j>> # <<l, k>> => Avail(m, j)' = Avail(m, j)
  <2>. HIDE DEF a
  <2>. QED
    BY <1>1, <1>3, <1>5, StoreKeeps
<1>7. /\ charges' \subseteq Charge /\ PaidInv' /\ Paid(l, k)' = Paid(l, k) + Cost[l]
      /\ \A m \in Limiters, j \in BucketKeys :
            <<m, j>> # <<l, k>> => Paid(m, j)' = Paid(m, j)
  BY <1>1, <1>4, PaidGrows
<1>8. /\ new.limiter = l /\ new.key = k /\ new.at = eclock
      /\ new.sum = Paid(l, k) + Cost[l] /\ new.by = from
  OBVIOUS
<1>9. /\ eclock \in Nat /\ Paid(l, k) \in Int
      /\ \A c \in charges : c.limiter = l /\ c.key = k => c.sum <= Paid(l, k)
  BY <1>1, PaidFacts DEF EdgeTypeOK
<1>10. \A c \in charges : /\ c.limiter \in Limiters /\ c.key \in BucketKeys
                          /\ c.at \in Int /\ c.sum \in Int
  BY <1>1 DEF EdgeTypeOK, Charge
<1>11. \A c \in charges : c.limiter = l /\ c.key = k =>
          (Paid(l, k) - c.sum) + Cost[l] + a <= Burst[l] + (eclock - c.at)
  BY <1>1 DEF WindowInv
<1>12. WindowInv'
  <2>. SUFFICES ASSUME NEW c \in charges'
                PROVE  (Paid(c.limiter, c.key)' - c.sum) + Cost[c.limiter]
                          + Avail(c.limiter, c.key)' <= Burst[c.limiter] + (eclock - c.at)
    BY DEF WindowInv
  <2>1. CASE c \in charges /\ <<c.limiter, c.key>> # <<l, k>>
    <3>1. /\ Paid(c.limiter, c.key)' = Paid(c.limiter, c.key)
          /\ Avail(c.limiter, c.key)' = Avail(c.limiter, c.key)
      BY <2>1, <1>6, <1>7, <1>10
    <3>. QED
      BY <2>1, <3>1, <1>1 DEF WindowInv
  <2>2. CASE c = new
    <3>. HIDE DEF new, a
    <3>. QED
      BY <2>2, <1>2, <1>6, <1>7, <1>8, <1>9
  <2>3. CASE c \in charges /\ c.limiter = l /\ c.key = k
    <3>. HIDE DEF new, a
    <3>. QED
      BY <2>3, <1>2, <1>6, <1>7, <1>9, <1>10, <1>11
  <2>. QED
    BY <2>1, <2>2, <2>3, <1>4
<1>13. PromiseInv'
  <2>. SUFFICES ASSUME NEW p \in promise'
                PROVE  \/ Avail(p.limiter, p.key)' >= Cost[p.limiter]
                       \/ Avail(p.limiter, p.key)' + (p.at - eclock) >= Cost[p.limiter]
    BY DEF PromiseInv
  <2>1. p \in promise /\ <<p.limiter, p.key>> # <<l, k>>
    BY <1>4
  <2>2. p.limiter \in Limiters /\ p.key \in BucketKeys
    BY <2>1, <1>1 DEF EdgeTypeOK, Promise
  <2>3. Avail(p.limiter, p.key)' = Avail(p.limiter, p.key)
    BY <2>1, <2>2, <1>6
  <2>. QED
    BY <2>1, <2>3, <1>1 DEF PromiseInv
<1>14. RateIsBounded'
  <2>. SUFFICES ASSUME NEW c \in charges', NEW d \in charges',
                       c.limiter = d.limiter, c.key = d.key, c.sum <= d.sum
                PROVE  (d.sum - c.sum) + Cost[c.limiter] <= Burst[c.limiter] + (d.at - c.at)
    BY DEF RateIsBounded
  <2>1. CASE c \in charges /\ d \in charges
    BY <2>1, <1>1 DEF RateIsBounded
  <2>2. CASE c \in charges /\ d = new
    <3>. HIDE DEF new, a
    <3>. QED
      BY <2>2, <1>2, <1>3, <1>8, <1>9, <1>10, <1>11
  <2>3. CASE c = new /\ d \in charges
    <3>. HIDE DEF new, a
    <3>. QED
      BY <2>3, <1>2, <1>8, <1>9, <1>10
  <2>4. CASE c = new /\ d = new
    <3>. HIDE DEF new, a
    <3>. QED
      BY <2>4, <1>2, <1>8, <1>9
  <2>. QED
    BY <2>1, <2>2, <2>3, <2>4, <1>4
<1>15. PayersAreReal'
  <2>. SUFFICES ASSUME NEW c \in charges'
                PROVE  IF c.limiter = "mcp" THEN c.key \in {AdminKey, PublicKey} \cup OAuthTokens
                       ELSE c.by = c.key
    BY DEF PayersAreReal
  <2>1. CASE c \in charges
    BY <2>1, <1>1 DEF PayersAreReal
  <2>2. CASE c = new
    <3>1. c.by = from /\ c.limiter = l /\ c.key = k
      BY <2>2, <1>8
    <3>. QED
      BY <3>1 DEF Real
  <2>. QED
    BY <2>1, <2>2, <1>4
<1>16. promise' \subseteq Promise
  BY <1>1, <1>4 DEF EdgeTypeOK
<1>. QED
  BY <1>6, <1>7, <1>12, <1>13, <1>14, <1>15, <1>16 DEF LimiterInv, LimiterType

\* What is charged does not depend on buckets.
LEMMA PaidUntouched ==
    ASSUME PaidInv, charges' = charges
    PROVE  PaidInv' /\ \A l, k : Paid(l, k)' = Paid(l, k)
  BY DEF PaidInv, Paid, Sums

\* A refusal takes nothing, and its Retry-After covers what is missing (RateLimit).
LEMMA RefuseKeeps ==
    ASSUME EdgeInv, NEW l \in Limiters, NEW k \in BucketKeys, Refuse(l, k), eclock' = eclock
    PROVE  LimiterInv'
<1>. DEFINE a == Avail(l, k)
            until == eclock + Second * (((Cost[l] - a) \div Second) + 1)
            new == [limiter |-> l, key |-> k, at |-> until]
<1>1. /\ EdgeTypeOK /\ BucketInv /\ PaidInv /\ WindowInv /\ PromiseInv
      /\ RateIsBounded /\ PayersAreReal
  BY DEF EdgeInv
<1>2. Level(l, k) = a /\ a \in 0..Burst[l] /\ Burst[l] \in Nat /\ Cost[l] \in Nat \ {0}
  BY <1>1, AvailType, LevelIsAvail
<1>3. a < Cost[l] /\ PutBucket(l, k, a)
  BY <1>2 DEF Refuse
<1>4. charges' = charges /\ promise' = promise \cup {new}
  BY <1>2 DEF Refuse, RetryAfter
<1>5. /\ bucket' \in [Limiters -> [BucketKeys -> Bucket \cup {NoBucket}]]
      /\ lastSweep' \in [Limiters -> Int] /\ BucketInv'
      /\ \A m \in Limiters, j \in BucketKeys : Avail(m, j)' = Avail(m, j)
  <2>1. a \in 0..Burst[l]
    BY <1>2
  <2>. HIDE DEF a
  <2>2. /\ bucket' \in [Limiters -> [BucketKeys -> Bucket \cup {NoBucket}]]
        /\ lastSweep' \in [Limiters -> Int] /\ BucketInv'
        /\ Avail(l, k)' = a
        /\ \A m \in Limiters, j \in BucketKeys :
              <<m, j>> # <<l, k>> => Avail(m, j)' = Avail(m, j)
    BY <1>1, <1>3, <2>1, StoreKeeps
  <2>. QED
    BY <2>2 DEF a
<1>6. eclock \in Nat
  BY <1>1 DEF EdgeTypeOK
<1>7. until \in Int /\ a + (until - eclock) >= Cost[l]
  <2>. DEFINE x == Cost[l] - a
              wait == Second * ((x \div Second) + 1)
  <2>1. x \in Nat /\ Second \in Nat \ {0} /\ a \in Int
    BY <1>2, <1>3, LimiterAssumption
  <2>2. wait \in Nat /\ wait >= x
    <3>. HIDE DEF x
    <3>. QED
      BY <2>1, RetryCovers
  <2>3. until = eclock + wait
    OBVIOUS
  <2>. HIDE DEF wait, until, a
  <2>. QED
    BY <2>1, <2>2, <2>3, <1>2, <1>6
<1>8. new \in Promise /\ new.limiter = l /\ new.key = k /\ new.at = until
  <2>. HIDE DEF until
  <2>. QED
    BY <1>7 DEF Promise
<1>9. promise' \subseteq Promise
  <2>. HIDE DEF new
  <2>. QED
    BY <1>1, <1>4, <1>8 DEF EdgeTypeOK
<1>10. PromiseInv'
  <2>. SUFFICES ASSUME NEW p \in promise'
                PROVE  \/ Avail(p.limiter, p.key)' >= Cost[p.limiter]
                       \/ Avail(p.limiter, p.key)' + (p.at - eclock) >= Cost[p.limiter]
    BY DEF PromiseInv
  <2>. HIDE DEF new, until, a
  <2>1. CASE p \in promise
    <3>1. p.limiter \in Limiters /\ p.key \in BucketKeys
      BY <2>1, <1>1 DEF EdgeTypeOK, Promise
    <3>. QED
      BY <2>1, <3>1, <1>1, <1>5 DEF PromiseInv
  <2>2. CASE p = new
    BY <2>2, <1>5, <1>7, <1>8 DEF a
  <2>. QED
    BY <2>1, <2>2, <1>4
<1>11. PaidInv' /\ \A m, j : Paid(m, j)' = Paid(m, j)
  BY <1>1, <1>4, PaidUntouched
<1>12. WindowInv'
  <2>1. \A c \in charges : c.limiter \in Limiters /\ c.key \in BucketKeys
    BY <1>1 DEF EdgeTypeOK, Charge
  <2>. QED
    BY <2>1, <1>1, <1>4, <1>5, <1>11 DEF WindowInv
<1>13. RateIsBounded' /\ PayersAreReal' /\ charges' \subseteq Charge
  BY <1>1, <1>4 DEF RateIsBounded, PayersAreReal, EdgeTypeOK
<1>. QED
  BY <1>5, <1>9, <1>10, <1>11, <1>12, <1>13 DEF LimiterInv, LimiterType

\* Time passes: buckets fill (EdgeTick).
LEMMA TickKeeps ==
    ASSUME EdgeInv, EdgeTick
    PROVE  LimiterInv'
<1>1. /\ EdgeTypeOK /\ BucketInv /\ PaidInv /\ WindowInv /\ PromiseInv
      /\ RateIsBounded /\ PayersAreReal
  BY DEF EdgeInv
<1>2. /\ eclock' = eclock + 1 /\ bucket' = bucket /\ lastSweep' = lastSweep
      /\ charges' = charges /\ promise' = promise
  BY DEF EdgeTick
<1>3. /\ eclock \in Nat /\ charges \subseteq Charge /\ promise \subseteq Promise
      /\ bucket \in [Limiters -> [BucketKeys -> Bucket \cup {NoBucket}]]
  BY <1>1 DEF EdgeTypeOK
<1>4. ASSUME NEW l \in Limiters, NEW k \in BucketKeys
      PROVE  /\ Avail(l, k) \in Int /\ Avail(l, k)' \in Int
             /\ Burst[l] \in Nat /\ Cost[l] \in Nat /\ Burst[l] >= Cost[l]
             /\ Avail(l, k)' <= Avail(l, k) + 1
             /\ Avail(l, k)' = Burst[l] \/ Avail(l, k)' = Avail(l, k) + 1
  <2>1. /\ Avail(l, k) \in 0..Burst[l] /\ Burst[l] \in Nat /\ Cost[l] \in Nat
        /\ Burst[l] >= Cost[l]
        /\ bucket[l][k] # NoBucket => bucket[l][k] \in Bucket
    BY <1>1, AvailType
  <2>2. CASE bucket[l][k] = NoBucket
    BY <2>1, <2>2, <1>2 DEF Avail
  <2>3. CASE bucket[l][k] # NoBucket
    <3>. DEFINE b == bucket[l][k]
    <3>1. b.tokens \in Int /\ b.last \in Int /\ b.tokens \in 0..Burst[l]
      BY <2>1, <2>3, <1>1 DEF Bucket, BucketInv
    <3>2. /\ Avail(l, k) = Refilled(l, b)
          /\ Avail(l, k)' = IF b.tokens + ((eclock + 1) - b.last) <= Burst[l]
                            THEN b.tokens + ((eclock + 1) - b.last) ELSE Burst[l]
      BY <2>3, <1>2 DEF Avail, Refilled
    <3>. HIDE DEF b
    <3>. QED
      BY <3>1, <3>2, <2>1, <1>3 DEF Refilled
  <2>. QED
    BY <2>2, <2>3
<1>5. BucketInv'
  <2>. SUFFICES ASSUME NEW l \in Limiters, NEW k \in BucketKeys, bucket[l][k] # NoBucket
                PROVE  bucket[l][k].tokens \in 0..Burst[l] /\ bucket[l][k].last <= eclock'
    BY <1>2 DEF BucketInv
  <2>1. bucket[l][k].tokens \in 0..Burst[l] /\ bucket[l][k].last <= eclock
    BY <1>1 DEF BucketInv
  <2>2. bucket[l][k].last \in Int
    BY <1>3 DEF Bucket
  <2>. QED
    BY <2>1, <2>2, <1>2, <1>3
<1>6. PaidInv' /\ \A m, j : Paid(m, j)' = Paid(m, j)
  BY <1>1, <1>2, PaidUntouched
<1>7. WindowInv'
  <2>. SUFFICES ASSUME NEW c \in charges
                PROVE  (Paid(c.limiter, c.key) - c.sum) + Cost[c.limiter]
                          + Avail(c.limiter, c.key)' <= Burst[c.limiter] + (eclock' - c.at)
    BY <1>2, <1>6 DEF WindowInv
  <2>1. c.limiter \in Limiters /\ c.key \in BucketKeys /\ c.sum \in Int /\ c.at \in Int
    BY <1>3 DEF Charge
  <2>2. Paid(c.limiter, c.key) \in Int
    BY <1>1, <2>1, PaidFacts
  <2>3. (Paid(c.limiter, c.key) - c.sum) + Cost[c.limiter] + Avail(c.limiter, c.key)
           <= Burst[c.limiter] + (eclock - c.at)
    BY <1>1 DEF WindowInv
  <2>. QED
    BY <2>1, <2>2, <2>3, <1>2, <1>3, <1>4
<1>8. PromiseInv'
  <2>. SUFFICES ASSUME NEW p \in promise
                PROVE  \/ Avail(p.limiter, p.key)' >= Cost[p.limiter]
                       \/ Avail(p.limiter, p.key)' + (p.at - eclock') >= Cost[p.limiter]
    BY <1>2 DEF PromiseInv
  <2>1. p.limiter \in Limiters /\ p.key \in BucketKeys /\ p.at \in Int
    BY <1>3 DEF Promise
  <2>2. \/ Avail(p.limiter, p.key) >= Cost[p.limiter]
        \/ Avail(p.limiter, p.key) + (p.at - eclock) >= Cost[p.limiter]
    BY <1>1 DEF PromiseInv
  <2>. QED
    BY <2>1, <2>2, <1>2, <1>3, <1>4
<1>9. RateIsBounded' /\ PayersAreReal'
  BY <1>1, <1>2 DEF RateIsBounded, PayersAreReal
<1>10. LimiterType'
  BY <1>1, <1>2 DEF EdgeTypeOK, LimiterType
<1>. QED
  BY <1>5, <1>6, <1>7, <1>8, <1>9, <1>10 DEF LimiterInv

\* Steps that touch no bucket.
LEMMA LimiterUntouched ==
    ASSUME EdgeInv, UNCHANGED <<eclock, bucket, lastSweep, charges, promise>>
    PROVE  LimiterInv'
<1>1. \A l, k : Avail(l, k)' = Avail(l, k)
  BY DEF Avail, Refilled
<1>2. PaidInv' /\ \A l, k : Paid(l, k)' = Paid(l, k)
  BY PaidUntouched DEF EdgeInv
<1>3. BucketInv' /\ WindowInv' /\ PromiseInv'
  BY <1>1, <1>2 DEF EdgeInv, BucketInv, WindowInv, PromiseInv
<1>4. RateIsBounded' /\ PayersAreReal' /\ LimiterType'
  BY DEF EdgeInv, EdgeTypeOK, RateIsBounded, PayersAreReal, LimiterType
<1>. QED
  BY <1>2, <1>3, <1>4 DEF LimiterInv

-----------------------------------------------------------------------------
(* Steps of a request *)

\* The chains of NewRouter and registerMCPRoutes, gate by gate.
LEMMA StageFacts ==
    ASSUME NEW s \in Stages
    PROVE  /\ s \in Seq(Limiters \cup Guards)
           /\ s # <<>> => /\ Tail(s) \in Stages /\ Head(s) \in Limiters \cup Guards
                          /\ Tail(s) = <<"mcp">> => Head(s) = "MCPAuth"
                          /\ Head(s) = "mcp" => s = <<"mcp">>
<1>. DEFINE G == Limiters \cup Guards
<1>1. s \in Seq(G)
  <2>1. {"api", "expensive", "oauth", "preauth", "mcp", "AdminAuth", "SessionAuth",
         "BrowserWriteAuth", "MCPAuth"} \subseteq G
    BY DEF Limiters, Guards
  <2>2. /\ <<>> \in Seq(G) /\ \A a \in G : <<a>> \in Seq(G)
        /\ \A a, b \in G : <<a, b>> \in Seq(G)
        /\ \A a, b, c \in G : <<a, b, c>> \in Seq(G)
    <3>. HIDE DEF G
    <3>. QED
      OBVIOUS
  <2>. HIDE DEF G
  <2>3. {<<>>, <<"api">>, <<"oauth">>, <<"AdminAuth">>, <<"SessionAuth">>,
         <<"BrowserWriteAuth">>, <<"mcp">>} \subseteq Seq(G)
    BY <2>1, <2>2
  <2>4. {<<"api", "AdminAuth">>, <<"api", "SessionAuth">>, <<"api", "BrowserWriteAuth">>,
         <<"expensive", "SessionAuth">>, <<"expensive", "BrowserWriteAuth">>,
         <<"MCPAuth", "mcp">>} \subseteq Seq(G)
    BY <2>1, <2>2
  <2>5. {<<"api", "expensive", "SessionAuth">>, <<"api", "expensive", "BrowserWriteAuth">>,
         <<"preauth", "MCPAuth", "mcp">>} \subseteq Seq(G)
    BY <2>1, <2>2
  <2>. QED
    BY <2>3, <2>4, <2>5, Zenon DEF Stages
<1>2. CASE s = <<>>
  BY <1>1, <1>2
<1>3. CASE s \in {<<"api">>, <<"oauth">>, <<"AdminAuth">>, <<"SessionAuth">>,
                  <<"BrowserWriteAuth">>, <<"mcp">>}
  <2>1. \A a : Head(<<a>>) = a /\ Tail(<<a>>) = <<>> /\ <<>> # <<a>>
    OBVIOUS
  <2>2. Tail(s) = <<>> /\ Tail(s) # <<"mcp">> /\ <<Head(s)>> = s
    BY <1>3, <2>1
  <2>3. Head(s) \in {"api", "oauth", "AdminAuth", "SessionAuth", "BrowserWriteAuth", "mcp"}
    BY <1>3, <2>1
  <2>4. <<>> \in Stages
    BY DEF Stages
  <2>. QED
    BY <1>1, <2>2, <2>3, <2>4 DEF Limiters, Guards
<1>4. CASE s \in {<<"api", "AdminAuth">>, <<"api", "SessionAuth">>,
                  <<"api", "BrowserWriteAuth">>, <<"expensive", "SessionAuth">>,
                  <<"expensive", "BrowserWriteAuth">>, <<"MCPAuth", "mcp">>}
  <2>1. \A a, b : Head(<<a, b>>) = a /\ Tail(<<a, b>>) = <<b>>
    OBVIOUS
  <2>2. \/ /\ Head(s) \in {"api", "expensive"}
           /\ Tail(s) \in {<<"AdminAuth">>, <<"SessionAuth">>, <<"BrowserWriteAuth">>}
        \/ Head(s) = "MCPAuth" /\ Tail(s) = <<"mcp">>
    BY <1>4, <2>1
  <2>3. Tail(s) \in Stages
    BY <2>2 DEF Stages
  <2>4. <<"mcp">> \notin {<<"AdminAuth">>, <<"SessionAuth">>, <<"BrowserWriteAuth">>}
    OBVIOUS
  <2>. QED
    BY <1>1, <2>2, <2>3, <2>4 DEF Limiters, Guards
<1>5. ASSUME NEW a, NEW b, NEW c, s = <<a, b, c>>, a \in {"api", "preauth"},
             <<b, c>> \in Stages
      PROVE  Tail(s) \in Stages /\ Head(s) \in {"api", "preauth"} /\ Tail(s) # <<"mcp">>
  <2>1. Head(s) = a /\ Tail(s) = <<b, c>>
    BY <1>5
  <2>2. Len(<<b, c>>) = 2 /\ Len(<<"mcp">>) = 1
    OBVIOUS
  <2>. QED
    BY <1>5, <2>1, <2>2
<1>6. CASE s \in {<<"api", "expensive", "SessionAuth">>,
                  <<"api", "expensive", "BrowserWriteAuth">>,
                  <<"preauth", "MCPAuth", "mcp">>}
  <2>1. {<<"expensive", "SessionAuth">>, <<"expensive", "BrowserWriteAuth">>,
         <<"MCPAuth", "mcp">>} \subseteq Stages
    BY DEF Stages
  <2>2. Tail(s) \in Stages /\ Head(s) \in {"api", "preauth"} /\ Tail(s) # <<"mcp">>
    <3>1. CASE s = <<"api", "expensive", "SessionAuth">>
      BY <3>1, <2>1, <1>5
    <3>2. CASE s = <<"api", "expensive", "BrowserWriteAuth">>
      BY <3>2, <2>1, <1>5
    <3>3. CASE s = <<"preauth", "MCPAuth", "mcp">>
      BY <3>3, <2>1, <1>5
    <3>. QED
      BY <3>1, <3>2, <3>3, <1>6
  <2>. QED
    BY <1>1, <2>2 DEF Limiters, Guards
<1>. QED
  BY <1>2, <1>3, <1>4, <1>6 DEF Stages

\* A request starts before all gates of its route, never at its bucket.
LEMMA ChainIsStage ==
    ASSUME NEW route \in Routes
    PROVE  Chain(route) \in Stages /\ Chain(route) # <<"mcp">>
  BY DEF Chain, Routes, Stages

\* A request before a bucket may be charged to its key.
LEMMA KeyIsGood ==
    ASSUME GateInv, NEW q \in EReqs, AtGate(q, Limiters)
    PROVE  LET l == Head(gates[q])  k == KeyOf(l, ereq[q]) IN
           /\ ereq[q] \in Arrivals /\ l \in Limiters /\ k \in BucketKeys
           /\ ereq[q].from \in Addrs
           /\ IF l = "mcp" THEN k \in Real ELSE ereq[q].from = k
<1>. DEFINE l == Head(gates[q])
<1>1. gates[q] # <<>> /\ l \in Limiters /\ gates[q] \in Stages /\ ereq[q] \in Arrivals
  BY DEF AtGate, GateInv
<1>2. clientIP(ereq[q]) = ereq[q].from /\ ereq[q].from \in Addrs
  BY <1>1, ClientIsCaller
<1>3. CASE l = "mcp"
  <2>1. gates[q] = <<"mcp">>
    BY <1>1, <1>3, StageFacts
  <2>2. ereq[q].bearer \in Real \cap Bearers
    BY <2>1 DEF GateInv
  <2>. QED
    BY <1>1, <1>2, <1>3, <2>2 DEF KeyOf, BucketKeys
<1>4. CASE l # "mcp"
  BY <1>1, <1>2, <1>4 DEF KeyOf, BucketKeys
<1>. QED
  BY <1>3, <1>4

\* The types of what belongs to requests.
RequestType ==
    /\ eclock \in Nat /\ arrived \in Nat /\ traffic \in Traffics
    /\ ereq \in [EReqs -> Arrivals \cup {Vacant}]
    /\ gates \in [EReqs -> Seq(Limiters \cup Guards)]

\* A request moves one gate on, MCPAuth's only with an accepted token.
LEMMA PassKeeps ==
    ASSUME EdgeTypeOK, GateInv, NEW q \in EReqs, gates[q] # <<>>, Pass(q),
           Head(gates[q]) = "MCPAuth" => ereq[q].bearer \in Real \cap Bearers
    PROVE  RequestType' /\ GateInv'
<1>1. /\ gates' = [gates EXCEPT ![q] = Tail(@)] /\ ereq' = ereq /\ eclock' = eclock
      /\ arrived' = arrived /\ traffic' = traffic
  BY DEF Pass
<1>2. /\ gates[q] \in Stages /\ Tail(gates[q]) \in Stages
      /\ Tail(gates[q]) \in Seq(Limiters \cup Guards)
      /\ Tail(gates[q]) = <<"mcp">> => Head(gates[q]) = "MCPAuth"
  BY StageFacts DEF GateInv
<1>3. gates \in [EReqs -> Seq(Limiters \cup Guards)]
  BY DEF EdgeTypeOK
<1>4. RequestType'
  BY <1>1, <1>2, <1>3 DEF RequestType, EdgeTypeOK
<1>5. GateInv'
  <2>. SUFFICES ASSUME NEW p \in EReqs
                PROVE  /\ gates'[p] \in Stages
                       /\ gates'[p] # <<>> => ereq[p] \in Arrivals
                       /\ gates'[p] = <<"mcp">> => ereq[p].bearer \in Real \cap Bearers
    BY <1>1 DEF GateInv, Real
  <2>1. CASE p # q
    BY <2>1, <1>1, <1>3 DEF GateInv
  <2>2. CASE p = q
    <3>1. gates'[p] = Tail(gates[q])
      BY <2>2, <1>1, <1>3
    <3>2. ereq[q] \in Arrivals
      BY DEF GateInv
    <3>. QED
      BY <2>2, <3>1, <3>2, <1>2
  <2>. QED
    BY <2>1, <2>2
<1>. QED
  BY <1>4, <1>5

\* A request that is answered stands before no gate any more.
LEMMA AnswerKeeps ==
    ASSUME EdgeTypeOK, GateInv, NEW q \in EReqs, SendReply(q)
    PROVE  RequestType' /\ GateInv'
<1>1. /\ gates' = [gates EXCEPT ![q] = <<>>] /\ ereq' = [ereq EXCEPT ![q] = Vacant]
      /\ eclock' = eclock /\ arrived' = arrived /\ traffic' = traffic
  BY DEF SendReply
<1>2. /\ gates \in [EReqs -> Seq(Limiters \cup Guards)]
      /\ ereq \in [EReqs -> Arrivals \cup {Vacant}]
  BY DEF EdgeTypeOK
<1>3. <<>> \in Stages /\ <<>> # <<"mcp">> /\ <<>> \in Seq(Limiters \cup Guards)
  BY DEF Stages
<1>4. RequestType'
  BY <1>1, <1>2, <1>3 DEF RequestType, EdgeTypeOK
<1>5. GateInv'
  <2>. SUFFICES ASSUME NEW p \in EReqs
                PROVE  /\ gates'[p] \in Stages
                       /\ gates'[p] # <<>> => ereq'[p] \in Arrivals
                       /\ gates'[p] = <<"mcp">> => ereq'[p].bearer \in Real \cap Bearers
    BY DEF GateInv, Real
  <2>1. CASE p # q
    BY <2>1, <1>1, <1>2 DEF GateInv
  <2>2. CASE p = q
    BY <2>2, <1>1, <1>2, <1>3
  <2>. QED
    BY <2>1, <2>2
<1>. QED
  BY <1>4, <1>5

-----------------------------------------------------------------------------
(* The theorem *)

\* The invariant from its two halves, the requests' and the limiters'.
LEMMA InvParts ==
    ASSUME RequestType, GateInv, LimiterInv
    PROVE  EdgeInv
  BY DEF RequestType, LimiterInv, LimiterType, EdgeTypeOK, EdgeInv

\* The same for the state after a step.
LEMMA InvPartsNext ==
    ASSUME RequestType', GateInv', LimiterInv'
    PROVE  EdgeInv'
  BY DEF RequestType, LimiterInv, LimiterType, EdgeTypeOK, EdgeInv

\* A process starts without buckets (NewRateLimiter).
LEMMA EdgeInitially ==
    ASSUME EdgeInit
    PROVE  EdgeInv
<1>1. RequestType
  BY DEF EdgeInit, RequestType
<1>2. GateInv
  <2>1. <<>> \in Stages /\ <<>> # <<"mcp">>
    BY DEF Stages
  <2>. QED
    BY <2>1 DEF EdgeInit, GateInv
<1>3. LimiterInv
  <2>1. LimiterType
    BY LimiterAssumption DEF EdgeInit, LimiterType
  <2>2. /\ \A l \in Limiters, k \in BucketKeys : bucket[l][k] = NoBucket
        /\ charges = {} /\ promise = {}
    BY DEF EdgeInit
  <2>3. PaidInv
    <3>1. \A l, k : Sums(l, k) = {0} /\ Paid(l, k) = Max({0})
      BY <2>2 DEF Sums, Paid
    <3>2. Max({0}) = 0
      BY MaxIs
    <3>. QED
      BY <3>1, <3>2 DEF PaidInv
  <2>. QED
    BY <2>1, <2>2, <2>3
       DEF LimiterInv, BucketInv, WindowInv, PromiseInv, RateIsBounded, PayersAreReal
<1>. QED
  BY <1>1, <1>2, <1>3, InvParts

\* A new request touches no bucket (NewRouter).
LEMMA ArriveKeeps ==
    ASSUME EdgeInv, NEW q \in EReqs, NEW r \in traffic, Arrive(q, r)
    PROVE  EdgeInv'
<1>1. /\ gates' = [gates EXCEPT ![q] = Chain(r.route)] /\ ereq' = [ereq EXCEPT ![q] = r]
      /\ arrived' = arrived + 1
      /\ UNCHANGED <<eclock, traffic, bucket, lastSweep, charges, promise>>
  BY DEF Arrive
<1>2. /\ gates \in [EReqs -> Seq(Limiters \cup Guards)] /\ arrived \in Nat
      /\ ereq \in [EReqs -> Arrivals \cup {Vacant}] /\ traffic \in Traffics /\ eclock \in Nat
  BY DEF EdgeInv, EdgeTypeOK
<1>3. r \in Arrivals /\ r.route \in Routes
  BY <1>2, ArrivalAssumption DEF Arrivals
<1>4. /\ Chain(r.route) \in Stages /\ Chain(r.route) # <<"mcp">>
      /\ Chain(r.route) \in Seq(Limiters \cup Guards)
  BY <1>3, ChainIsStage, StageFacts
<1>5. RequestType'
  BY <1>1, <1>2, <1>3, <1>4 DEF RequestType
<1>6. GateInv'
  <2>. SUFFICES ASSUME NEW p \in EReqs
                PROVE  /\ gates'[p] \in Stages
                       /\ gates'[p] # <<>> => ereq'[p] \in Arrivals
                       /\ gates'[p] = <<"mcp">> => ereq'[p].bearer \in Real \cap Bearers
    BY DEF GateInv, Real
  <2>1. CASE p # q
    BY <2>1, <1>1, <1>2 DEF EdgeInv, GateInv
  <2>2. CASE p = q
    BY <2>2, <1>1, <1>2, <1>3, <1>4
  <2>. QED
    BY <2>1, <2>2
<1>7. LimiterInv'
  BY <1>1, LimiterUntouched
<1>. QED
  BY <1>5, <1>6, <1>7, InvPartsNext

\* The middleware takes a token or answers 429 (RateLimit).
LEMMA RateLimitKeeps ==
    ASSUME EdgeInv, NEW q \in EReqs, RateLimit(q)
    PROVE  EdgeInv'
<1>. DEFINE l == Head(gates[q])
            k == KeyOf(l, ereq[q])
<1>1. EdgeTypeOK /\ GateInv
  BY DEF EdgeInv
<1>2. AtGate(q, Limiters) /\ gates[q] # <<>> /\ l # "MCPAuth"
  BY DEF RateLimit, AtGate, Limiters
<1>3. /\ l \in Limiters /\ k \in BucketKeys /\ ereq[q].from \in Addrs
      /\ IF l = "mcp" THEN k \in Real ELSE ereq[q].from = k
  BY <1>1, <1>2, KeyIsGood
<1>4. CASE Allow(l, k, ereq[q].from) /\ Pass(q)
  <2>1. RequestType' /\ GateInv'
    BY <1>1, <1>2, <1>4, PassKeeps
  <2>2. eclock' = eclock
    BY <1>4 DEF Pass
  <2>3. LimiterInv'
    <3>. HIDE DEF l, k
    <3>. QED
      BY <1>3, <1>4, <2>2, AllowKeeps
  <2>. QED
    BY <2>1, <2>3, InvPartsNext
<1>5. CASE Refuse(l, k) /\ SendReply(q)
  <2>1. RequestType' /\ GateInv'
    BY <1>1, <1>5, AnswerKeeps
  <2>2. eclock' = eclock
    BY <1>5 DEF SendReply
  <2>3. LimiterInv'
    <3>. HIDE DEF l, k
    <3>. QED
      BY <1>3, <1>5, <2>2, RefuseKeeps
  <2>. QED
    BY <2>1, <2>3, InvPartsNext
<1>. QED
  BY <1>4, <1>5 DEF RateLimit

\* The guards touch no bucket, and MCPAuth lets only accepted tokens on.
LEMMA AuthenticateKeeps ==
    ASSUME EdgeInv, NEW q \in EReqs, Authenticate(q)
    PROVE  EdgeInv'
<1>. DEFINE g == Head(gates[q])
<1>1. EdgeTypeOK /\ GateInv /\ gates[q] # <<>> /\ ereq[q] \in Arrivals
  BY DEF EdgeInv, Authenticate, AtGate, GateInv
<1>2. PICK valid \in BOOLEAN : IF Admits(g, ereq[q], valid) THEN Pass(q) ELSE SendReply(q)
  BY DEF Authenticate
<1>3. eclock' = eclock /\ RequestType' /\ GateInv'
  <2>1. CASE Admits(g, ereq[q], valid)
    <3>1. g = "MCPAuth" => ereq[q].bearer \in Real \cap Bearers
      <4>. SUFFICES ASSUME g = "MCPAuth" PROVE ereq[q].bearer \in Real \cap Bearers
        OBVIOUS
      <4>1. MCPAuth(ereq[q], valid)
        BY <2>1 DEF Admits
      <4>2. ereq[q].bearer \in Bearers \cup {NoBearer}
        BY <1>1, ArrivalAssumption
      <4>. QED
        BY <4>1, <4>2 DEF MCPAuth, matchMCPKey, Real
    <3>2. Pass(q)
      BY <1>2, <2>1
    <3>. QED
      BY <1>1, <3>1, <3>2, PassKeeps DEF Pass
  <2>2. CASE ~Admits(g, ereq[q], valid)
    BY <1>1, <1>2, <2>2, AnswerKeeps DEF SendReply
  <2>. QED
    BY <2>1, <2>2
<1>4. LimiterInv'
  BY <1>3, LimiterUntouched DEF Authenticate
<1>. QED
  BY <1>3, <1>4, InvPartsNext

\* Every step keeps the invariant.
LEMMA EdgeStep ==
    ASSUME EdgeInv, [EdgeNext]_edgeVars
    PROVE  EdgeInv'
<1>1. CASE \E q \in EReqs, r \in traffic : Arrive(q, r)
  BY <1>1, ArriveKeeps
<1>2. CASE \E q \in EReqs : RateLimit(q)
  BY <1>2, RateLimitKeeps
<1>3. CASE \E q \in EReqs : Authenticate(q)
  BY <1>3, AuthenticateKeeps
<1>4. CASE \E q \in EReqs : Handled(q)
  <2>1. PICK q \in EReqs : Handled(q)
    BY <1>4
  <2>2. /\ SendReply(q) /\ eclock' = eclock
        /\ UNCHANGED <<bucket, lastSweep, charges, promise>>
    BY <2>1 DEF Handled, SendReply
  <2>3. RequestType' /\ GateInv'
    BY <2>2, AnswerKeeps DEF EdgeInv
  <2>4. LimiterInv'
    BY <2>2, LimiterUntouched
  <2>. QED
    BY <2>3, <2>4, InvPartsNext
<1>5. CASE EdgeTick
  <2>1. RequestType' /\ GateInv'
    BY <1>5 DEF EdgeTick, EdgeInv, EdgeTypeOK, RequestType, GateInv, Real
  <2>. QED
    BY <1>5, <2>1, TickKeeps, InvPartsNext
<1>6. CASE UNCHANGED edgeVars
  <2>1. RequestType' /\ GateInv'
    BY <1>6 DEF edgeVars, EdgeInv, EdgeTypeOK, RequestType, GateInv, Real
  <2>2. LimiterInv'
    BY <1>6, LimiterUntouched DEF edgeVars
  <2>. QED
    BY <2>1, <2>2, InvPartsNext
<1>. QED
  BY <1>1, <1>2, <1>3, <1>4, <1>5, <1>6 DEF EdgeNext

\* A promise whose time has come is a token that is there (RateLimit).
LEMMA RetriesFollow ==
    ASSUME EdgeInv
    PROVE  RetrySuffices
<1>. SUFFICES ASSUME NEW p \in promise, p.at <= eclock
              PROVE  Level(p.limiter, p.key) >= Cost[p.limiter]
  BY DEF RetrySuffices
<1>. DEFINE l == p.limiter
            k == p.key
<1>1. EdgeTypeOK /\ BucketInv /\ PromiseInv
  BY DEF EdgeInv
<1>2. l \in Limiters /\ k \in BucketKeys /\ p.at \in Int /\ eclock \in Int
  BY <1>1 DEF EdgeTypeOK, Promise
<1>3. Level(l, k) = Avail(l, k) /\ Avail(l, k) \in Int /\ Cost[l] \in Int
  <2>. HIDE DEF l, k
  <2>. QED
    BY <1>1, <1>2, AvailType, LevelIsAvail
<1>4. Avail(l, k) >= Cost[l] \/ Avail(l, k) + (p.at - eclock) >= Cost[l]
  BY <1>1 DEF PromiseInv
<1>. QED
  BY <1>2, <1>3, <1>4

\* Every limiter gives out no more than its burst and what time earns, lets in
\* who waited as Retry-After said, and charges nobody for another's requests:
\* for every rate, burst, sweep interval, set of keys and number of requests.
THEOREM LimitsAlwaysHold == EdgeSpec => []LimitsHold
<1>1. EdgeInit => EdgeInv
  BY EdgeInitially
<1>2. EdgeInv /\ [EdgeNext]_edgeVars => EdgeInv'
  BY EdgeStep
<1>3. EdgeInv => LimitsHold
  BY RetriesFollow DEF EdgeInv, LimitsHold
<1>. QED
  BY <1>1, <1>2, <1>3, PTL DEF EdgeSpec

-----------------------------------------------------------------------------
(* Boots and the import: shapes                                            *)

ImportRows == [seq : Nat, from : {"src", "app"}]
Found == Keys \cup Versions \cup ImportRows

Labels == {"down", "load", "apply", "record", "loadKey", "insertKey", "reloadKey",
           "up", "failed", "clear", "copy", "verify", "done", "refused"}

\* What a process is, field by field.
Process ==
    [pc : Labels, role : {"serve", "import"}, todo : SUBSET Versions, key : Keys, force : BOOLEAN,
     gone : SUBSET Found, alarm : BOOLEAN]

\* An import is at one of the three tables, and copies only a table the source
\* has.
BootShape ==
    /\ driver \in {"sqlite", "pg"} /\ have \subseteq Structures
    /\ versions \subseteq Versions /\ storedKey \in Keys
    /\ rows \subseteq ImportRows /\ nextSeq \in Nat
    /\ src.versions \subseteq Versions /\ src.key \in Keys
    /\ src.rows \subseteq Nat /\ IsFiniteSet(src.rows)
    /\ boots \in Nat /\ warned \subseteq Versions
    /\ overlapped \subseteq Procs /\ keySwapped \subseteq Procs /\ quiet \subseteq Procs
    /\ proc \in [Procs -> Process]
    /\ \A p \in Procs :
          /\ proc[p].pc \in {"clear", "copy", "verify"} => proc[p].todo \in {{1}, {2}, {3}}
          /\ proc[p].pc = "record" => proc[p].todo # {}
          /\ proc[p].pc = "copy" /\ proc[p].todo = {1} => src.key # NoKey

\* One step of one process.
BootAct(p) ==
    \/ \E role \in {"serve", "import"}, force \in BOOLEAN : Start(p, role, force)
    \/ Crash(p) \/ LoadVersions(p) \/ ApplyStep(p) \/ RecordStep(p)
    \/ OwnSchemas(p) \/ LoadKey(p) \/ InsertKey(p) \/ AppInsert(p)
    \/ Preflight(p) \/ ClearTable(p) \/ CopyTable(p) \/ VerifyTable(p)

\* Steps are taken in the order of their numbers.
LEMMA NextIsLeast ==
    ASSUME NEW p, proc[p].todo \subseteq Versions, proc[p].todo # {}
    PROVE  NextVersion(p) \in proc[p].todo
<1>1. \E v \in proc[p].todo : \A w \in proc[p].todo : v <= w
  <2>1. CASE 1 \in proc[p].todo
      BY <2>1 DEF Versions
  <2>2. CASE 1 \notin proc[p].todo /\ 2 \in proc[p].todo
      BY <2>2 DEF Versions
  <2>3. CASE 1 \notin proc[p].todo /\ 2 \notin proc[p].todo /\ 3 \in proc[p].todo
      BY <2>3 DEF Versions
  <2>4. CASE proc[p].todo \cap {1, 2, 3} = {} /\ 4 \in proc[p].todo
      BY <2>4 DEF Versions
  <2>5. CASE proc[p].todo = {5}
      BY <2>5
  <2> QED
      BY <2>1, <2>2, <2>3, <2>4, <2>5 DEF Versions
<1> QED
    BY <1>1 DEF NextVersion

LEMMA NextOfOne ==
    ASSUME NEW p, NEW i, proc[p].todo = {i}, i \in Versions
    PROVE  NextVersion(p) = i
    BY NextIsLeast

\* Where an import is.
LEMMA TableAt ==
    ASSUME NEW p
    PROVE  /\ proc[p].todo = {1} => NextVersion(p) = 1 /\ At(p) = "key"
           /\ proc[p].todo = {2} => NextVersion(p) = 2 /\ At(p) = "versions"
           /\ proc[p].todo = {3} => NextVersion(p) = 3 /\ At(p) = "rows"
<1>1. 1 \in Versions /\ 2 \in Versions /\ 3 \in Versions
    BY DEF Versions
<1>2. ImportTables[1] = "key" /\ ImportTables[2] = "versions" /\ ImportTables[3] = "rows"
    BY DEF ImportTables
<1> QED
    BY <1>1, <1>2, NextOfOne DEF At

LEMMA DownIsProcess ==
    /\ Down \in Process
    /\ Down.pc = "down" /\ Down.todo = {} /\ Down.role = "serve" /\ ~Down.force /\ ~Down.alarm
    BY DEF Down, Process, Keys, Labels

\* A process some of whose fields are set is a process again, and the other
\* fields are what they were.
LEMMA Labelled ==
    ASSUME proc \in [Procs -> Process], NEW p \in Procs, NEW label \in Labels,
           proc' = [proc EXCEPT ![p].pc = label]
    PROVE  /\ proc' \in [Procs -> Process] /\ proc'[p].pc = label
           /\ proc'[p].role = proc[p].role /\ proc'[p].todo = proc[p].todo /\ proc'[p].key = proc[p].key
           /\ proc'[p].force = proc[p].force /\ proc'[p].gone = proc[p].gone /\ proc'[p].alarm = proc[p].alarm
<1>1. proc' \in [Procs -> Process]
    BY DEF Process
<1> QED
    BY <1>1 DEF Process

LEMMA LabelledTodo ==
    ASSUME proc \in [Procs -> Process], NEW p \in Procs, NEW label \in Labels,
           NEW todo \in SUBSET Versions,
           proc' = [proc EXCEPT ![p].pc = label, ![p].todo = todo]
    PROVE  /\ proc' \in [Procs -> Process] /\ proc'[p].pc = label /\ proc'[p].todo = todo
           /\ proc'[p].role = proc[p].role /\ proc'[p].key = proc[p].key /\ proc'[p].force = proc[p].force
           /\ proc'[p].gone = proc[p].gone /\ proc'[p].alarm = proc[p].alarm
<1>1. PICK s \in [Procs -> Process] : s = [proc EXCEPT ![p].pc = label]
    BY DEF Process
<1>2. /\ s[p].pc = label
      /\ s[p].role = proc[p].role /\ s[p].key = proc[p].key /\ s[p].force = proc[p].force
      /\ s[p].gone = proc[p].gone /\ s[p].alarm = proc[p].alarm
    BY <1>1 DEF Process
<1>3. proc' = [s EXCEPT ![p].todo = todo]
    BY <1>1
<1>4. [s[p] EXCEPT !.todo = todo] \in Process
    BY DEF Process
<1>5. proc' \in [Procs -> Process]
    BY <1>3, <1>4
<1> QED
    BY <1>2, <1>3, <1>5 DEF Process

LEMMA LabelledGone ==
    ASSUME proc \in [Procs -> Process], NEW p \in Procs, NEW label \in Labels,
           NEW gone \in SUBSET Found,
           proc' = [proc EXCEPT ![p].pc = label, ![p].gone = gone]
    PROVE  /\ proc' \in [Procs -> Process] /\ proc'[p].pc = label /\ proc'[p].gone = gone
           /\ proc'[p].role = proc[p].role /\ proc'[p].todo = proc[p].todo /\ proc'[p].key = proc[p].key
           /\ proc'[p].force = proc[p].force /\ proc'[p].alarm = proc[p].alarm
<1>1. PICK s \in [Procs -> Process] : s = [proc EXCEPT ![p].pc = label]
    BY DEF Process
<1>2. /\ s[p].pc = label
      /\ s[p].role = proc[p].role /\ s[p].todo = proc[p].todo /\ s[p].key = proc[p].key
      /\ s[p].force = proc[p].force /\ s[p].alarm = proc[p].alarm
    BY <1>1 DEF Process
<1>3. proc' = [s EXCEPT ![p].gone = gone]
    BY <1>1
<1>4. [s[p] EXCEPT !.gone = gone] \in Process
    BY DEF Process
<1>5. proc' \in [Procs -> Process]
    BY <1>3, <1>4
<1> QED
    BY <1>2, <1>3, <1>5 DEF Process

LEMMA LabelledAlarm ==
    ASSUME proc \in [Procs -> Process], NEW p \in Procs, NEW label \in Labels,
           NEW alarm \in BOOLEAN,
           proc' = [proc EXCEPT ![p].pc = label, ![p].alarm = alarm]
    PROVE  /\ proc' \in [Procs -> Process] /\ proc'[p].pc = label /\ proc'[p].alarm = alarm
           /\ proc'[p].role = proc[p].role /\ proc'[p].todo = proc[p].todo /\ proc'[p].key = proc[p].key
           /\ proc'[p].force = proc[p].force /\ proc'[p].gone = proc[p].gone
<1>1. PICK s \in [Procs -> Process] : s = [proc EXCEPT ![p].pc = label]
    BY DEF Process
<1>2. /\ s[p].pc = label
      /\ s[p].role = proc[p].role /\ s[p].todo = proc[p].todo /\ s[p].key = proc[p].key
      /\ s[p].force = proc[p].force /\ s[p].gone = proc[p].gone
    BY <1>1 DEF Process
<1>3. proc' = [s EXCEPT ![p].alarm = alarm]
    BY <1>1
<1>4. [s[p] EXCEPT !.alarm = alarm] \in Process
    BY DEF Process
<1>5. proc' \in [Procs -> Process]
    BY <1>3, <1>4
<1> QED
    BY <1>2, <1>3, <1>5 DEF Process

LEMMA LabelledKey ==
    ASSUME proc \in [Procs -> Process], NEW p \in Procs, NEW label \in Labels,
           NEW key \in Keys,
           proc' = [proc EXCEPT ![p].pc = label, ![p].key = key]
    PROVE  /\ proc' \in [Procs -> Process] /\ proc'[p].pc = label /\ proc'[p].key = key
           /\ proc'[p].role = proc[p].role /\ proc'[p].todo = proc[p].todo /\ proc'[p].force = proc[p].force
           /\ proc'[p].gone = proc[p].gone /\ proc'[p].alarm = proc[p].alarm
<1>1. PICK s \in [Procs -> Process] : s = [proc EXCEPT ![p].pc = label]
    BY DEF Process
<1>2. /\ s[p].pc = label
      /\ s[p].role = proc[p].role /\ s[p].todo = proc[p].todo /\ s[p].force = proc[p].force
      /\ s[p].gone = proc[p].gone /\ s[p].alarm = proc[p].alarm
    BY <1>1 DEF Process
<1>3. proc' = [s EXCEPT ![p].key = key]
    BY <1>1
<1>4. [s[p] EXCEPT !.key = key] \in Process
    BY DEF Process
<1>5. proc' \in [Procs -> Process]
    BY <1>3, <1>4
<1> QED
    BY <1>2, <1>3, <1>5 DEF Process

LEMMA Started ==
    ASSUME proc \in [Procs -> Process], NEW p \in Procs,
           NEW role \in {"serve", "import"}, NEW force \in BOOLEAN,
           proc' = [proc EXCEPT ![p] = [Down EXCEPT !.pc = "load", !.role = role, !.force = force]]
    PROVE  proc' \in [Procs -> Process] /\ proc'[p].pc = "load" /\ proc'[p].todo = {}
<1>1. PICK s : s = [Down EXCEPT !.pc = "load"]
    OBVIOUS
<1>2. s \in Process /\ s.pc = "load" /\ s.todo = {}
    BY <1>1 DEF Down, Process, Keys, Labels
<1>3. PICK t : t = [s EXCEPT !.role = role]
    OBVIOUS
<1>4. t \in Process /\ t.pc = "load" /\ t.todo = {}
    BY <1>2, <1>3 DEF Process
<1>5. PICK u : u = [t EXCEPT !.force = force]
    OBVIOUS
<1>6. u \in Process /\ u.pc = "load" /\ u.todo = {}
    BY <1>4, <1>5 DEF Process
<1>7. proc' = [proc EXCEPT ![p] = u]
    BY <1>1, <1>3, <1>5
<1> QED
    BY <1>6, <1>7

\* A boot that finds its version recorded ends in failure, and says which.
LEMMA Refused ==
    ASSUME proc \in [Procs -> Process], NEW p \in Procs, NEW todo \in SUBSET Versions,
           proc' = [proc EXCEPT ![p] = [Down EXCEPT !.pc = "failed", !.todo = todo]]
    PROVE  proc' \in [Procs -> Process] /\ proc'[p].pc = "failed" /\ proc'[p].todo = todo
<1>1. PICK s : s = [Down EXCEPT !.pc = "failed"]
    OBVIOUS
<1>2. s \in Process /\ s.pc = "failed"
    BY <1>1 DEF Down, Process, Keys, Labels
<1>3. PICK t : t = [s EXCEPT !.todo = todo]
    OBVIOUS
<1>4. t \in Process /\ t.pc = "failed" /\ t.todo = todo
    BY <1>2, <1>3 DEF Process
<1>5. proc' = [proc EXCEPT ![p] = t]
    BY <1>1, <1>3
<1> QED
    BY <1>4, <1>5

LEMMA FailShape ==
    ASSUME proc \in [Procs -> Process], NEW p \in Procs, Fail(p)
    PROVE  proc' \in [Procs -> Process] /\ proc'[p].pc = "failed" /\ proc'[p].todo = {}
<1>1. PICK s : s = [Down EXCEPT !.pc = "failed"]
    OBVIOUS
<1>2. s \in Process /\ s.pc = "failed" /\ s.todo = {}
    BY <1>1 DEF Down, Process, Keys, Labels
<1>3. proc' = [proc EXCEPT ![p] = s]
    BY <1>1 DEF Fail
<1> QED
    BY <1>2, <1>3

\* A process only ever moves itself.
LEMMA OthersStay ==
    ASSUME BootShape, NEW p \in Procs, BootAct(p), NEW q \in Procs, q # p
    PROVE  proc'[q] = proc[q]
<1> USE DEF BootShape
<1>1. CASE \E role \in {"serve", "import"}, force \in BOOLEAN : Start(p, role, force)
    BY <1>1 DEF Start
<1>2. CASE Crash(p) \/ LoadVersions(p) \/ RecordStep(p)
    BY <1>2 DEF Crash, LoadVersions, RecordStep
<1>3. CASE ApplyStep(p)
    BY <1>3 DEF ApplyStep, Fail
<1>4. CASE OwnSchemas(p) \/ LoadKey(p) \/ InsertKey(p) \/ AppInsert(p)
    BY <1>4 DEF OwnSchemas, LoadKey, InsertKey, AppInsert, Fail
<1>5. CASE Preflight(p) \/ ClearTable(p) \/ CopyTable(p) \/ VerifyTable(p)
    BY <1>5 DEF Preflight, ClearTable, CopyTable, VerifyTable, Fail
<1> QED
    BY <1>1, <1>2, <1>3, <1>4, <1>5 DEF BootAct

\* What an import may find in the table it is at.
LEMMA TargetShape ==
    ASSUME BootShape, NEW p \in Procs, proc[p].todo \in {{1}, {2}, {3}}
    PROVE  Target(At(p)) \subseteq Found
    BY TableAt DEF BootShape, Target, Found

\* The step keeps the process in its shape, and the import where it is.
LEMMA StepShape ==
    ASSUME BootAssumption, BootShape, NEW p \in Procs, BootAct(p)
    PROVE  /\ proc' \in [Procs -> Process]
           /\ proc'[p].pc \in {"clear", "copy", "verify"} => proc'[p].todo \in {{1}, {2}, {3}}
           /\ proc'[p].pc = "record" => proc'[p].todo # {}
           /\ proc'[p].pc = "copy" /\ proc'[p].todo = {1} => src.key # NoKey
<1>0. proc \in [Procs -> Process] /\ proc[p] \in Process /\ versions \subseteq Versions
    BY DEF BootShape
<1>1. ASSUME NEW role \in {"serve", "import"}, NEW force \in BOOLEAN, Start(p, role, force)
      PROVE  proc' \in [Procs -> Process] /\ proc'[p].pc = "load"
    BY <1>0, <1>1, Started DEF Start
<1>2. CASE Crash(p)
    BY <1>0, <1>2, DownIsProcess DEF Crash
<1>3. CASE LoadVersions(p)
  <2>1. PICK t \in SUBSET Versions : proc' = [proc EXCEPT ![p].pc = "apply", ![p].todo = t]
      BY <1>3 DEF LoadVersions
  <2> QED
      BY <1>0, <2>1, LabelledTodo DEF Labels
<1>4. CASE ApplyStep(p)
  <2>1. CASE Fail(p)
      BY <1>0, <2>1, FailShape
  <2>2. CASE proc' = [proc EXCEPT ![p].pc = "record"]
      BY <1>0, <1>4, <2>2, Labelled DEF ApplyStep, Labels
  <2> QED
      BY <1>4, <2>1, <2>2 DEF ApplyStep
<1>5. CASE RecordStep(p)
  <2>1. NextVersion(p) \in Versions
      BY <1>5, NextIsLeast DEF RecordStep, Process, BootShape
  <2>2. CASE NextVersion(p) \in versions
    <3>1. PICK t \in SUBSET Versions :
              proc' = [proc EXCEPT ![p] = [Down EXCEPT !.pc = "failed", !.todo = t]]
        BY <1>5, <2>1, <2>2 DEF RecordStep
    <3> QED
        BY <1>0, <3>1, Refused
  <2>3. CASE NextVersion(p) \notin versions
    <3>1. proc' = [proc EXCEPT ![p].pc = "apply", ![p].todo = proc[p].todo \ {NextVersion(p)}]
        BY <1>0, <1>5, <2>3, Labelled DEF RecordStep, Labels
    <3>2. PICK t \in SUBSET Versions : proc' = [proc EXCEPT ![p].pc = "apply", ![p].todo = t]
        BY <1>0, <3>1 DEF Process
    <3> QED
        BY <1>0, <3>2, LabelledTodo DEF Labels
  <2> QED
      BY <2>2, <2>3
<1>6. CASE OwnSchemas(p)
  <2>1. CASE Fail(p)
      BY <1>0, <2>1, FailShape
  <2>2. CASE proc' = [proc EXCEPT ![p].pc = "loadKey"]
      BY <1>0, <2>2, Labelled DEF Labels
  <2> QED
      BY <1>6, <2>1, <2>2 DEF OwnSchemas
<1>7. CASE LoadKey(p)
  <2>1. CASE Fail(p)
      BY <1>0, <2>1, FailShape
  <2>2. CASE proc' = [proc EXCEPT ![p].pc = "insertKey"]
      BY <1>0, <2>2, Labelled DEF Labels
  <2>3. CASE proc' = [proc EXCEPT ![p].pc = "up", ![p].key = storedKey]
      BY <1>0, <2>3, LabelledKey DEF Labels, BootShape
  <2> QED
      BY <1>7, <2>1, <2>2, <2>3 DEF LoadKey
<1>8. CASE InsertKey(p)
  <2>1. CASE proc' = [proc EXCEPT ![p].pc = "reloadKey"]
      BY <1>0, <2>1, Labelled DEF Labels
  <2>2. CASE proc' = [proc EXCEPT ![p].pc = "up", ![p].key = p]
      BY <1>0, <2>2, LabelledKey DEF Labels, Keys
  <2> QED
      BY <1>8, <2>1, <2>2 DEF InsertKey
<1>9. CASE AppInsert(p)
    BY <1>9 DEF AppInsert, BootShape
<1>10. CASE Preflight(p)
  <2>1. CASE proc' = [proc EXCEPT ![p].pc = "refused"]
      BY <1>0, <2>1, Labelled DEF Labels
  <2>2. CASE proc' = [proc EXCEPT ![p].pc = "clear", ![p].todo = {1}]
    <3>1. "clear" \in Labels
        BY DEF Labels
    <3>0. {1} \subseteq Versions
        BY DEF Versions
    <3>2. PICK t \in SUBSET Versions : t = {1}
        BY <3>0
    <3>3. proc' = [proc EXCEPT ![p].pc = "clear", ![p].todo = t]
        BY <2>2, <3>2
    <3>4. proc' \in [Procs -> Process] /\ proc'[p].pc = "clear" /\ proc'[p].todo = t
        BY <1>0, <3>3, LabelledTodo DEF Labels
    <3> QED
        BY <3>2, <3>4
  <2> QED
      BY <1>10, <2>1, <2>2 DEF Preflight
<1>11. CASE ClearTable(p)
  <2>1. Target(At(p)) \subseteq Found
      BY <1>11, TargetShape DEF ClearTable, BootShape
  <2>2. CASE InSource(At(p))
    <3>1. PICK gone \in SUBSET Found :
              proc' = [proc EXCEPT ![p].pc = "copy", ![p].gone = gone]
        BY <1>11, <2>1, <2>2 DEF ClearTable
    <3>2. proc[p].todo = {1} => src.key # NoKey
        BY <2>2, TableAt DEF InSource
    <3>3. proc[p].todo \in {{1}, {2}, {3}}
        BY <1>11 DEF ClearTable, BootShape
    <3> QED
        BY <1>0, <3>1, <3>2, <3>3, LabelledGone DEF Labels
  <2>3. CASE ~InSource(At(p))
    <3>1. proc[p].todo \in {{1}, {2}}
        BY <1>11, <2>3, TableAt DEF ClearTable, InSource, BootShape
    <3>2. PICK t \in {{2}, {3}} : proc' = [proc EXCEPT ![p].todo = t]
        BY <1>11, <2>3, <3>1, TableAt, 1 + 1 = 2, 2 + 1 = 3 DEF ClearTable
    <3>3. proc[p].pc = "clear" /\ t \in SUBSET Versions
        BY <1>11, <3>2 DEF ClearTable, Versions
    <3>4. proc' \in [Procs -> Process]
        BY <1>0, <3>2, <3>3 DEF Process
    <3>5. proc'[p].pc = "clear" /\ proc'[p].todo = t
        BY <1>0, <3>2, <3>3 DEF Process
    <3> QED
        BY <3>2, <3>4, <3>5
  <2> QED
      BY <2>2, <2>3
<1>12. CASE CopyTable(p)
  <2>1. CASE Fail(p)
      BY <1>0, <2>1, FailShape
  <2>2. CASE proc' = [proc EXCEPT ![p].pc = "verify", ![p].gone = {}]
    <3>1. proc[p].todo \in {{1}, {2}, {3}}
        BY <1>12 DEF CopyTable, BootShape
    <3>2. "verify" \in Labels
        BY DEF Labels
    <3>3. PICK gone \in SUBSET Found : proc' = [proc EXCEPT ![p].pc = "verify", ![p].gone = gone]
        BY <2>2
    <3>4. /\ proc' \in [Procs -> Process] /\ proc'[p].pc = "verify"
          /\ proc'[p].todo = proc[p].todo
        BY <1>0, <3>2, <3>3, LabelledGone
    <3> QED
        BY <3>1, <3>4
  <2> QED
      BY <1>12, <2>1, <2>2 DEF CopyTable
<1>13. CASE VerifyTable(p)
  <2>1. CASE At(p) = "rows"
    <3>1. PICK b \in BOOLEAN : proc' = [proc EXCEPT ![p].pc = "done", ![p].alarm = b]
        BY <1>13, <2>1 DEF VerifyTable
    <3> QED
        BY <1>0, <3>1, LabelledAlarm DEF Labels
  <2>2. CASE At(p) # "rows"
    <3>1. proc[p].todo \in {{1}, {2}}
        BY <1>13, <2>2, TableAt DEF VerifyTable, BootShape
    <3>2. PICK t \in {{2}, {3}} : proc' = [proc EXCEPT ![p].pc = "clear", ![p].todo = t]
        BY <1>13, <2>2, <3>1, TableAt, 1 + 1 = 2, 2 + 1 = 3 DEF VerifyTable
    <3>3. "clear" \in Labels
        BY DEF Labels
    <3>4. PICK u \in SUBSET Versions : u = t
        BY <3>2 DEF Versions
    <3>5. proc' = [proc EXCEPT ![p].pc = "clear", ![p].todo = u]
        BY <3>2, <3>4
    <3>6. proc' \in [Procs -> Process] /\ proc'[p].pc = "clear" /\ proc'[p].todo = u
        BY <1>0, <3>5, LabelledTodo DEF Labels
    <3> QED
        BY <3>2, <3>4, <3>6
  <2> QED
      BY <2>1, <2>2
<1> QED
    BY <1>1, <1>2, <1>3, <1>4, <1>5, <1>6, <1>7, <1>8, <1>9, <1>10, <1>11, <1>12, <1>13
       DEF BootAct

-----------------------------------------------------------------------------
(* Boots converge                                                          *)

\* What a migration leaves behind, or the warning that it was skipped.
Effect(v) ==
    /\ v = 1 => {"tables", "indexes"} \subseteq have
    /\ v = 2 /\ driver = "pg" => "defaults" \in have \/ 2 \in warned
    /\ v = 3 /\ driver = "pg" => "snapPK" \in have \/ 3 \in warned
    /\ v = 4 => NavColumns \subseteq have
    /\ v = 5 => "unique" \in have \/ 5 \in warned

Serving   == {"loadKey", "insertKey", "reloadKey", "up"}
Importing == {"clear", "copy", "verify"}

\* The migrations a process has seen to: recorded ones when it loaded them,
\* those it applied since.
Brought(p) ==
    {v \in Versions :
        \/ proc[p].pc \in {"apply", "record"} /\ v \notin proc[p].todo
        \/ proc[p].pc = "record" /\ v = NextVersion(p)
        \/ proc[p].pc \in Serving \cup Importing}

\* A recorded version was applied or its skipping warned of, and what a boot
\* has passed is there.
SchemaInv ==
    /\ \A v \in versions : Effect(v)
    /\ \A p \in Procs : \A v \in Brought(p) : Effect(v)
    /\ \A p \in Procs : proc[p].pc \in Serving /\ driver = "sqlite" => "own" \in have

\* Two boots that run at once are both marked as overlapped, so one that is
\* not finds no version recorded by others since it loaded them.
OverlapInv ==
    /\ \A p, q \in Procs : p # q /\ Booting(p) /\ Booting(q) => p \in overlapped
    /\ \A p \in Procs : proc[p].pc \in {"apply", "record"} /\ p \notin overlapped
                           => proc[p].todo \cap versions = {}
    /\ ConflictHasCause

\* A serving process has a key: the stored one, unless an import replaced that.
SigningInv ==
    \A p \in Procs : proc[p].pc = "up" =>
        proc[p].key # NoKey /\ (proc[p].key = storedKey \/ p \in keySwapped)

\* While nobody else writes rows, the import finds none it does not clear, and
\* leaves none that the source does not have.
ImportInv ==
    \A p \in quiet :
        /\ proc[p].pc \in Importing /\ proc[p].todo # {3} /\ ~proc[p].force => rows = {}
        /\ proc[p].pc = "clear" /\ ~proc[p].force => rows = {}
        /\ proc[p].pc = "copy" /\ proc[p].todo = {3} => rows \subseteq proc[p].gone
        /\ proc[p].pc = "verify" /\ proc[p].todo = {3} => rows \subseteq {SrcRow(i) : i \in src.rows}
        /\ proc[p].pc = "done" /\ ~proc[p].alarm => \A i \in src.rows : SrcRow(i) \in rows

\* Nothing a boot or an import does takes a structure or a warning back.
LEMMA Grows ==
    ASSUME BootShape, NEW p \in Procs, BootAct(p)
    PROVE  /\ have \subseteq have' /\ warned \subseteq warned'
           /\ driver' = driver /\ src' = src
<1>1. CASE ApplyStep(p)
  <2>1. NextVersion(p) \in Versions
      BY <1>1, NextIsLeast DEF ApplyStep, BootShape, Process
  <2>2. have \subseteq Applied(NextVersion(p))
      BY <2>1 DEF Versions, Applied, Baseline, Tables, MigrateTransactionsDefaults,
                  MigratePortfolioSnapshotPK
  <2>3. \A h \in Partial(NextVersion(p)) : have \subseteq h
      BY DEF Partial, Tables
  <2> QED
      BY <1>1, <2>2, <2>3 DEF ApplyStep, given
<1>2. CASE ~ApplyStep(p)
    BY <1>2 DEF BootAct, Start, Crash, LoadVersions, RecordStep, OwnSchemas, LoadKey,
                InsertKey, AppInsert, Preflight, ClearTable, CopyTable, VerifyTable,
                given, schema
<1> QED
    BY <1>1, <1>2

\* So the effect of a migration lasts.
LEMMA EffectStays ==
    ASSUME BootShape, NEW p \in Procs, BootAct(p), NEW v, Effect(v)
    PROVE  Effect(v)'
    BY Grows DEF Effect

\* Applying a migration has its effect, and so has skipping it with a warning.
LEMMA ApplyHasEffect ==
    ASSUME BootShape, NEW p \in Procs, ApplyStep(p), proc'[p].pc = "record",
           NEW v \in Versions, v = NextVersion(p)
    PROVE  Effect(v)'
<1>1. driver' = driver
    BY DEF ApplyStep, given
<1>2. ~Fail(p)
    BY FailShape DEF BootShape
<1>3. CASE have' = Applied(v)
  <2>1. CASE v = 1
      BY <1>3, <2>1 DEF Effect, Applied, Baseline, Tables
  <2>2. CASE v = 2 \/ v = 3
      BY <1>1, <1>3, <2>2
         DEF Effect, Applied, MigrateTransactionsDefaults, MigratePortfolioSnapshotPK
  <2>3. CASE v = 4 \/ v = 5
      BY <1>3, <2>3 DEF Effect, Applied
  <2> QED
      BY <2>1, <2>2, <2>3 DEF Versions
<1>4. CASE BestEffort(v) /\ warned' = warned \cup {v}
    BY <1>1, <1>4 DEF BestEffort, Effect
<1> QED
    BY <1>2, <1>3, <1>4 DEF ApplyStep

\* What a process has seen to grows by what it finds recorded or applies.
LEMMA BroughtStep ==
    ASSUME BootAssumption, BootShape, SchemaInv, NEW p \in Procs, BootAct(p),
           NEW v \in Brought(p)'
    PROVE  Effect(v)'
<1>0. proc \in [Procs -> Process]
    BY DEF BootShape
<1>1. CASE proc' = proc
    BY <1>1, EffectStays DEF SchemaInv, Brought, NextVersion
<1>2. CASE proc'[p].pc \notin {"apply", "record"} \cup Serving \cup Importing
    BY <1>2 DEF Brought, Serving, Importing
<1>3. CASE LoadVersions(p)
  <2>1. proc' = [proc EXCEPT ![p].pc = "apply", ![p].todo = Versions \ versions]
      BY <1>3 DEF LoadVersions
  <2>2. proc'[p].pc = "apply" /\ proc'[p].todo = Versions \ versions
      BY <1>0, <2>1 DEF Process
  <2>3. v \in versions
      BY <2>2 DEF Brought, Serving, Importing
  <2> QED
      BY <2>3, EffectStays DEF SchemaInv
<1>4. CASE ApplyStep(p) /\ proc'[p].pc = "record"
  <2>1. proc' = [proc EXCEPT ![p].pc = "record"]
      BY <1>0, <1>4, FailShape DEF ApplyStep
  <2>2. proc'[p].todo = proc[p].todo
      BY <1>0, <2>1, Labelled DEF Labels
  <2>3. NextVersion(p)' = NextVersion(p)
      BY <2>2 DEF NextVersion
  <2>4. v \in Versions \ proc[p].todo \/ v = NextVersion(p)
      BY <1>4, <2>2, <2>3 DEF Brought, Serving, Importing
  <2>5. Versions \ proc[p].todo \subseteq Brought(p)
      BY <1>4 DEF ApplyStep, Brought
  <2> QED
      BY <1>4, <2>4, <2>5, ApplyHasEffect, EffectStays DEF SchemaInv, Brought
<1>5. CASE RecordStep(p) /\ proc'[p].pc = "apply"
  <2>1. proc' = [proc EXCEPT ![p].pc = "apply", ![p].todo = proc[p].todo \ {NextVersion(p)}]
    <3>1. NextVersion(p) \in Versions
        BY <1>0, <1>5, NextIsLeast DEF RecordStep, Process, BootShape
    <3>2. CASE NextVersion(p) \in versions
      <4>1. PICK t \in SUBSET Versions :
                proc' = [proc EXCEPT ![p] = [Down EXCEPT !.pc = "failed", !.todo = t]]
          BY <1>5, <3>1, <3>2 DEF RecordStep
      <4> QED
          BY <1>0, <1>5, <4>1, Refused
    <3>3. CASE NextVersion(p) \notin versions
      <4>1. proc' = [proc EXCEPT ![p].pc = "apply", ![p].todo = @ \ {NextVersion(p)}]
          BY <1>5, <3>3 DEF RecordStep
      <4> QED
          BY <1>0, <4>1 DEF Process
    <3> QED
        BY <3>2, <3>3
  <2>2. proc'[p].todo = proc[p].todo \ {NextVersion(p)}
      BY <1>0, <2>1 DEF Process
  <2>3. v \in Brought(p)
      BY <1>5, <2>2 DEF Brought, RecordStep, Serving, Importing
  <2> QED
      BY <2>3, EffectStays DEF SchemaInv
<1>6. CASE /\ OwnSchemas(p) \/ Preflight(p)
           /\ proc'[p].pc \in {"apply", "record"} \cup Serving \cup Importing
  <2>1. proc'[p].pc \in Serving \cup Importing
    <3>1. CASE Fail(p)
        BY <1>0, <1>6, <3>1, FailShape DEF Serving, Importing
    <3>2. CASE proc' = [proc EXCEPT ![p].pc = "loadKey"]
        BY <1>0, <3>2, Labelled DEF Serving, Labels
    <3>3. CASE proc' = [proc EXCEPT ![p].pc = "refused"]
        BY <1>0, <1>6, <3>3, Labelled DEF Serving, Importing, Labels
    <3>4. CASE proc' = [proc EXCEPT ![p].pc = "clear", ![p].todo = {1}]
        BY <1>0, <3>4 DEF Process, Importing
    <3> QED
        BY <1>6, <3>1, <3>2, <3>3, <3>4 DEF OwnSchemas, Preflight
  <2>2. v \in Versions
      BY <2>1 DEF Brought, Serving, Importing
  <2>3. Brought(p) = Versions
      BY <1>6 DEF OwnSchemas, Preflight, Brought
  <2> QED
      BY <2>2, <2>3, EffectStays DEF SchemaInv
<1>7. CASE /\ LoadKey(p) \/ InsertKey(p) \/ ClearTable(p) \/ CopyTable(p) \/ VerifyTable(p)
           /\ proc'[p].pc \in {"apply", "record"} \cup Serving \cup Importing
  <2>1. proc[p].pc \in Serving \cup Importing
      BY <1>7 DEF LoadKey, InsertKey, ClearTable, CopyTable, VerifyTable, Serving, Importing
  <2>2. Brought(p) = Versions
      BY <2>1 DEF Brought, Serving, Importing
  <2>3. proc'[p].pc \notin {"apply", "record"}
    <3>1. CASE Fail(p)
        BY <1>0, <3>1, FailShape
    <3>2. CASE LoadKey(p) \/ InsertKey(p)
        BY <1>0, <3>1, <3>2 DEF LoadKey, InsertKey, Process
    <3>3. CASE ClearTable(p) \/ VerifyTable(p)
        BY <1>0, <3>3 DEF ClearTable, VerifyTable, Process
    <3>4. CASE CopyTable(p)
        BY <1>0, <3>1, <3>4 DEF CopyTable, Process
    <3> QED
        BY <1>7, <3>2, <3>3, <3>4
  <2>4. v \in Versions
      BY <1>7, <2>3 DEF Brought, Serving, Importing
  <2> QED
      BY <2>2, <2>4, EffectStays DEF SchemaInv
<1>8. ASSUME Crash(p) \/ \E role \in {"serve", "import"}, force \in BOOLEAN : Start(p, role, force)
      PROVE  proc'[p].pc \in {"down", "load"}
    BY <1>0, <1>8, Started, DownIsProcess DEF Crash, Start
<1>9. AppInsert(p) => proc' = proc
    BY DEF AppInsert
<1>10. ApplyStep(p) => proc'[p].pc \in {"record", "failed"}
    BY <1>0, FailShape, Labelled DEF ApplyStep, Labels
<1>11. RecordStep(p) => proc'[p].pc \in {"apply", "failed"}
  <2>1. CASE proc' = [proc EXCEPT ![p].pc = "apply", ![p].todo = @ \ {NextVersion(p)}]
      BY <1>0, <2>1 DEF Process
  <2>2. CASE proc' = [proc EXCEPT ![p] = [Down EXCEPT !.pc = "failed",
                                                      !.todo = {NextVersion(p)}]]
      BY <1>0, <2>2 DEF Down
  <2> QED
      BY <2>1, <2>2 DEF RecordStep
<1>12. {"down", "load", "failed"} \cap ({"apply", "record"} \cup Serving \cup Importing) = {}
    BY DEF Serving, Importing
<1> QED
    BY <1>1, <1>2, <1>3, <1>4, <1>5, <1>6, <1>7, <1>8, <1>9, <1>10, <1>11, <1>12 DEF BootAct

\* Versions are recorded by the boot that applied them, or imported after the
\* boot has applied them all.
LEMMA SchemaStep ==
    ASSUME BootAssumption, BootShape, SchemaInv, NEW p \in Procs, BootAct(p)
    PROVE  SchemaInv'
<1>0. proc \in [Procs -> Process]
    BY DEF BootShape
<1>1. ASSUME NEW v \in versions' PROVE Effect(v)'
  <2>1. CASE v \in versions
      BY <2>1, EffectStays DEF SchemaInv
  <2>2. CASE v \notin versions
    <3>1. CASE RecordStep(p)
      <4>1. v = NextVersion(p) /\ v \in Versions
          BY <1>1, <2>2, <3>1, NextIsLeast DEF RecordStep, BootShape, Process
      <4>2. v \in Brought(p)
          BY <3>1, <4>1 DEF Brought, RecordStep
      <4> QED
          BY <4>2, EffectStays DEF SchemaInv
    <3>2. CASE CopyTable(p)
      <4>1. v \in Versions
        <5>1. CASE At(p) = "versions"
            BY <1>1, <2>2, <3>2, <5>1 DEF CopyTable, BootShape, Target
        <5>2. CASE At(p) # "versions"
            BY <1>1, <2>2, <3>2, <5>2 DEF CopyTable
        <5> QED
            BY <5>1, <5>2
      <4>2. v \in Brought(p)
          BY <3>2, <4>1 DEF Brought, CopyTable, Importing
      <4> QED
          BY <4>2, EffectStays DEF SchemaInv
    <3>3. CASE ~RecordStep(p) /\ ~CopyTable(p)
        BY <1>1, <2>2, <3>3
           DEF BootAct, Start, Crash, LoadVersions, ApplyStep, OwnSchemas, LoadKey, InsertKey,
               AppInsert, Preflight, ClearTable, VerifyTable, schema
    <3> QED
        BY <3>1, <3>2, <3>3
  <2> QED
      BY <2>1, <2>2
<1>2. ASSUME NEW q \in Procs, NEW v \in Brought(q)' PROVE Effect(v)'
  <2>1. CASE q = p
      BY <1>2, <2>1, BroughtStep
  <2>2. CASE q # p
      BY <1>2, <2>2, OthersStay, EffectStays DEF SchemaInv, Brought, NextVersion
  <2> QED
      BY <2>1, <2>2
<1>3. ASSUME NEW q \in Procs, proc'[q].pc \in Serving, driver' = "sqlite" PROVE "own" \in have'
  <2>1. CASE proc[q].pc \in Serving
      BY <1>3, <2>1, Grows DEF SchemaInv
  <2>2. CASE proc[q].pc \notin Serving
    <3>1. q = p
        BY <1>3, <2>2, OthersStay
    <3>2. OwnSchemas(p)
      <4>1. ASSUME Fail(p) PROVE FALSE
          BY <1>0, <1>3, <3>1, <4>1, FailShape DEF Serving
      <4>2. CASE Crash(p) \/ \E role \in {"serve", "import"}, force \in BOOLEAN :
                                    Start(p, role, force)
          BY <1>0, <1>3, <3>1, <4>2, Started, DownIsProcess DEF Crash, Start, Serving
      <4>3. CASE LoadVersions(p) \/ ApplyStep(p)
          BY <1>0, <1>3, <3>1, <4>1, <4>3 DEF LoadVersions, ApplyStep, Process, Serving
      <4>4. CASE RecordStep(p)
        <5>1. proc'[p].pc \in {"apply", "failed"}
          <6>1. CASE proc' = [proc EXCEPT ![p].pc = "apply",
                                          ![p].todo = @ \ {NextVersion(p)}]
              BY <1>0, <6>1 DEF Process
          <6>2. CASE proc' = [proc EXCEPT ![p] = [Down EXCEPT !.pc = "failed",
                                                              !.todo = {NextVersion(p)}]]
              BY <1>0, <6>2 DEF Down
          <6> QED
              BY <4>4, <6>1, <6>2 DEF RecordStep
        <5> QED
            BY <1>3, <3>1, <5>1 DEF Serving
      <4>5. CASE LoadKey(p) \/ InsertKey(p) \/ AppInsert(p)
          BY <1>3, <2>2, <3>1, <4>5 DEF LoadKey, InsertKey, AppInsert, Serving
      <4>6. CASE Preflight(p) \/ ClearTable(p) \/ VerifyTable(p)
          BY <1>0, <1>3, <2>2, <3>1, <4>6 DEF Preflight, ClearTable, VerifyTable, Process, Serving
      <4>7. CASE CopyTable(p)
          BY <1>0, <1>3, <3>1, <4>1, <4>7 DEF CopyTable, Process, Serving
      <4> QED
          BY <4>2, <4>3, <4>4, <4>5, <4>6, <4>7 DEF BootAct
    <3>3. ~Fail(p)
        BY <1>0, <1>3, <3>1, FailShape DEF Serving
    <3> QED
        BY <1>3, <3>2, <3>3 DEF OwnSchemas, given
  <2> QED
      BY <2>1, <2>2
<1> QED
    BY <1>1, <1>2, <1>3 DEF SchemaInv

\* Who was overlapped stays so until the process starts again.
LEMMA OverlapStep ==
    ASSUME BootAssumption, BootShape, OverlapInv, NEW p \in Procs, BootAct(p)
    PROVE  OverlapInv'
<1>0. proc \in [Procs -> Process]
    BY DEF BootShape
<1>1. CASE \E role \in {"serve", "import"}, force \in BOOLEAN : Start(p, role, force)
  <2>1. PICK role \in {"serve", "import"}, force \in BOOLEAN : Start(p, role, force)
      BY <1>1
  <2>2. /\ proc'[p].pc = "load" /\ proc'[p].todo = {} /\ versions' = versions
        /\ ~Booting(p)
        /\ overlapped' = (overlapped \ {p}) \cup {q \in Procs \ {p} : Booting(q)}
             \cup (IF {q \in Procs \ {p} : Booting(q)} = {} THEN {} ELSE {p})
      BY <1>0, <2>1, Started DEF Start, schema
  <2>3. \A q \in Procs \ {p} : proc'[q] = proc[q]
      BY OthersStay
  <2>4. \A q \in Procs \ {p} : q \in overlapped => q \in overlapped'
      BY <2>2
  <2>5. \A q, r \in Procs : q # r /\ Booting(q)' /\ Booting(r)' => q \in overlapped'
      BY <2>2, <2>3, <2>4 DEF OverlapInv, Booting
  <2>6. \A q \in Procs : proc'[q].pc \in {"apply", "record"} /\ q \notin overlapped'
                           => proc'[q].todo \cap versions' = {}
      BY <2>2, <2>3, <2>4 DEF OverlapInv
  <2>7. ConflictHasCause'
      BY <2>2, <2>3, <2>4 DEF OverlapInv, ConflictHasCause
  <2> QED
      BY <2>5, <2>6, <2>7 DEF OverlapInv
<1>2. CASE ~\E role \in {"serve", "import"}, force \in BOOLEAN : Start(p, role, force)
  <2>1. overlapped' = overlapped
      BY <1>2 DEF BootAct, Crash, LoadVersions, ApplyStep, RecordStep, OwnSchemas, LoadKey,
                  InsertKey, AppInsert, Preflight, ClearTable, CopyTable, VerifyTable
  <2>2. Booting(p)' => Booting(p)
      BY <1>0, <1>2, FailShape, DownIsProcess
         DEF BootAct, Crash, LoadVersions, ApplyStep, RecordStep, OwnSchemas, LoadKey,
             InsertKey, AppInsert, Preflight, ClearTable, CopyTable, VerifyTable, Booting
  <2>3. \A q \in Procs \ {p} : proc'[q] = proc[q]
      BY OthersStay
  <2>4. \A q, r \in Procs : q # r /\ Booting(q)' /\ Booting(r)' => q \in overlapped'
      BY <2>1, <2>2, <2>3 DEF OverlapInv, Booting
  <2>5. ASSUME NEW q \in Procs \ {p}, proc'[q].pc \in {"apply", "record"}, q \notin overlapped'
        PROVE  proc'[q].todo \cap versions' = {}
    <3>1. Booting(q) /\ ~Booting(p)
        BY <2>1, <2>3, <2>5 DEF OverlapInv, Booting
    <3>2. versions' = versions
        BY <1>2, <3>1
           DEF BootAct, Crash, LoadVersions, ApplyStep, RecordStep, OwnSchemas, LoadKey, InsertKey,
               AppInsert, Preflight, ClearTable, CopyTable, VerifyTable, schema, Booting
    <3> QED
        BY <2>1, <2>3, <2>5, <3>2 DEF OverlapInv
  <2>6. ASSUME proc'[p].pc \in {"apply", "record"}, p \notin overlapped'
        PROVE  proc'[p].todo \cap versions' = {}
    <3>1. ~Fail(p)
        BY <1>0, <2>6, FailShape
    <3>2. CASE LoadVersions(p)
      <4>1. proc'[p].todo = Versions \ versions
          BY <1>0, <3>2 DEF LoadVersions, Process
      <4> QED
          BY <3>2, <4>1 DEF LoadVersions, schema
    <3>3. CASE ApplyStep(p)
      <4>1. proc'[p].todo = proc[p].todo
          BY <1>0, <3>1, <3>3, Labelled DEF ApplyStep, Labels
      <4> QED
          BY <2>1, <2>6, <3>3, <4>1 DEF ApplyStep, OverlapInv
    <3>4. CASE RecordStep(p)
      <4>1. NextVersion(p) \in Versions /\ NextVersion(p) \in proc[p].todo
          BY <3>4, NextIsLeast DEF RecordStep, BootShape, Process
      <4>2. NextVersion(p) \notin versions
          BY <2>1, <2>6, <3>4, <4>1 DEF RecordStep, OverlapInv
      <4>3. proc'[p].todo = proc[p].todo \ {NextVersion(p)}
          BY <1>0, <3>4, <4>2 DEF RecordStep, Process
      <4> QED
          BY <2>1, <2>6, <3>4, <4>2, <4>3 DEF RecordStep, OverlapInv
    <3>5. CASE proc' = proc /\ versions' = versions
        BY <2>1, <2>6, <3>5 DEF OverlapInv
    <3>6. CASE Crash(p)
        BY <1>0, <2>6, <3>6, DownIsProcess DEF Crash
    <3>7. CASE OwnSchemas(p) \/ LoadKey(p) \/ InsertKey(p)
        BY <1>0, <2>6, <3>1, <3>7 DEF OwnSchemas, LoadKey, InsertKey, Process
    <3>8. CASE Preflight(p) \/ ClearTable(p) \/ CopyTable(p) \/ VerifyTable(p)
        BY <1>0, <2>6, <3>1, <3>8 DEF Preflight, ClearTable, CopyTable, VerifyTable, Process
    <3>9. AppInsert(p) => proc' = proc /\ versions' = versions
        BY DEF AppInsert, schema
    <3> QED
        BY <1>2, <3>2, <3>3, <3>4, <3>5, <3>6, <3>7, <3>8, <3>9 DEF BootAct
  <2>7. ConflictHasCause'
    <3>1. ASSUME proc'[p].pc = "failed", proc'[p].todo # {} PROVE p \in overlapped
      <4>1. ~Fail(p)
          BY <1>0, <3>1, FailShape
      <4>2. CASE RecordStep(p)
        <5>1. NextVersion(p) \in Versions /\ NextVersion(p) \in proc[p].todo
            BY <4>2, NextIsLeast DEF RecordStep, BootShape, Process
        <5>2. NextVersion(p) \in versions
            BY <1>0, <3>1, <4>2 DEF RecordStep, Process
        <5> QED
            BY <4>2, <5>1, <5>2 DEF RecordStep, OverlapInv
      <4>3. CASE LoadVersions(p) \/ ApplyStep(p)
          BY <1>0, <3>1, <4>1, <4>3 DEF LoadVersions, ApplyStep, Process
      <4>4. CASE Crash(p)
          BY <1>0, <3>1, <4>4, DownIsProcess DEF Crash
      <4>5. CASE OwnSchemas(p) \/ LoadKey(p) \/ InsertKey(p)
          BY <1>0, <3>1, <4>1, <4>5 DEF OwnSchemas, LoadKey, InsertKey, Process
      <4>6. CASE Preflight(p) \/ ClearTable(p) \/ CopyTable(p) \/ VerifyTable(p)
          BY <1>0, <3>1, <4>1, <4>6 DEF Preflight, ClearTable, CopyTable, VerifyTable, Process
      <4>7. CASE AppInsert(p)
          BY <3>1, <4>7 DEF AppInsert, OverlapInv, ConflictHasCause
      <4> QED
          BY <1>2, <4>2, <4>3, <4>4, <4>5, <4>6, <4>7 DEF BootAct
    <3> QED
        BY <2>1, <2>3, <3>1 DEF OverlapInv, ConflictHasCause
  <2> QED
      BY <2>1, <2>4, <2>5, <2>6, <2>7 DEF OverlapInv
<1> QED
    BY <1>1, <1>2

\* Keys: who comes up has the stored key, and an import that replaces the
\* stored one names everybody who is up.
LEMMA SigningStep ==
    ASSUME BootAssumption, BootShape, SigningInv, NEW p \in Procs, BootAct(p)
    PROVE  SigningInv'
<1>0. proc \in [Procs -> Process]
    BY DEF BootShape
<1> SUFFICES ASSUME NEW q \in Procs, proc'[q].pc = "up"
             PROVE  proc'[q].key # NoKey /\ (proc'[q].key = storedKey' \/ q \in keySwapped')
    BY DEF SigningInv
<1>1. CASE LoadKey(p)
  <2>1. CASE q = p
    <3>1. storedKey # NoKey /\ proc' = [proc EXCEPT ![p].pc = "up", ![p].key = storedKey]
        BY <1>0, <1>1, <2>1, FailShape DEF LoadKey, Process
    <3>2. proc'[p].key = storedKey
        BY <1>0, <3>1 DEF Process
    <3> QED
        BY <1>1, <2>1, <3>1, <3>2 DEF LoadKey, data
  <2>2. CASE q # p
      BY <1>1, <2>2, OthersStay DEF LoadKey, data, SigningInv
  <2> QED
      BY <2>1, <2>2
<1>2. CASE InsertKey(p)
  <2>1. CASE q = p
    <3>1. /\ storedKey = NoKey /\ storedKey' = p
          /\ proc' = [proc EXCEPT ![p].pc = "up", ![p].key = p]
        BY <1>0, <1>2, <2>1 DEF InsertKey, Process
    <3>2. proc'[p].key = p
        BY <1>0, <3>1 DEF Process
    <3> QED
        BY <2>1, <3>1, <3>2 DEF BootAssumption
  <2>2. CASE q # p
    <3>1. proc'[q] = proc[q]
        BY <2>2, OthersStay
    <3> QED
        BY <1>2, <2>2, <3>1 DEF InsertKey, SigningInv
  <2> QED
      BY <2>1, <2>2
<1>3. ASSUME ~LoadKey(p), ~InsertKey(p) PROVE proc'[q] = proc[q]
  <2>1. CASE q # p
      BY <2>1, OthersStay
  <2>2. CASE q = p
    <3>1. ~Fail(p)
        BY <1>0, <2>2, FailShape
    <3>2. ASSUME Crash(p) \/ \E role \in {"serve", "import"}, force \in BOOLEAN :
                                  Start(p, role, force)
          PROVE  FALSE
        BY <1>0, <2>2, <3>2, Started, DownIsProcess DEF Crash, Start
    <3>3. ASSUME RecordStep(p) PROVE FALSE
      <4>1. CASE proc' = [proc EXCEPT ![p].pc = "apply", ![p].todo = @ \ {NextVersion(p)}]
          BY <1>0, <2>2, <4>1 DEF Process
      <4>2. CASE proc' = [proc EXCEPT ![p] = [Down EXCEPT !.pc = "failed",
                                                          !.todo = {NextVersion(p)}]]
          BY <1>0, <2>2, <4>2 DEF Down
      <4> QED
          BY <3>3, <4>1, <4>2 DEF RecordStep
    <3>4. ASSUME LoadVersions(p) \/ ApplyStep(p) \/ OwnSchemas(p) PROVE FALSE
        BY <1>0, <2>2, <3>1, <3>4 DEF LoadVersions, ApplyStep, OwnSchemas, Process
    <3>5. ASSUME Preflight(p) \/ ClearTable(p) \/ CopyTable(p) \/ VerifyTable(p) PROVE FALSE
        BY <1>0, <2>2, <3>1, <3>5 DEF Preflight, ClearTable, CopyTable, VerifyTable, Process
    <3> QED
        BY <1>3, <3>2, <3>3, <3>4, <3>5 DEF BootAct, AppInsert
  <2> QED
      BY <2>1, <2>2
<1>4. CASE ~LoadKey(p) /\ ~InsertKey(p)
  <2>1. CASE CopyTable(p)
    <3>1. storedKey' = storedKey => keySwapped' = keySwapped
        BY <2>1 DEF CopyTable
    <3>2. storedKey' # storedKey => q \in keySwapped'
        BY <1>3, <1>4, <2>1 DEF CopyTable
    <3> QED
        BY <1>3, <1>4, <3>1, <3>2, <2>1 DEF SigningInv, CopyTable
  <2>2. CASE ~CopyTable(p)
    <3>1. storedKey' = storedKey
        BY <1>4, <2>2 DEF BootAct, Start, Crash, LoadVersions, ApplyStep, RecordStep, OwnSchemas,
                          AppInsert, Preflight, ClearTable, VerifyTable, data
    <3>2. q \in keySwapped => q \in keySwapped'
      <4>1. CASE \E role \in {"serve", "import"}, force \in BOOLEAN : Start(p, role, force)
          BY <1>3, <1>4, <4>1 DEF Start
      <4>2. CASE ~\E role \in {"serve", "import"}, force \in BOOLEAN : Start(p, role, force)
          BY <1>4, <2>2, <4>2
             DEF BootAct, Crash, LoadVersions, ApplyStep, RecordStep, OwnSchemas, AppInsert,
                 Preflight, ClearTable, VerifyTable
      <4> QED
          BY <4>1, <4>2
    <3> QED
        BY <1>3, <1>4, <3>1, <3>2 DEF SigningInv
  <2> QED
      BY <2>1, <2>2
<1> QED
    BY <1>1, <1>2, <1>4

\* As many source rows as sequence numbers.
LEMMA SourceRows ==
    ASSUME NEW S, IsFiniteSet(S)
    PROVE  LET T == {SrcRow(i) : i \in S}
           IN  IsFiniteSet(T) /\ Cardinality(T) = Cardinality(S)
<1> DEFINE T == {SrcRow(i) : i \in S}
           f == [i \in S |-> SrcRow(i)]
<1>1. f \in [S -> T]
    OBVIOUS
<1>2. \A i, j \in S : f[i] = f[j] => i = j
    BY DEF SrcRow
<1>3. \A t \in T : \E i \in S : f[i] = t
    OBVIOUS
<1>4. f \in Bijection(S, T)
    BY <1>1, <1>2, <1>3 DEF Bijection, Injection, Surjection, IsInjective
<1>5. ExistsBijection(S, T)
    BY <1>4 DEF ExistsBijection
<1> QED
    BY <1>5, FS_Bijection

\* Only the import itself changes rows while it is quiet.
LEMMA QuietStays ==
    ASSUME BootShape, NEW p \in Procs, BootAct(p), NEW q \in quiet', q # p
    PROVE  q \in quiet /\ rows' = rows
<1>1. CASE CopyTable(p)
  <2>1. At(p) \in {"key", "versions", "rows"}
      BY <1>1, TableAt DEF CopyTable, BootShape
  <2> QED
      BY <1>1, <2>1 DEF CopyTable
<1>2. CASE ~CopyTable(p)
    BY <1>2 DEF BootAct, Start, Crash, LoadVersions, ApplyStep, RecordStep, OwnSchemas, LoadKey,
                InsertKey, AppInsert, Preflight, ClearTable, VerifyTable, data
<1> QED
    BY <1>1, <1>2

LEMMA ImportStep ==
    ASSUME BootAssumption, BootShape, ImportInv, NEW p \in Procs, BootAct(p)
    PROVE  ImportInv'
<1>0. proc \in [Procs -> Process] /\ src' = src
    BY Grows DEF BootShape
<1>1. ASSUME NEW q \in quiet', q # p
      PROVE  /\ proc'[q] = proc[q] /\ q \in quiet /\ rows' = rows
  <2>1. q \in quiet /\ rows' = rows
      BY <1>1, QuietStays
  <2>2. q \in Procs
      BY <2>1 DEF BootShape
  <2>3. proc'[q] = proc[q]
      BY <1>1, <2>2, OthersStay
  <2> QED
      BY <2>1, <2>3
<1>2. ASSUME p \in quiet', proc'[p].pc \in Importing \cup {"done"}
      PROVE  /\ proc'[p].pc \in Importing /\ proc'[p].todo # {3} /\ ~proc'[p].force => rows' = {}
             /\ proc'[p].pc = "clear" /\ ~proc'[p].force => rows' = {}
             /\ proc'[p].pc = "copy" /\ proc'[p].todo = {3} => rows' \subseteq proc'[p].gone
             /\ proc'[p].pc = "verify" /\ proc'[p].todo = {3}
                   => rows' \subseteq {SrcRow(i) : i \in src.rows}
             /\ proc'[p].pc = "done" /\ ~proc'[p].alarm => \A i \in src.rows : SrcRow(i) \in rows'
  <2>0. ~Fail(p)
      BY <1>0, <1>2, FailShape DEF Importing
  <2>1. CASE Preflight(p)
    <3>1. /\ proc' = [proc EXCEPT ![p].pc = "clear", ![p].todo = {1}]
          /\ proc[p].force \/ ~\E t \in {"key", "versions", "rows"} : InSource(t) /\ Target(t) # {}
      <4>1. ASSUME proc' = [proc EXCEPT ![p].pc = "refused"] PROVE FALSE
          BY <1>0, <1>2, <4>1, Labelled DEF Importing, Labels
      <4> QED
          BY <2>1, <4>1 DEF Preflight
    <3>2. ~proc[p].force => rows = {}
        BY <3>1 DEF InSource, Target
    <3>3. proc'[p].pc = "clear" /\ proc'[p].todo = {1} /\ proc'[p].force = proc[p].force
        BY <1>0, <3>1 DEF Process
    <3>4. rows' = rows
        BY <2>1 DEF Preflight, data
    <3> QED
        BY <3>2, <3>3, <3>4
  <2>2. CASE ClearTable(p)
    <3>1. p \in quiet /\ rows' = rows /\ proc[p].pc = "clear"
        BY <1>2, <2>2 DEF ClearTable, data
    <3>2. ~proc[p].force => rows = {}
        BY <3>1 DEF ImportInv, Importing
    <3>3. CASE InSource(At(p))
      <4>0. PICK gone \in SUBSET Found : gone = IF proc[p].force THEN Target(At(p)) ELSE {}
          BY <2>2, TargetShape DEF ClearTable, BootShape
      <4>1. proc' = [proc EXCEPT ![p].pc = "copy", ![p].gone = gone]
          BY <2>2, <3>3, <4>0 DEF ClearTable
      <4>2. /\ proc'[p].pc = "copy" /\ proc'[p].todo = proc[p].todo /\ proc'[p].gone = gone
            /\ proc'[p].force = proc[p].force
          BY <1>0, <4>1, LabelledGone DEF Labels
      <4>3. proc[p].todo = {3} => Target(At(p)) = rows
          BY TableAt DEF Target
      <4> QED
          BY <3>1, <3>2, <4>0, <4>2, <4>3
    <3>4. CASE ~InSource(At(p))
      <4>1. proc' = [proc EXCEPT ![p].todo = {NextVersion(p) + 1}]
          BY <2>2, <3>4 DEF ClearTable
      <4>2. proc'[p].pc = "clear" /\ proc'[p].force = proc[p].force
          BY <1>0, <3>1, <4>1 DEF Process
      <4> QED
          BY <3>1, <3>2, <4>2
    <3> QED
        BY <3>3, <3>4
  <2>3. CASE CopyTable(p)
    <3>1. p \in quiet /\ proc[p].pc = "copy" /\ proc[p].todo \in {{1}, {2}, {3}}
        BY <1>2, <2>0, <2>3 DEF CopyTable, BootShape
    <3>2. PICK gone \in SUBSET Found : gone = {}
        OBVIOUS
    <3>3. proc' = [proc EXCEPT ![p].pc = "verify", ![p].gone = gone]
        BY <2>0, <2>3, <3>2 DEF CopyTable
    <3>4. proc'[p].pc = "verify" /\ proc'[p].todo = proc[p].todo /\ proc'[p].force = proc[p].force
        BY <1>0, <3>3, LabelledGone DEF Labels
    <3>5. CASE proc[p].todo = {3}
      <4>1. Target(At(p)) \ proc[p].gone = {}
          BY <3>1, <3>5, TableAt DEF Target, ImportInv
      <4>2. rows' = Copied({})
          BY <2>0, <2>3, <3>5, <4>1, TableAt DEF CopyTable
      <4>3. Copied({}) \subseteq {SrcRow(i) : i \in src.rows}
          BY DEF Copied
      <4> QED
          BY <3>4, <3>5, <4>2, <4>3
    <3>6. CASE proc[p].todo # {3}
      <4>1. rows' = rows
          BY <2>0, <2>3, <3>1, <3>6, TableAt DEF CopyTable
      <4> QED
          BY <3>1, <3>4, <3>6, <4>1 DEF ImportInv, Importing
    <3> QED
        BY <3>5, <3>6
  <2>4. CASE VerifyTable(p)
    <3>1. /\ p \in quiet /\ rows' = rows /\ proc[p].pc = "verify"
          /\ proc[p].todo \in {{1}, {2}, {3}}
        BY <1>2, <2>4 DEF VerifyTable, data, BootShape
    <3>2. CASE At(p) = "rows"
      <4>1. proc[p].todo = {3}
          BY <3>1, <3>2, TableAt
      <4>7. PICK b \in BOOLEAN : b = (Cardinality(rows) # Cardinality(src.rows))
          OBVIOUS
      <4>2. proc' = [proc EXCEPT ![p].pc = "done", ![p].alarm = b]
          BY <2>4, <3>2, <4>7 DEF VerifyTable
      <4>3. proc'[p].pc = "done" /\ proc'[p].alarm = b
          BY <1>0, <4>2, LabelledAlarm DEF Labels
      <4>4. rows \subseteq {SrcRow(i) : i \in src.rows}
          BY <3>1, <4>1 DEF ImportInv
      <4>5. /\ IsFiniteSet({SrcRow(i) : i \in src.rows})
            /\ Cardinality({SrcRow(i) : i \in src.rows}) = Cardinality(src.rows)
          BY SourceRows DEF BootShape
      <4>6. ASSUME ~b PROVE rows = {SrcRow(i) : i \in src.rows}
          BY <4>4, <4>5, <4>6, <4>7, FS_Subset
      <4> QED
          BY <3>1, <4>3, <4>6 DEF Importing
    <3>3. CASE At(p) # "rows"
      <4>1. proc[p].todo # {3}
          BY <3>3, TableAt
      <4>2. proc' = [proc EXCEPT ![p].pc = "clear", ![p].todo = {NextVersion(p) + 1}]
          BY <2>4, <3>3 DEF VerifyTable
      <4>3. proc'[p].pc = "clear" /\ proc'[p].force = proc[p].force
          BY <1>0, <4>2 DEF Process
      <4> QED
          BY <3>1, <4>1, <4>3 DEF ImportInv, Importing
    <3> QED
        BY <3>2, <3>3
  <2>5. CASE \E role \in {"serve", "import"}, force \in BOOLEAN : Start(p, role, force)
      BY <1>2, <2>5 DEF Start
  <2>6. CASE Crash(p)
      BY <1>0, <1>2, <2>6, DownIsProcess DEF Crash, Importing
  <2>7. CASE LoadVersions(p) \/ ApplyStep(p) \/ OwnSchemas(p)
      BY <1>0, <1>2, <2>0, <2>7 DEF LoadVersions, ApplyStep, OwnSchemas, Process, Importing
  <2>8. CASE RecordStep(p)
    <3>1. CASE proc' = [proc EXCEPT ![p].pc = "apply", ![p].todo = @ \ {NextVersion(p)}]
        BY <1>0, <1>2, <3>1 DEF Process, Importing
    <3>2. CASE proc' = [proc EXCEPT ![p] = [Down EXCEPT !.pc = "failed",
                                                        !.todo = {NextVersion(p)}]]
        BY <1>0, <1>2, <3>2 DEF Down, Importing
    <3> QED
        BY <2>8, <3>1, <3>2 DEF RecordStep
  <2>9. CASE LoadKey(p) \/ InsertKey(p)
      BY <1>0, <1>2, <2>0, <2>9 DEF LoadKey, InsertKey, Process, Importing
  <2>10. CASE AppInsert(p)
      BY <1>2, <2>10 DEF AppInsert
  <2> QED
      BY <2>1, <2>2, <2>3, <2>4, <2>5, <2>6, <2>7, <2>8, <2>9, <2>10 DEF BootAct
<1>3. ASSUME NEW q \in quiet' 
      PROVE  /\ proc'[q].pc \in Importing /\ proc'[q].todo # {3} /\ ~proc'[q].force => rows' = {}
             /\ proc'[q].pc = "clear" /\ ~proc'[q].force => rows' = {}
             /\ proc'[q].pc = "copy" /\ proc'[q].todo = {3} => rows' \subseteq proc'[q].gone
             /\ proc'[q].pc = "verify" /\ proc'[q].todo = {3}
                   => rows' \subseteq {SrcRow(i) : i \in src.rows}
             /\ proc'[q].pc = "done" /\ ~proc'[q].alarm => \A i \in src.rows : SrcRow(i) \in rows'
  <2>1. CASE q # p
      BY <1>1, <1>3, <2>1 DEF ImportInv
  <2>2. CASE q = p
      BY <1>2, <1>3, <2>2 DEF Importing
  <2> QED
      BY <2>1, <2>2
<1> QED
    BY <1>0, <1>3 DEF ImportInv, SrcRow

-----------------------------------------------------------------------------
(* The theorems                                                            *)

BootInv == BootShape /\ SchemaInv /\ OverlapInv /\ SigningInv /\ ImportInv

LEMMA BootStart == BootAssumption /\ BootInit => BootInv
<1> SUFFICES ASSUME BootAssumption, BootInit PROVE BootInv
    OBVIOUS
<1>1. /\ \A p \in Procs : /\ proc[p].pc = "down" /\ proc[p].todo = {} /\ proc[p].role = "serve"
                          /\ ~Booting(p)
      /\ proc \in [Procs -> Process]
    BY DownIsProcess DEF BootInit, Booting
<1>2. have \in SUBSET Structures /\ versions \in SUBSET Versions /\ driver \in {"sqlite", "pg"}
    BY DEF BootInit, BootAssumption, Migrated, Baseline, Tables, Structures, Declared, NavColumns
<1>3. /\ src.versions \subseteq Versions /\ src.key \in Keys
      /\ src.rows \subseteq Nat /\ IsFiniteSet(src.rows)
    BY DEF BootInit, BootAssumption, Keys
<1>4. BootShape
    BY <1>1, <1>2, <1>3 DEF BootInit, BootShape, Keys
<1>5. SchemaInv
  <2>1. ASSUME NEW v \in versions PROVE Effect(v)
    <3>1. have = Migrated(driver)
        BY <2>1 DEF BootInit
    <3> QED
        BY <3>1, <1>2 DEF Effect, Migrated, Baseline, Tables, Declared, NavColumns
  <2> QED
      BY <1>1, <2>1 DEF SchemaInv, Brought, Serving, Importing
<1>6. OverlapInv /\ SigningInv /\ ImportInv
    BY <1>1 DEF BootInit, OverlapInv, ConflictHasCause, SigningInv, ImportInv
<1> QED
    BY <1>4, <1>5, <1>6 DEF BootInv

LEMMA ShapeStep ==
    ASSUME BootAssumption, BootShape, NEW p \in Procs, BootAct(p)
    PROVE  BootShape'
<1>1. /\ driver' \in {"sqlite", "pg"} /\ warned' \subseteq Versions
      /\ src' = src /\ have' \subseteq Structures
  <2>1. CASE ApplyStep(p)
    <3>1. PICK v \in Versions : v = NextVersion(p)
        BY <2>1, NextIsLeast DEF ApplyStep, BootShape, Process
    <3>2. Applied(v) \subseteq Structures
        BY <3>1 DEF Versions, Applied, Baseline, Tables, MigrateTransactionsDefaults,
                    MigratePortfolioSnapshotPK, Structures, Declared, BootShape
    <3>3. v \in {1, 4} => \A h \in Partial(v) : h \subseteq Structures
        BY DEF Partial, Tables, Structures, Declared, BootShape
    <3> QED
        BY <2>1, <3>1, <3>2, <3>3 DEF ApplyStep, given, BootShape
  <2>2. CASE OwnSchemas(p)
      BY <2>2 DEF OwnSchemas, given, BootShape, Structures
  <2>3. CASE ~ApplyStep(p) /\ ~OwnSchemas(p)
      BY <2>3 DEF BootAct, Start, Crash, LoadVersions, RecordStep, LoadKey, InsertKey, AppInsert,
                  Preflight, ClearTable, CopyTable, VerifyTable, given, schema, BootShape
  <2> QED
      BY <2>1, <2>2, <2>3
<1>2. versions' \subseteq Versions /\ storedKey' \in Keys /\ rows' \subseteq ImportRows
      /\ nextSeq' \in Nat
  <2>1. CASE RecordStep(p)
      BY <2>1, NextIsLeast DEF RecordStep, data, BootShape, Process
  <2>2. CASE CopyTable(p)
    <3>1. proc[p].todo \in {{1}, {2}, {3}}
        BY <2>2 DEF CopyTable, BootShape
    <3>2. At(p) \in {"key", "versions", "rows"}
        BY <3>1, TableAt
    <3>3. CASE At(p) = "key"
        BY <2>2, <3>3 DEF CopyTable, BootShape
    <3>4. CASE At(p) = "versions"
        BY <2>2, <3>4 DEF CopyTable, BootShape, Target
    <3>5. CASE At(p) = "rows"
      <4>1. \A kept \in SUBSET ImportRows : Copied(kept) \subseteq ImportRows
          BY DEF Copied, SrcRow, ImportRows, BootShape
      <4>2. Target(At(p)) \ proc[p].gone \in SUBSET ImportRows
          BY <3>5 DEF Target, BootShape
      <4>3. rows' = rows \/ rows' = Copied(Target(At(p)) \ proc[p].gone)
          BY <2>2, <3>5 DEF CopyTable
      <4> QED
          BY <2>2, <3>5, <4>1, <4>2, <4>3 DEF CopyTable, BootShape
    <3> QED
        BY <3>2, <3>3, <3>4, <3>5
  <2>3. CASE AppInsert(p)
    <3>1. nextSeq' = nextSeq + 1 /\ UNCHANGED <<versions, storedKey>>
        BY <2>3 DEF AppInsert, schema
    <3>2. [seq |-> nextSeq, from |-> "app"] \in ImportRows
        BY DEF ImportRows, BootShape
    <3> QED
        BY <2>3, <3>1, <3>2 DEF AppInsert, BootShape
  <2>4. CASE InsertKey(p)
      BY <2>4 DEF InsertKey, schema, BootShape, Keys
  <2>5. CASE ~RecordStep(p) /\ ~CopyTable(p) /\ ~AppInsert(p) /\ ~InsertKey(p)
      BY <2>5 DEF BootAct, Start, Crash, LoadVersions, ApplyStep, OwnSchemas, LoadKey,
                  Preflight, ClearTable, VerifyTable, schema, data, BootShape
  <2> QED
      BY <2>1, <2>2, <2>3, <2>4, <2>5
<1>3. boots' \in Nat
  <2>1. boots' = boots \/ boots' = boots + 1
      BY DEF BootAct, Start, Crash, LoadVersions, ApplyStep, RecordStep, OwnSchemas, LoadKey,
             InsertKey, AppInsert, Preflight, ClearTable, CopyTable, VerifyTable
  <2> QED
      BY <2>1 DEF BootShape
<1>4. overlapped' \subseteq Procs
    BY DEF BootAct, Start, Crash, LoadVersions, ApplyStep, RecordStep, OwnSchemas, LoadKey,
           InsertKey, AppInsert, Preflight, ClearTable, CopyTable, VerifyTable, BootShape
<1>5. keySwapped' \subseteq Procs /\ quiet' \subseteq Procs
    BY DEF BootAct, Start, Crash, LoadVersions, ApplyStep, RecordStep, OwnSchemas, LoadKey,
           InsertKey, AppInsert, Preflight, ClearTable, CopyTable, VerifyTable, BootShape
<1>6. \A q \in Procs \ {p} : proc'[q] = proc[q]
    BY OthersStay
<1> QED
    BY <1>1, <1>2, <1>3, <1>4, <1>5, <1>6, StepShape DEF BootShape

LEMMA BootStep == BootAssumption /\ BootInv /\ [BootNext]_bootVars => BootInv'
<1> SUFFICES ASSUME BootAssumption, BootInv, [BootNext]_bootVars PROVE BootInv'
    OBVIOUS
<1>1. CASE BootNext
  <2>1. PICK p \in Procs : BootAct(p)
      BY <1>1 DEF BootNext, BootAct
  <2> QED
      BY <2>1, ShapeStep, SchemaStep, OverlapStep, SigningStep, ImportStep DEF BootInv
<1>2. CASE UNCHANGED bootVars
    BY <1>2 DEF bootVars, BootInv, BootShape, SchemaInv, Effect, Brought, NextVersion, OverlapInv,
                ConflictHasCause, Booting, SigningInv, ImportInv
<1> QED
    BY <1>1, <1>2

\* Every variable of the boot has its type.
THEOREM BootTypeCorrect == BootSpec => []BootTypeOK
<1>1. BootInv => BootTypeOK
    BY DEF BootInv, BootShape, BootTypeOK, Process, Labels, ImportRows
<1> QED
    BY <1>1, BootStart, BootStep, BootAssumption, PTL DEF BootSpec

\* However boots overlap, crash and are replayed, a process that serves has the
\* schema its code was written for, is refused by the version table only if
\* another boot overlapped it, and signs with the stored key (migrator.Run,
\* EnsureSigningKey).
THEOREM BootsAlwaysConverge == BootSpec => []BootsConverge
<1>1. BootInv => ServingMeansMigrated
  <2> SUFFICES ASSUME BootInv, NEW p \in Procs, proc[p].pc = "up"
               PROVE  /\ {"tables", "indexes"} \cup NavColumns \subseteq have
                      /\ driver = "sqlite" => "own" \in have
                      /\ driver = "pg" => /\ "defaults" \in have \/ 2 \in warned
                                          /\ "snapPK" \in have \/ 3 \in warned
                      /\ "unique" \in have \/ 5 \in warned
      BY DEF ServingMeansMigrated
  <2>1. Brought(p) = Versions
      BY DEF Brought, Serving
  <2>2. Effect(1) /\ Effect(2) /\ Effect(3) /\ Effect(4) /\ Effect(5)
      BY <2>1 DEF BootInv, SchemaInv, Versions
  <2> QED
      BY <2>2 DEF Effect, BootInv, SchemaInv, Serving
<1>2. BootInv => ConflictHasCause /\ KeysAgree
    BY DEF BootInv, OverlapInv, SigningInv, KeysAgree
<1> QED
    BY <1>1, <1>2, BootStart, BootStep, BootAssumption, PTL DEF BootSpec, BootsConverge

\* An import that finished without an alarm, and during which nobody else wrote
\* transactions, brought every source row (fund-migrate's migrateTable and its
\* count of the target).
THEOREM ImportLossAlwaysReported == BootSpec => []ImportLossReported
<1>1. BootInv => ImportLossReported
    BY DEF BootInv, ImportInv, ImportLossReported
<1> QED
    BY <1>1, BootStart, BootStep, BootAssumption, PTL DEF BootSpec

-----------------------------------------------------------------------------
(* Market data: what a state is                                            *)

Entries == [fetched : Int, at : Int, range : Ranges \cup {"none"}]
Quotes == [at : Int, stamp : Int]
Fetches == [pc : {"fetch", "store"}, symbol : Symbols, range : Ranges, began : Nat, at : Nat]
Readers ==
    [pc : {"join", "recheck", "lead", "upsert", "wait", "reread", "serveRead"},
     read : [Codes -> Quotes], began : Nat]
Leading == {"recheck", "lead", "upsert"}

\* Requests, entries and rows, field by field.
MarketShape ==
    /\ service \in Services /\ rich \in BOOLEAN /\ mclock \in Nat
    /\ cache \in [Slots -> Entries] /\ stockRows \subseteq Symbols
    /\ idx \in [Codes -> Quotes]
    /\ mreq \in [MReqs -> {Free} \cup Fetches \cup Readers]
    /\ flight \in [leader : {Free} \cup MReqs, todo : SUBSET Codes]
    /\ missed \subseteq Codes

\* A fetch has not outlived its client, and what was stored was asked for at
\* most a timeout before; a history is stored under its own range.
FetchInv ==
    /\ \A q \in MReqs : Fetching(q) =>
          mreq[q].began <= mclock /\ mclock <= mreq[q].began + FetchTimeout
    /\ \A q \in MReqs : mreq[q].pc \in {"fetch", "store"} =>
          mreq[q].began <= mreq[q].at /\ mreq[q].at <= mclock
    /\ \A k \in Slots : cache[k] # NoEntry =>
          cache[k].at <= cache[k].fetched /\ cache[k].fetched <= cache[k].at + FetchTimeout
    /\ service = "hist" =>
          \A s \in Symbols, r \in Ranges : cache[<<s, r>>] # NoEntry => cache[<<s, r>>].range = r

\* One request leads the refresh, and who waits waits for it.
FlightInv ==
    /\ \A q \in MReqs : mreq[q].pc \in Leading => flight.leader = q
    /\ flight.leader # Free => mreq[flight.leader].pc \in Leading
    /\ \A q \in MReqs : mreq[q].pc = "wait" => flight.leader # Free
    /\ flight.todo # {} => flight.leader # Free /\ mreq[flight.leader].pc = "upsert"

\* The codes no refresh has to answer for.
Covered == Codes \ (missed \cup flight.todo)

\* They are about as recent as the newest stamp; while a refresh upserts,
\* they are those it has already brought; and before the table is read again
\* they are recent enough to be served.
IndexInv ==
    /\ \A d \in Codes : idx[d].stamp <= mclock
    /\ \A c \in Covered, d \in Codes :
          idx[d].stamp # -1 => idx[c].at >= idx[d].stamp - FetchTimeout
    /\ \A q \in MReqs : mreq[q].pc = "upsert" =>
          \A c \in Covered : idx[c].at >= mreq[q].began
    /\ \A q \in MReqs : mreq[q].pc = "reread" =>
          \A c \in Covered : mclock - idx[c].at <= StaleAfter + FetchTimeout

\* What a request is follows from where it is.
LEMMA RequestKinds ==
    ASSUME MarketShape, NEW q \in MReqs
    PROVE  /\ mreq[q].pc = "free" => mreq[q] = Free
           /\ mreq[q].pc \in {"fetch", "store"} => mreq[q] \in Fetches
           /\ mreq[q].pc \in {"join", "recheck", "lead", "upsert", "wait", "reread", "serveRead"}
                 => mreq[q] \in Readers
           /\ mreq[q].pc \in {"free", "fetch", "store", "join", "recheck", "lead", "upsert",
                              "wait", "reread", "serveRead"}
    BY DEF MarketShape, Free, Fetches, Readers

LEMMA SlotTaken ==
    ASSUME MarketAssumption, MarketShape, NEW s \in Symbols, NEW r \in Ranges
    PROVE  Slot(s, r) \in Slots
    BY DEF Slot, Slots, MarketAssumption, MarketShape

LEMMA NoEntryType == NoEntry \in Entries
    BY DEF NoEntry, Entries

\* Every entry of an evicted cache was there before, or is gone, and no more
\* are left than fit.
LEMMA EvictedKeeps ==
    ASSUME NEW c, NEW e \in Evicted(c)
    PROVE  /\ e = [k \in DOMAIN c |-> e[k]]
           /\ \A k \in DOMAIN c : e[k] = c[k] \/ e[k] = NoEntry
           /\ Cardinality({k \in DOMAIN c : e[k] # NoEntry}) <= MaxEntries
<1> DEFINE live == [k \in DOMAIN c |-> IF Fresh(c[k]) THEN c[k] ELSE NoEntry]
           held == {k \in DOMAIN c : live[k] # NoEntry}
<1>1. PICK d \in SUBSET held :
          /\ Cardinality(held \ d) <= MaxEntries
          /\ e = [k \in DOMAIN c |-> IF k \in d THEN NoEntry ELSE live[k]]
    BY DEF Evicted
<1>2. {k \in DOMAIN c : e[k] # NoEntry} = held \ d
    BY <1>1
<1>3. \A k \in DOMAIN c : e[k] = c[k] \/ e[k] = NoEntry
    BY <1>1
<1> HIDE DEF live, held
<1> QED
    BY <1>1, <1>2, <1>3

\* One step, but for the response it sends.
MarketAct ==
    \/ MTick
    \/ \E q \in MReqs :
          \/ \E s \in Symbols, r \in Ranges : LookUp(q, s, r)
          \/ Answer(q) \/ FetchFails(q) \/ Store(q)
          \/ ReadIndices(q) \/ JoinRefresh(q) \/ Recheck(q)
          \/ \E got \in SUBSET Codes : QuotesArrive(q, got)
          \/ \E c \in Codes, open \in BOOLEAN : UpsertIndex(q, c, open)
          \/ RefreshFails(q) \/ FinishIndices(q)

\* A refresh that ends moves those who were in it, and nobody else.
LEMMA Landed ==
    ASSUME MarketShape, NEW outcome \in {"reread", "serveRead"}, Land(outcome)
    PROVE  /\ mreq' \in [MReqs -> {Free} \cup Fetches \cup Readers]
           /\ flight' = [leader |-> Free, todo |-> {}]
           /\ \A q \in MReqs :
                 IF mreq[q].pc \in {"recheck", "lead", "upsert", "wait"}
                 THEN mreq'[q].pc = outcome ELSE mreq'[q] = mreq[q]
<1>1. ASSUME NEW q \in MReqs, InFlight(q)
      PROVE  /\ mreq'[q] \in Readers /\ mreq'[q].pc = outcome
  <2>1. mreq[q] \in Readers
      BY <1>1, RequestKinds DEF InFlight
  <2>2. mreq'[q] = [mreq[q] EXCEPT !.pc = outcome]
      BY <1>1 DEF Land
  <2> QED
      BY <2>1, <2>2 DEF Readers
<1>2. ASSUME NEW q \in MReqs, ~InFlight(q) PROVE mreq'[q] = mreq[q]
    BY <1>2 DEF Land
<1>3. \A q \in MReqs : mreq'[q] \in {Free} \cup Fetches \cup Readers
    BY <1>1, <1>2 DEF MarketShape
<1>4. mreq' = [q \in MReqs |-> mreq'[q]]
    BY DEF Land
<1> QED
    BY <1>1, <1>2, <1>3, <1>4 DEF Land, InFlight

\* A reader that moves on stays a reader.
LEMMA ReaderMoves ==
    ASSUME MarketShape, NEW q \in MReqs, mreq[q] \in Readers,
           NEW label \in {"recheck", "lead", "upsert", "wait"},
           mreq' = [mreq EXCEPT ![q].pc = label]
    PROVE  /\ mreq' \in [MReqs -> {Free} \cup Fetches \cup Readers]
           /\ mreq'[q] \in Readers /\ mreq'[q].pc = label /\ mreq'[q].began = mreq[q].began
           /\ \A r \in MReqs \ {q} : mreq'[r] = mreq[r]
<1>1. mreq'[q] \in Readers /\ mreq'[q].pc = label /\ mreq'[q].began = mreq[q].began
    BY DEF MarketShape, Readers
<1> QED
    BY <1>1 DEF MarketShape

LEMMA MarketShapeStep ==
    ASSUME MarketAssumption, MarketShape, MarketAct
    PROVE  MarketShape'
<1>1. CASE MTick
    BY <1>1 DEF MTick, MarketShape, Slots
<1>2. ASSUME NEW q \in MReqs, NEW s \in Symbols, NEW r \in Ranges, LookUp(q, s, r)
      PROVE  MarketShape'
  <2>1. [pc |-> "fetch", symbol |-> s, range |-> r, began |-> mclock, at |-> mclock] \in Fetches
      BY DEF Fetches, MarketShape
  <2>2. stockRows' \subseteq Symbols
      BY <1>2 DEF LookUp, MarketShape
  <2> QED
      BY <1>2, <2>1, <2>2 DEF LookUp, MarketShape, Slots
<1>3. ASSUME NEW q \in MReqs, Answer(q) PROVE MarketShape'
  <2>1. mreq[q] \in Fetches
      BY <1>3, RequestKinds DEF Answer
  <2>2. PICK m \in Fetches : m = [mreq[q] EXCEPT !.pc = "store"]
      BY <2>1 DEF Fetches
  <2>3. [m EXCEPT !.at = mclock] \in Fetches
      BY DEF Fetches, MarketShape
  <2>4. mreq' = [mreq EXCEPT ![q] = [m EXCEPT !.at = mclock]]
      BY <1>3, <2>2 DEF Answer
  <2>5. mreq' \in [MReqs -> {Free} \cup Fetches \cup Readers]
      BY <2>3, <2>4 DEF MarketShape
  <2> QED
      BY <1>3, <2>5 DEF Answer, MarketShape, Slots
<1>4. ASSUME NEW q \in MReqs, FetchFails(q) \/ FinishIndices(q) PROVE MarketShape'
    BY <1>4 DEF FetchFails, FinishIndices, MarketShape, Slots
<1>5. ASSUME NEW q \in MReqs, Store(q) PROVE MarketShape'
  <2>1. mreq[q] \in Fetches
      BY <1>5, RequestKinds DEF Store
  <2>2. PICK e \in Entries : e = [fetched |-> mclock, at |-> mreq[q].at, range |-> mreq[q].range]
    <3>1. mclock \in Int /\ mreq[q].at \in Int /\ mreq[q].range \in Ranges
        BY <2>1 DEF Fetches, MarketShape
    <3> QED
        BY <3>1 DEF Entries
  <2>3. Slot(mreq[q].symbol, mreq[q].range) \in Slots
      BY <2>1, SlotTaken DEF Fetches
  <2>4. cache' \in [Slots -> Entries]
    <3>1. CASE service = "fx"
        BY <1>5, <2>2, <3>1 DEF Store, MarketShape, Slots
    <3>2. CASE service # "fx"
      <4>1. PICK c : c = [cache EXCEPT ![Slot(mreq[q].symbol, mreq[q].range)] = e]
          OBVIOUS
      <4>2. c \in [Slots -> Entries] /\ cache' \in Evicted(c)
          BY <1>5, <2>2, <3>2, <4>1 DEF Store, MarketShape
      <4>3. cache' = [k \in DOMAIN c |-> cache'[k]]
          BY <4>2, EvictedKeeps
      <4>4. \A k \in DOMAIN c : cache'[k] = c[k] \/ cache'[k] = NoEntry
          BY <4>2, EvictedKeeps
      <4> QED
          BY <4>2, <4>3, <4>4, NoEntryType
    <3> QED
        BY <3>1, <3>2
  <2>5. stockRows' \subseteq Symbols
      BY <1>5, <2>1 DEF Store, MarketShape, Fetches
  <2>6. mreq' \in [MReqs -> {Free} \cup Fetches \cup Readers]
      BY <1>5 DEF Store, MarketShape
  <2>7. UNCHANGED <<service, rich, mclock, idx, flight, missed>>
      BY <1>5 DEF Store
  <2> QED
      BY <2>4, <2>5, <2>6, <2>7 DEF MarketShape, Slots
<1>6. ASSUME NEW q \in MReqs, ReadIndices(q) PROVE MarketShape'
  <2>1. [pc |-> "join", read |-> idx, began |-> 0] \in Readers
      BY DEF Readers, MarketShape
  <2> QED
      BY <1>6, <2>1 DEF ReadIndices, MarketShape, Slots
<1>7. ASSUME NEW q \in MReqs, JoinRefresh(q) PROVE MarketShape'
  <2>1. mreq[q] \in Readers
      BY <1>7, RequestKinds DEF JoinRefresh
  <2>2. mreq' \in [MReqs -> {Free} \cup Fetches \cup Readers]
      BY <1>7, <2>1, ReaderMoves DEF JoinRefresh
  <2>3. flight' \in [leader : {Free} \cup MReqs, todo : SUBSET Codes]
      BY <1>7 DEF JoinRefresh, MarketShape
  <2> QED
      BY <1>7, <2>2, <2>3 DEF JoinRefresh, MarketShape, Slots
<1>8. ASSUME NEW q \in MReqs, Recheck(q) PROVE MarketShape'
  <2>1. CASE NeedRefresh(idx)
    <3>1. mreq[q] \in Readers
        BY <1>8, RequestKinds DEF Recheck
    <3>2. PICK m \in Readers : m = [mreq[q] EXCEPT !.pc = "lead"]
        BY <3>1 DEF Readers
    <3>3. [m EXCEPT !.began = mclock] \in Readers
        BY DEF Readers, MarketShape
    <3>4. mreq' = [mreq EXCEPT ![q] = [m EXCEPT !.began = mclock]]
        BY <1>8, <2>1, <3>2 DEF Recheck
    <3> QED
        BY <1>8, <2>1, <3>3, <3>4 DEF Recheck, MarketShape, Slots
  <2>2. CASE ~NeedRefresh(idx)
      BY <1>8, <2>2, Landed DEF Recheck, MarketShape, Slots
  <2> QED
      BY <2>1, <2>2
<1>9. ASSUME NEW q \in MReqs, NEW got \in SUBSET Codes, QuotesArrive(q, got) PROVE MarketShape'
  <2>1. mreq[q] \in Readers
      BY <1>9, RequestKinds DEF QuotesArrive
  <2>2. mreq' \in [MReqs -> {Free} \cup Fetches \cup Readers]
      BY <1>9, <2>1, ReaderMoves DEF QuotesArrive
  <2>3. flight' \in [leader : {Free} \cup MReqs, todo : SUBSET Codes]
      BY <1>9 DEF QuotesArrive, MarketShape
  <2> QED
      BY <1>9, <2>2, <2>3 DEF QuotesArrive, MarketShape, Slots
<1>10. ASSUME NEW q \in MReqs, NEW c \in Codes, NEW open \in BOOLEAN, UpsertIndex(q, c, open)
       PROVE  MarketShape'
  <2>1. idx' \in [Codes -> Quotes]
      BY <1>10 DEF UpsertIndex, MarketShape, Quotes
  <2>2. /\ mreq' \in [MReqs -> {Free} \cup Fetches \cup Readers]
        /\ flight' \in [leader : {Free} \cup MReqs, todo : SUBSET Codes]
    <3>1. CASE Land("reread")
        BY <3>1, Landed
    <3>2. CASE ~Land("reread")
        BY <1>10, <3>2 DEF UpsertIndex, MarketShape
    <3> QED
        BY <3>1, <3>2
  <2> QED
      BY <1>10, <2>1, <2>2 DEF UpsertIndex, MarketShape, Slots
<1>11. ASSUME NEW q \in MReqs, RefreshFails(q) PROVE MarketShape'
    BY <1>11, Landed DEF RefreshFails, MarketShape, Slots
<1> QED
    BY <1>1, <1>2, <1>3, <1>4, <1>5, <1>6, <1>7, <1>8, <1>9, <1>10, <1>11 DEF MarketAct

-----------------------------------------------------------------------------
(* The caches                                                              *)

\* The requests of one step: each goes on as before, or is one of these.
LEMMA FetchInvStep ==
    ASSUME MarketAssumption, MarketShape, FetchInv, MarketAct
    PROVE  FetchInv'
<1> USE DEF Fetching
<1>0. mclock \in Nat /\ FetchTimeout \in Nat /\ mreq \in [MReqs -> {Free} \cup Fetches \cup Readers]
    BY DEF MarketShape, MarketAssumption
<1>a. Free.pc = "free"
    BY DEF Free
<1> DEFINE Due(q) ==
        /\ mreq[q].pc \in {"fetch", "store", "lead", "upsert"} =>
             mreq[q].began <= mclock /\ mclock <= mreq[q].began + FetchTimeout
        /\ mreq[q].pc \in {"fetch", "store"} =>
             mreq[q].began <= mreq[q].at /\ mreq[q].at <= mclock
           Held ==
        /\ \A k \in Slots : cache[k] # NoEntry =>
             cache[k].at <= cache[k].fetched /\ cache[k].fetched <= cache[k].at + FetchTimeout
        /\ service = "hist" =>
             \A s \in Symbols, r \in Ranges :
                 cache[<<s, r>>] # NoEntry => cache[<<s, r>>].range = r
<1>b. FetchInv <=> (\A q \in MReqs : Due(q)) /\ Held
    BY DEF FetchInv
<1>c. ASSUME \A q \in MReqs : Due(q)', Held' PROVE FetchInv'
    BY <1>c DEF FetchInv
<1>d. ASSUME UNCHANGED <<cache, service>> PROVE Held'
    BY <1>b, <1>d DEF Slots
<1>e. ASSUME NEW q \in MReqs, mclock' = mclock, mreq'[q] = mreq[q] PROVE Due(q)'
    BY <1>b, <1>e
<1>f. ASSUME NEW q \in MReqs, mreq'[q].pc \notin {"fetch", "store", "lead", "upsert"}
      PROVE  Due(q)'
    BY <1>f
<1>1. CASE MTick
  <2>1. \A q \in MReqs : Due(q)'
    <3> SUFFICES ASSUME NEW q \in MReqs PROVE Due(q)'
        OBVIOUS
    <3>1. /\ mreq[q].pc \in {"fetch", "store", "lead", "upsert"} => mreq[q].began \in Nat
          /\ mreq[q].pc \in {"fetch", "store"} => mreq[q].at \in Nat
        BY RequestKinds DEF Fetches, Readers
    <3>2. /\ mclock' = mclock + 1 /\ mreq' = mreq
          /\ mreq[q].pc \in {"fetch", "store", "lead", "upsert"} =>
                mclock < mreq[q].began + FetchTimeout
        BY <1>1 DEF MTick
    <3> QED
        BY <1>0, <1>b, <3>1, <3>2
  <2> QED
      BY <1>1, <1>c, <1>d, <2>1 DEF MTick
<1>2. ASSUME NEW q \in MReqs, NEW s \in Symbols, NEW r \in Ranges, LookUp(q, s, r)
      PROVE  FetchInv'
  <2>1. mclock' = mclock /\ UNCHANGED <<cache, service>>
      BY <1>2 DEF LookUp
  <2>2. \A o \in MReqs \ {q} : mreq'[o] = mreq[o]
      BY <1>0, <1>2 DEF LookUp
  <2>3. Due(q)'
    <3>1. CASE mreq' = mreq
        BY <1>e, <2>1, <3>1
    <3>2. CASE mreq' = [mreq EXCEPT ![q] = [pc |-> "fetch", symbol |-> s, range |-> r,
                                            began |-> mclock, at |-> mclock]]
        BY <1>0, <2>1, <3>2
    <3> QED
        BY <1>2, <3>1, <3>2 DEF LookUp
  <2> QED
      BY <1>c, <1>d, <1>e, <2>1, <2>2, <2>3
<1>3. ASSUME NEW q \in MReqs, Answer(q) PROVE FetchInv'
  <2>1. mclock' = mclock /\ UNCHANGED <<cache, service>>
      BY <1>3 DEF Answer
  <2>2. \A o \in MReqs \ {q} : mreq'[o] = mreq[o]
      BY <1>0, <1>3 DEF Answer
  <2>3. mreq[q] \in Fetches /\ mreq[q].pc = "fetch"
      BY <1>3, RequestKinds DEF Answer
  <2>4. mreq'[q].pc = "store" /\ mreq'[q].at = mclock /\ mreq'[q].began = mreq[q].began
      BY <1>0, <1>3, <2>3 DEF Answer, Fetches
  <2>5. Due(q)'
      BY <1>0, <1>b, <2>1, <2>3, <2>4
  <2> QED
      BY <1>c, <1>d, <1>e, <2>1, <2>2, <2>5
<1>4. ASSUME NEW q \in MReqs, FetchFails(q) \/ FinishIndices(q) PROVE FetchInv'
  <2>1. mclock' = mclock /\ UNCHANGED <<cache, service>> /\ mreq' = [mreq EXCEPT ![q] = Free]
      BY <1>4 DEF FetchFails, FinishIndices
  <2>2. \A o \in MReqs \ {q} : mreq'[o] = mreq[o]
      BY <1>0, <2>1
  <2>3. mreq'[q].pc = "free"
      BY <1>0, <1>a, <2>1
  <2> QED
      BY <1>c, <1>d, <1>e, <1>f, <2>1, <2>2, <2>3
<1>5. ASSUME NEW q \in MReqs, Store(q) PROVE FetchInv'
  <2>1. mclock' = mclock /\ service' = service /\ mreq' = [mreq EXCEPT ![q] = Free]
      BY <1>5 DEF Store
  <2>2. mreq[q] \in Fetches /\ mreq[q].pc = "store"
      BY <1>5, RequestKinds DEF Store
  <2>3. \A o \in MReqs : Due(o)'
    <3>1. \A o \in MReqs \ {q} : mreq'[o] = mreq[o]
        BY <1>0, <2>1
    <3>2. mreq'[q].pc = "free"
        BY <1>0, <1>a, <2>1
    <3> QED
        BY <1>e, <1>f, <2>1, <3>1, <3>2
  <2>4. PICK e : e = [fetched |-> mclock, at |-> mreq[q].at, range |-> mreq[q].range]
      OBVIOUS
  <2>5. e.at <= e.fetched /\ e.fetched <= e.at + FetchTimeout /\ e.range = mreq[q].range
    <3>1. mreq[q].began \in Nat /\ mreq[q].at \in Nat
        BY <2>2 DEF Fetches
    <3>2. /\ mclock <= mreq[q].began + FetchTimeout
          /\ mreq[q].began <= mreq[q].at /\ mreq[q].at <= mclock
        BY <1>b, <2>2
    <3> QED
        BY <1>0, <2>4, <3>1, <3>2
  <2>6. PICK slot \in Slots : slot = Slot(mreq[q].symbol, mreq[q].range)
      BY <2>2, SlotTaken DEF Fetches
  <2>7. cache \in [Slots -> Entries]
      BY DEF MarketShape
  <2>8. \A k \in Slots : cache'[k] = cache[k] \/ cache'[k] = NoEntry \/ (k = slot /\ cache'[k] = e)
    <3>1. CASE service = "fx"
        BY <1>5, <2>4, <2>6, <2>7, <3>1 DEF Store, Slot
    <3>2. CASE service # "fx"
      <4>1. PICK c : c = [cache EXCEPT ![slot] = e]
          OBVIOUS
      <4>2. cache' \in Evicted(c)
          BY <1>5, <2>4, <2>6, <3>2, <4>1 DEF Store
      <4>3. \A k \in Slots : c[k] = cache[k] \/ (k = slot /\ c[k] = e)
          BY <2>7, <4>1
      <4>4. DOMAIN c = Slots
          BY <2>7, <4>1
      <4>5. \A k \in DOMAIN c : cache'[k] = c[k] \/ cache'[k] = NoEntry
          BY <4>2, EvictedKeeps
      <4> QED
          BY <4>3, <4>4, <4>5
    <3> QED
        BY <3>1, <3>2
  <2>9. Held'
    <3>1. ASSUME NEW k \in Slots, cache'[k] # NoEntry
          PROVE  cache'[k].at <= cache'[k].fetched /\ cache'[k].fetched <= cache'[k].at + FetchTimeout
        BY <1>b, <2>5, <2>8, <3>1
    <3>2. ASSUME service = "hist", NEW s \in Symbols, NEW r \in Ranges, cache'[<<s, r>>] # NoEntry
          PROVE  cache'[<<s, r>>].range = r
      <4>1. <<s, r>> \in Slots
          BY <3>2 DEF Slots
      <4>2. slot = <<mreq[q].symbol, mreq[q].range>>
          BY <2>6, <3>2 DEF Slot
      <4> QED
          BY <1>b, <2>5, <2>8, <3>2, <4>1, <4>2
    <3>3. Slots' = Slots
        BY <2>1 DEF Slots
    <3> QED
        BY <2>1, <3>1, <3>2, <3>3
  <2> QED
      BY <1>c, <2>3, <2>9
<1>6. ASSUME NEW q \in MReqs, ReadIndices(q) \/ JoinRefresh(q) PROVE FetchInv'
  <2>1. mclock' = mclock /\ UNCHANGED <<cache, service>>
      BY <1>6 DEF ReadIndices, JoinRefresh
  <2>2. \A o \in MReqs \ {q} : mreq'[o] = mreq[o]
      BY <1>0, <1>6 DEF ReadIndices, JoinRefresh
  <2>3. mreq'[q] = mreq[q] \/ mreq'[q].pc \in {"join", "recheck", "wait"}
    <3>1. CASE ReadIndices(q)
        BY <1>0, <3>1 DEF ReadIndices
    <3>2. CASE JoinRefresh(q)
        BY <3>2, RequestKinds, ReaderMoves DEF JoinRefresh
    <3> QED
        BY <1>6, <3>1, <3>2
  <2> QED
      BY <1>c, <1>d, <1>e, <1>f, <2>1, <2>2, <2>3
<1>7. ASSUME NEW q \in MReqs, Recheck(q) \/ RefreshFails(q) PROVE FetchInv'
  <2>1. mclock' = mclock /\ UNCHANGED <<cache, service>>
      BY <1>7 DEF Recheck, RefreshFails
  <2>2. CASE Land("reread") \/ Land("serveRead")
    <3>1. \A o \in MReqs : mreq'[o] = mreq[o] \/ mreq'[o].pc \in {"reread", "serveRead"}
        BY <2>2, Landed
    <3> QED
        BY <1>c, <1>d, <1>e, <1>f, <2>1, <3>1
  <2>3. CASE mreq' = [mreq EXCEPT ![q].pc = "lead", ![q].began = mclock]
    <3>1. mreq[q] \in Readers
        BY <1>7, RequestKinds DEF Recheck, RefreshFails
    <3>2. mreq'[q].pc = "lead" /\ mreq'[q].began = mclock
        BY <1>0, <2>3, <3>1 DEF Readers
    <3>3. Due(q)'
        BY <1>0, <2>1, <3>2
    <3>4. \A o \in MReqs \ {q} : mreq'[o] = mreq[o]
        BY <1>0, <2>3
    <3> QED
        BY <1>c, <1>d, <1>e, <2>1, <3>3, <3>4
  <2> QED
      BY <1>7, <2>2, <2>3 DEF Recheck, RefreshFails
<1>8. ASSUME NEW q \in MReqs, NEW got \in SUBSET Codes, QuotesArrive(q, got) PROVE FetchInv'
  <2>1. mclock' = mclock /\ UNCHANGED <<cache, service>>
      BY <1>8 DEF QuotesArrive
  <2>2. mreq[q] \in Readers /\ mreq[q].pc = "lead"
      BY <1>8, RequestKinds DEF QuotesArrive
  <2>3. /\ mreq'[q].pc = "upsert" /\ mreq'[q].began = mreq[q].began
        /\ \A o \in MReqs \ {q} : mreq'[o] = mreq[o]
      BY <1>8, <2>2, ReaderMoves DEF QuotesArrive
  <2>4. Due(q)'
      BY <1>b, <2>1, <2>2, <2>3
  <2> QED
      BY <1>c, <1>d, <1>e, <2>1, <2>3, <2>4
<1>9. ASSUME NEW q \in MReqs, NEW c \in Codes, NEW open \in BOOLEAN, UpsertIndex(q, c, open)
      PROVE  FetchInv'
  <2>1. mclock' = mclock /\ UNCHANGED <<cache, service>>
      BY <1>9 DEF UpsertIndex
  <2>2. \A o \in MReqs : mreq'[o] = mreq[o] \/ mreq'[o].pc = "reread"
      BY <1>9, Landed DEF UpsertIndex
  <2> QED
      BY <1>c, <1>d, <1>e, <1>f, <2>1, <2>2
<1> QED
    BY <1>1, <1>2, <1>3, <1>4, <1>5, <1>6, <1>7, <1>8, <1>9 DEF MarketAct

-----------------------------------------------------------------------------
(* The refresh of the indices                                              *)

LEMMA FlightInvStep ==
    ASSUME MarketAssumption, MarketShape, FlightInv, MarketAct
    PROVE  FlightInv'
<1>0. /\ mreq \in [MReqs -> {Free} \cup Fetches \cup Readers]
      /\ flight \in [leader : {Free} \cup MReqs, todo : SUBSET Codes]
      /\ Free.pc = "free" /\ Free \notin MReqs
    BY DEF MarketShape, MarketAssumption, Free
<1>1. CASE UNCHANGED <<mreq, flight>>
    BY <1>1 DEF FlightInv
<1>2. ASSUME NEW q \in MReqs, flight' = flight,
             \A o \in MReqs \ {q} : mreq'[o] = mreq[o],
             mreq[q].pc \notin Leading \cup {"wait"}, mreq'[q].pc \notin Leading \cup {"wait"}
      PROVE  FlightInv'
    BY <1>0, <1>2 DEF FlightInv
<1>3. ASSUME NEW outcome \in {"reread", "serveRead"}, Land(outcome) PROVE FlightInv'
    BY <1>3, Landed DEF FlightInv, Leading
<1>4. ASSUME NEW q \in MReqs, NEW s \in Symbols, NEW r \in Ranges, LookUp(q, s, r)
      PROVE  FlightInv'
  <2>1. CASE mreq' = mreq
      BY <1>1, <1>4, <2>1 DEF LookUp
  <2>2. CASE mreq' = [mreq EXCEPT ![q] = [pc |-> "fetch", symbol |-> s, range |-> r,
                                          began |-> mclock, at |-> mclock]]
      BY <1>0, <1>2, <1>4, <2>2 DEF LookUp, Leading
  <2> QED
      BY <1>4, <2>1, <2>2 DEF LookUp
<1>5. ASSUME NEW q \in MReqs, Answer(q) PROVE FlightInv'
  <2>1. mreq[q] \in Fetches
      BY <1>5, RequestKinds DEF Answer
  <2>2. mreq'[q].pc = "store"
      BY <1>0, <1>5, <2>1 DEF Answer, Fetches
  <2> QED
      BY <1>0, <1>2, <1>5, <2>2 DEF Answer, Leading
<1>6. ASSUME NEW q \in MReqs, FetchFails(q) \/ Store(q) \/ FinishIndices(q) PROVE FlightInv'
    BY <1>0, <1>2, <1>6 DEF FetchFails, Store, FinishIndices, Leading
<1>7. ASSUME NEW q \in MReqs, ReadIndices(q) PROVE FlightInv'
  <2>1. CASE mreq' = mreq
      BY <1>1, <1>7, <2>1 DEF ReadIndices
  <2>2. CASE mreq' = [mreq EXCEPT ![q] = [pc |-> "join", read |-> idx, began |-> 0]]
      BY <1>0, <1>2, <1>7, <2>2 DEF ReadIndices, Leading
  <2> QED
      BY <1>7, <2>1, <2>2 DEF ReadIndices
<1>8. ASSUME NEW q \in MReqs, JoinRefresh(q) PROVE FlightInv'
  <2>1. mreq[q] \in Readers /\ mreq[q].pc = "join"
      BY <1>8, RequestKinds DEF JoinRefresh
  <2>2. CASE flight.leader = Free
    <3>1. /\ mreq' = [mreq EXCEPT ![q].pc = "recheck"]
          /\ flight'.leader = q /\ flight'.todo = flight.todo
        BY <1>0, <1>8, <2>2 DEF JoinRefresh
    <3>2. mreq'[q].pc = "recheck" /\ \A o \in MReqs \ {q} : mreq'[o] = mreq[o]
        BY <2>1, <3>1, ReaderMoves
    <3>3. \A o \in MReqs \ {q} : mreq[o].pc \notin Leading \cup {"wait"}
        BY <1>0, <2>2 DEF FlightInv
    <3> QED
        BY <1>0, <2>2, <3>1, <3>2, <3>3 DEF FlightInv, Leading
  <2>3. CASE flight.leader # Free
    <3>1. mreq' = [mreq EXCEPT ![q].pc = "wait"] /\ flight' = flight
        BY <1>8, <2>3 DEF JoinRefresh
    <3>2. mreq'[q].pc = "wait" /\ \A o \in MReqs \ {q} : mreq'[o] = mreq[o]
        BY <2>1, <3>1, ReaderMoves
    <3>3. flight.leader \in MReqs \ {q}
        BY <1>0, <2>1, <2>3 DEF FlightInv, Leading
    <3> QED
        BY <1>0, <2>3, <3>1, <3>2, <3>3 DEF FlightInv, Leading
  <2> QED
      BY <2>2, <2>3
<1>9. ASSUME NEW q \in MReqs, mreq[q].pc \in Leading, flight'.leader = flight.leader,
             mreq'[q].pc \in Leading, \A o \in MReqs \ {q} : mreq'[o] = mreq[o],
             flight'.todo = flight.todo \/ mreq'[q].pc = "upsert",
             mreq'[q].pc = "upsert" \/ mreq[q].pc # "upsert"
      PROVE  FlightInv'
    BY <1>0, <1>9 DEF FlightInv, Leading
<1>10. ASSUME NEW q \in MReqs, Recheck(q) PROVE FlightInv'
  <2>1. CASE Land("reread")
      BY <1>3, <2>1
  <2>2. CASE mreq' = [mreq EXCEPT ![q].pc = "lead", ![q].began = mclock] /\ flight' = flight
    <3>1. mreq[q] \in Readers
        BY <1>10, RequestKinds DEF Recheck
    <3>2. mreq'[q].pc = "lead" /\ \A o \in MReqs \ {q} : mreq'[o] = mreq[o]
        BY <1>0, <2>2, <3>1 DEF Readers
    <3> QED
        BY <1>9, <1>10, <2>2, <3>2 DEF Recheck, Leading
  <2> QED
      BY <1>10, <2>1, <2>2 DEF Recheck
<1>11. ASSUME NEW q \in MReqs, NEW got \in SUBSET Codes, QuotesArrive(q, got) PROVE FlightInv'
  <2>1. mreq[q] \in Readers
      BY <1>11, RequestKinds DEF QuotesArrive
  <2>2. mreq'[q].pc = "upsert" /\ \A o \in MReqs \ {q} : mreq'[o] = mreq[o]
      BY <1>11, <2>1, ReaderMoves DEF QuotesArrive
  <2> QED
      BY <1>0, <1>9, <1>11, <2>2 DEF QuotesArrive, Leading
<1>12. ASSUME NEW q \in MReqs, NEW c \in Codes, NEW open \in BOOLEAN, UpsertIndex(q, c, open)
       PROVE  FlightInv'
  <2>1. CASE Land("reread")
      BY <1>3, <2>1
  <2>2. CASE ~Land("reread")
    <3>1. mreq' = mreq /\ flight'.leader = flight.leader /\ flight.todo # {}
        BY <1>0, <1>12, <2>2 DEF UpsertIndex
    <3> QED
        BY <3>1 DEF FlightInv
  <2> QED
      BY <2>1, <2>2
<1>13. ASSUME NEW q \in MReqs, RefreshFails(q) PROVE FlightInv'
    BY <1>3, <1>13 DEF RefreshFails
<1> QED
    BY <1>1, <1>4, <1>5, <1>6, <1>7, <1>8, <1>10, <1>11, <1>12, <1>13 DEF MarketAct, MTick

\* Freshness is judged by the newest stamp, and that one speaks for every
\* covered code.
LEMMA NewestSpeaks ==
    ASSUME MarketAssumption, MarketShape, IndexInv, ~NeedRefresh(idx), NEW c \in Covered
    PROVE  mclock - idx[c].at <= StaleAfter + FetchTimeout
<1>1. PICK d \in Codes : idx[d].stamp # -1 /\ ~(mclock - idx[d].stamp > StaleAfter)
    BY DEF NeedRefresh
<1>2. idx[c].at >= idx[d].stamp - FetchTimeout
    BY <1>1 DEF IndexInv
<1>3. idx[c].at \in Int /\ idx[d].stamp \in Int /\ mclock \in Int
    BY <1>1 DEF MarketShape, Quotes, Covered
<1> QED
    BY <1>1, <1>2, <1>3 DEF MarketAssumption

LEMMA IndexInvStep ==
    ASSUME MarketAssumption, MarketShape, FetchInv, FlightInv, IndexInv, MarketAct
    PROVE  IndexInv'
<1>0. /\ mreq \in [MReqs -> {Free} \cup Fetches \cup Readers]
      /\ flight \in [leader : {Free} \cup MReqs, todo : SUBSET Codes]
      /\ Free.pc = "free" /\ idx \in [Codes -> Quotes]
      /\ mclock \in Nat /\ FetchTimeout \in Nat /\ StaleAfter \in Nat
    BY DEF MarketShape, MarketAssumption, Free
<1>1. ASSUME idx' = idx, mclock' = mclock, Covered' \subseteq Covered,
             \A q \in MReqs : \/ mreq'[q] = mreq[q]
                              \/ mreq'[q].pc \notin {"upsert", "reread"}
      PROVE  IndexInv'
    BY <1>1 DEF IndexInv
<1>2. CASE MTick
  <2>1. \A q \in MReqs : mreq'[q].pc # "reread"
      BY <1>2 DEF MTick
  <2>2. \A d \in Codes : idx[d].stamp <= mclock + 1
      BY <1>0 DEF IndexInv, Quotes
  <2> QED
      BY <1>2, <2>1, <2>2 DEF MTick, IndexInv, Covered
<1>3. ASSUME NEW q \in MReqs, NEW s \in Symbols, NEW r \in Ranges, LookUp(q, s, r)
      PROVE  IndexInv'
    BY <1>0, <1>1, <1>3 DEF LookUp, Covered
<1>4. ASSUME NEW q \in MReqs, Answer(q) PROVE IndexInv'
  <2>1. mreq[q] \in Fetches
      BY <1>4, RequestKinds DEF Answer
  <2>2. mreq'[q].pc = "store"
      BY <1>0, <1>4, <2>1 DEF Answer, Fetches
  <2> QED
      BY <1>0, <1>1, <1>4, <2>2 DEF Answer, Covered
<1>5. ASSUME NEW q \in MReqs, FetchFails(q) \/ Store(q) \/ FinishIndices(q) PROVE IndexInv'
    BY <1>0, <1>1, <1>5 DEF FetchFails, Store, FinishIndices, Covered
<1>6. ASSUME NEW q \in MReqs, ReadIndices(q) PROVE IndexInv'
    BY <1>0, <1>1, <1>6 DEF ReadIndices, Covered
<1>7. ASSUME NEW q \in MReqs, JoinRefresh(q) PROVE IndexInv'
  <2>1. mreq[q] \in Readers
      BY <1>7, RequestKinds DEF JoinRefresh
  <2>2. mreq'[q].pc \in {"recheck", "wait"} /\ \A o \in MReqs \ {q} : mreq'[o] = mreq[o]
      BY <1>7, <2>1, ReaderMoves DEF JoinRefresh
  <2>3. flight'.todo = flight.todo
      BY <1>0, <1>7 DEF JoinRefresh
  <2> QED
      BY <1>1, <1>7, <2>2, <2>3 DEF JoinRefresh, Covered
<1>8. ASSUME NEW q \in MReqs, Recheck(q) PROVE IndexInv'
  <2>1. CASE NeedRefresh(idx)
    <3>1. mreq' = [mreq EXCEPT ![q].pc = "lead", ![q].began = mclock] /\ flight' = flight
        BY <1>8, <2>1 DEF Recheck
    <3>2. mreq[q] \in Readers
        BY <1>8, RequestKinds DEF Recheck
    <3>3. mreq'[q].pc = "lead" /\ \A o \in MReqs \ {q} : mreq'[o] = mreq[o]
        BY <1>0, <3>1, <3>2 DEF Readers
    <3> QED
        BY <1>1, <1>8, <3>1, <3>3 DEF Recheck, Covered
  <2>2. CASE ~NeedRefresh(idx)
    <3>1. Land("reread") /\ UNCHANGED <<idx, mclock, missed>>
        BY <1>8, <2>2 DEF Recheck
    <3>2. mreq[q].pc = "recheck" /\ flight.leader = q
        BY <1>8 DEF Recheck, FlightInv, Leading
    <3>3. \A o \in MReqs : mreq[o].pc # "upsert"
        BY <3>2 DEF FlightInv, Leading
    <3>4. \A c \in Covered : mclock - idx[c].at <= StaleAfter + FetchTimeout
        BY <2>2, NewestSpeaks
    <3>5. \A o \in MReqs : mreq'[o] = mreq[o] \/ mreq'[o].pc = "reread"
        BY <3>1, Landed
    <3>6. flight'.todo = {}
        BY <3>1, Landed
    <3>7. flight.todo = {}
        BY <3>2 DEF FlightInv
    <3>8. Covered' = Covered
        BY <3>1, <3>6, <3>7 DEF Covered
    <3> QED
        BY <3>1, <3>3, <3>4, <3>5, <3>7, <3>8 DEF IndexInv
  <2> QED
      BY <2>1, <2>2
<1>9. ASSUME NEW q \in MReqs, NEW got \in SUBSET Codes, QuotesArrive(q, got) PROVE IndexInv'
  <2>1. Covered' = {}
    <3>1. missed' = missed \cup (Codes \ got) /\ flight'.todo = got
        BY <1>0, <1>9 DEF QuotesArrive
    <3> QED
        BY <3>1 DEF Covered
  <2> QED
      BY <1>9, <2>1 DEF QuotesArrive, IndexInv
<1>10. ASSUME NEW q \in MReqs, NEW c \in Codes, NEW open \in BOOLEAN, UpsertIndex(q, c, open)
       PROVE  IndexInv'
  <2>0. PICK stamp \in Int :
            /\ stamp = IF open THEN mclock
                       ELSE IF idx[c] = NoRow THEN 0 ELSE idx[c].stamp
            /\ stamp \in {mclock, 0, idx[c].stamp}
      BY <1>0 DEF Quotes
  <2>1. PICK row \in Quotes : /\ idx' = [idx EXCEPT ![c] = row] /\ row.at = mclock
                              /\ row.stamp = stamp
    <3>1. [at |-> mclock, stamp |-> stamp] \in Quotes
        BY <1>0 DEF Quotes
    <3>2. idx' = [idx EXCEPT ![c] = [at |-> mclock, stamp |-> stamp]]
        BY <1>10, <2>0 DEF UpsertIndex
    <3> QED
        BY <3>1, <3>2
  <2>2. /\ mreq[q] \in Readers /\ mreq[q].pc = "upsert" /\ mclock' = mclock
        /\ mreq[q].began \in Nat /\ mreq[q].began <= mclock
        /\ mclock <= mreq[q].began + FetchTimeout
      BY <1>10, RequestKinds DEF UpsertIndex, FetchInv, Fetching, Readers
  <2>3. \A k \in Covered' : k \in Covered \/ k = c
      BY <1>0, <1>10 DEF UpsertIndex, Covered, Land
  <2>4. \A k \in Covered' : idx'[k].at \in Int /\ idx'[k].at >= mreq[q].began
      BY <1>0, <2>1, <2>2, <2>3 DEF IndexInv, Covered, Quotes
  <2>5. \A k \in Codes : idx[k].at \in Int /\ idx[k].stamp \in Int
      BY <1>0 DEF Quotes
  <2>6. ASSUME NEW k \in Covered', NEW d \in Codes, idx'[d].stamp # -1
        PROVE  idx'[k].at >= idx'[d].stamp - FetchTimeout
    <3>1. CASE idx'[d].stamp = idx[d].stamp
      <4>1. CASE k = c
        <5>1. idx'[k].at = mclock
            BY <1>0, <2>1, <4>1
        <5>2. idx[d].stamp <= mclock /\ idx[d].stamp \in Int
            BY <2>5, <2>6 DEF IndexInv
        <5> QED
            BY <1>0, <3>1, <5>1, <5>2
      <4>2. CASE k # c
          BY <1>0, <2>1, <2>3, <2>6, <3>1, <4>2 DEF IndexInv
      <4> QED
          BY <4>1, <4>2
    <3>2. CASE idx'[d].stamp \in {mclock, 0}
        BY <1>0, <2>2, <2>4, <3>2
    <3> QED
        BY <1>0, <2>0, <2>1, <3>1, <3>2
  <2>7. \A o \in MReqs : mreq'[o] = mreq[o] \/ mreq'[o].pc = "reread"
      BY <1>10, Landed DEF UpsertIndex
  <2>8. ASSUME NEW o \in MReqs, mreq'[o].pc = "upsert", NEW k \in Covered'
        PROVE  idx'[k].at >= mreq'[o].began
    <3>1. mreq'[o] = mreq[o] /\ o = q
        BY <2>2, <2>7, <2>8 DEF FlightInv, Leading
    <3> QED
        BY <2>4, <2>8, <3>1
  <2>9. ASSUME NEW o \in MReqs, mreq'[o].pc = "reread", NEW k \in Covered'
        PROVE  mclock' - idx'[k].at <= StaleAfter + FetchTimeout
      BY <1>0, <2>2, <2>4
  <2>10. ASSUME NEW d \in Codes PROVE idx'[d].stamp <= mclock'
    <3>1. CASE d = c
        BY <1>0, <2>0, <2>1, <2>2, <2>5, <3>1 DEF IndexInv
    <3>2. CASE d # c
        BY <1>0, <2>1, <2>2, <3>2 DEF IndexInv
    <3> QED
        BY <3>1, <3>2
  <2> QED
      BY <2>6, <2>8, <2>9, <2>10 DEF IndexInv
<1>11. ASSUME NEW q \in MReqs, RefreshFails(q) PROVE IndexInv'
  <2>1. flight'.todo = {} /\ missed' = missed \cup flight.todo
      BY <1>11, Landed DEF RefreshFails
  <2>2. Covered' = Covered
      BY <2>1 DEF Covered
  <2>3. \A o \in MReqs : mreq'[o] = mreq[o] \/ mreq'[o].pc = "serveRead"
      BY <1>11, Landed DEF RefreshFails
  <2> QED
      BY <1>1, <1>11, <2>2, <2>3 DEF RefreshFails
<1> QED
    BY <1>2, <1>3, <1>4, <1>5, <1>6, <1>7, <1>8, <1>9, <1>10, <1>11 DEF MarketAct

-----------------------------------------------------------------------------
(* What is answered                                                        *)

\* A cache holds no more than it may.
WithinCap == service \in {"hist", "snap"} =>
                 Cardinality({k \in Slots : cache[k] # NoEntry}) <= MaxEntries

LEMMA CapStep ==
    ASSUME MarketAssumption, MarketShape, WithinCap, MarketAct
    PROVE  WithinCap'
<1>1. ASSUME NEW q \in MReqs, Store(q), service \in {"hist", "snap"} PROVE WithinCap'
  <2> DEFINE e == [fetched |-> mclock, at |-> mreq[q].at, range |-> mreq[q].range]
             d == [cache EXCEPT ![Slot(mreq[q].symbol, mreq[q].range)] = e]
  <2>0. cache' \in Evicted(d)
      BY <1>1 DEF Store
  <2>a. DOMAIN d = Slots
      BY DEF MarketShape
  <2> HIDE DEF d
  <2>1. PICK c : cache' \in Evicted(c) /\ DOMAIN c = Slots
      BY <2>0, <2>a
  <2>2. Cardinality({k \in Slots : cache'[k] # NoEntry}) <= MaxEntries
      BY <2>1, EvictedKeeps
  <2>3. Slots' = Slots
      BY <1>1 DEF Store, Slots
  <2> QED
      BY <2>2, <2>3 DEF WithinCap
<1>2. ASSUME UNCHANGED <<service, cache>> PROVE WithinCap'
    BY <1>2 DEF WithinCap, Slots
<1>3. ASSUME NEW q \in MReqs, Store(q), service \notin {"hist", "snap"} PROVE WithinCap'
    BY <1>3 DEF WithinCap, Store
<1> QED
    BY <1>1, <1>2, <1>3
       DEF MarketAct, MTick, LookUp, Answer, FetchFails, ReadIndices, JoinRefresh, Recheck,
           QuotesArrive, UpsertIndex, RefreshFails, FinishIndices

\* What a response that does not call itself stale is made of.
RecentReply ==
    reply.source \in {"memory_cache", "yahoo_chart"} =>
        /\ reply.when - reply.at <= FreshFor + FetchTimeout
        /\ service = "hist" \/ (service = "snap" /\ reply.source = "yahoo_chart")
              => reply.range = reply.asked

LEMMA RecentStep ==
    ASSUME MarketAssumption, MarketShape, FetchInv, MarketNext
    PROVE  RecentReply'
<1>0. /\ mclock \in Nat /\ FetchTimeout \in Nat /\ FreshFor \in Nat
      /\ cache \in [Slots -> Entries]
    BY DEF MarketShape, MarketAssumption
<1>1. CASE reply' = NoReply
    BY <1>1 DEF RecentReply, NoReply
<1>2. ASSUME NEW q \in MReqs, NEW s \in Symbols, NEW r \in Ranges, LookUp(q, s, r)
      PROVE  RecentReply'
  <2>1. PICK e : e = cache[Slot(s, r)]
      OBVIOUS
  <2>2. CASE Fresh(e)
    <3>1. /\ reply' = [source |-> "memory_cache", at |-> e.at, asked |-> r, range |-> e.range,
                       when |-> mclock]
          /\ service' = service
        BY <1>2, <2>1, <2>2 DEF LookUp, Respond
    <3>2. Slot(s, r) \in Slots
        BY SlotTaken
    <3>3. e.at \in Int /\ e.fetched \in Int
        BY <1>0, <2>1, <3>2 DEF Entries
    <3>4. e # NoEntry /\ mclock - e.fetched <= FreshFor
        BY <2>2 DEF Fresh
    <3>5. e.fetched <= e.at + FetchTimeout
        BY <2>1, <3>2, <3>4 DEF FetchInv
    <3>6. service = "hist" => e.range = r
        BY <2>1, <3>4 DEF FetchInv, Slot
    <3>7. mclock - e.at <= FreshFor + FetchTimeout
        BY <1>0, <3>3, <3>4, <3>5
    <3> QED
        BY <3>1, <3>6, <3>7 DEF RecentReply
  <2>3. CASE ~Fresh(e)
      BY <1>1, <1>2, <2>1, <2>3 DEF LookUp
  <2> QED
      BY <2>2, <2>3
<1>3. ASSUME NEW q \in MReqs, FetchFails(q) PROVE RecentReply'
    BY <1>3 DEF FetchFails, Respond, RecentReply
<1>4. ASSUME NEW q \in MReqs, Store(q) PROVE RecentReply'
  <2>1. mreq[q] \in Fetches /\ mreq[q].pc = "store"
      BY <1>4, RequestKinds DEF Store
  <2>2. /\ reply' = [source |-> "yahoo_chart", at |-> mreq[q].at, asked |-> mreq[q].range,
                     range |-> mreq[q].range, when |-> mclock]
      BY <1>4 DEF Store, Respond
  <2>3. /\ mreq[q].began \in Nat /\ mreq[q].at \in Nat
        /\ mclock <= mreq[q].began + FetchTimeout /\ mreq[q].began <= mreq[q].at
      BY <2>1 DEF Fetches, FetchInv, Fetching
  <2>4. mclock - mreq[q].at <= FreshFor + FetchTimeout
      BY <1>0, <2>3
  <2> QED
      BY <2>2, <2>4 DEF RecentReply
<1>5. ASSUME NEW q \in MReqs, ReadIndices(q) \/ FinishIndices(q) PROVE RecentReply'
    BY <1>1, <1>5 DEF ReadIndices, FinishIndices, ReplyRows, RecentReply
<1> QED
    BY <1>1, <1>2, <1>3, <1>4, <1>5 DEF MarketNext, Responding

\* The rows of a table that is served are recent where they are covered.
LEMMA ServedStep ==
    ASSUME MarketAssumption, MarketShape, IndexInv, MarketNext
    PROVE  StaleIndexHasCause'
<1>1. ASSUME NEW q \in MReqs, ReplyRows(idx, "table"),
             \A c \in Covered : mclock - idx[c].at <= StaleAfter + FetchTimeout
      PROVE  StaleIndexHasCause'
  <2>1. reply' = [source |-> "table", rows |-> idx, when |-> mclock, missed |-> missed \cup flight.todo]
      BY <1>1 DEF ReplyRows
  <2>2. ASSUME NEW c \in Codes, mclock - idx[c].at > StaleAfter + FetchTimeout
        PROVE  c \in missed \cup flight.todo
    <3>1. mclock \in Int /\ idx[c].at \in Int /\ StaleAfter + FetchTimeout \in Int
        BY DEF MarketShape, MarketAssumption, Quotes
    <3>2. c \notin Covered
        BY <1>1, <2>2, <3>1
    <3> QED
        BY <3>2 DEF Covered
  <2> QED
      BY <2>1, <2>2 DEF StaleIndexHasCause
<1>2. ASSUME reply'.source # "table" PROVE StaleIndexHasCause'
    BY <1>2 DEF StaleIndexHasCause
<1>3. ASSUME NEW q \in MReqs, ReadIndices(q) PROVE StaleIndexHasCause'
  <2>1. CASE NeedRefresh(idx)
      BY <1>2, <1>3, <2>1 DEF ReadIndices, NoReply
  <2>2. CASE ~NeedRefresh(idx)
      BY <1>1, <1>3, <2>2, NewestSpeaks DEF ReadIndices
  <2> QED
      BY <2>1, <2>2
<1>4. ASSUME NEW q \in MReqs, FinishIndices(q) PROVE StaleIndexHasCause'
  <2>1. CASE mreq[q].pc = "reread"
      BY <1>1, <1>4, <2>1 DEF FinishIndices, IndexInv
  <2>2. CASE mreq[q].pc # "reread"
      BY <1>2, <1>4, <2>2 DEF FinishIndices, ReplyRows
  <2> QED
      BY <2>1, <2>2
<1>5. ASSUME NEW q \in MReqs, NEW s \in Symbols, NEW r \in Ranges, LookUp(q, s, r)
      PROVE  StaleIndexHasCause'
    BY <1>2, <1>5 DEF LookUp, Respond, NoReply
<1>6. ASSUME NEW q \in MReqs, FetchFails(q) \/ Store(q) PROVE StaleIndexHasCause'
    BY <1>2, <1>6 DEF FetchFails, Store, Respond
<1>7. reply' = NoReply => StaleIndexHasCause'
    BY <1>2 DEF NoReply
<1> QED
    BY <1>3, <1>4, <1>5, <1>6, <1>7 DEF MarketNext, Responding

-----------------------------------------------------------------------------
(* The theorems                                                            *)

MarketInv ==
    /\ MarketShape /\ FetchInv /\ FlightInv /\ IndexInv
    /\ WithinCap /\ RecentReply /\ StaleIndexHasCause

LEMMA MarketStart == MarketAssumption /\ MarketInit => MarketInv
<1> SUFFICES ASSUME MarketAssumption, MarketInit PROVE MarketInv
    OBVIOUS
<1>1. MarketShape
  <2>1. cache \in [Slots -> Entries] /\ idx \in [Codes -> Quotes]
      BY NoEntryType DEF MarketInit, Quotes, NoRow
  <2>2. mreq \in [MReqs -> {Free} \cup Fetches \cup Readers]
      BY DEF MarketInit
  <2>3. flight \in [leader : {Free} \cup MReqs, todo : SUBSET Codes]
      BY DEF MarketInit
  <2>4. service \in Services /\ rich \in BOOLEAN /\ mclock \in Nat /\ stockRows \subseteq Symbols
        /\ missed \subseteq Codes
      BY DEF MarketInit
  <2> QED
      BY <2>1, <2>2, <2>3, <2>4 DEF MarketShape
<1>2. FetchInv /\ FlightInv
    BY DEF MarketInit, FetchInv, FlightInv, Fetching, Free, Leading, Slots
<1>3. IndexInv
    BY DEF MarketInit, IndexInv, NoRow, Free, Covered
<1>4. WithinCap
  <2>1. {k \in Slots : cache[k] # NoEntry} = {}
      BY DEF MarketInit
  <2> QED
      BY <2>1, FS_EmptySet DEF WithinCap, MarketAssumption
<1>5. RecentReply /\ StaleIndexHasCause
    BY DEF MarketInit, RecentReply, StaleIndexHasCause, NoReply
<1> QED
    BY <1>1, <1>2, <1>3, <1>4, <1>5 DEF MarketInv

LEMMA MarketStep == MarketAssumption /\ MarketInv /\ [MarketNext]_marketVars => MarketInv'
<1> SUFFICES ASSUME MarketAssumption, MarketInv, [MarketNext]_marketVars PROVE MarketInv'
    OBVIOUS
<1>1. CASE MarketNext
  <2>1. MarketAct
      BY <1>1 DEF MarketNext, Responding, Silent, MarketAct
  <2> QED
      BY <1>1, <2>1, MarketShapeStep, FetchInvStep, FlightInvStep, IndexInvStep, CapStep,
         RecentStep, ServedStep DEF MarketInv
<1>2. CASE UNCHANGED marketVars
  <2>1. MarketShape' /\ FetchInv' /\ FlightInv'
      BY <1>2 DEF marketVars, MarketInv, MarketShape, FetchInv, FlightInv, Fetching, Slots
  <2>2. IndexInv' /\ WithinCap' /\ RecentReply' /\ StaleIndexHasCause'
      BY <1>2 DEF marketVars, MarketInv, IndexInv, Covered, WithinCap, Slots, RecentReply,
                  StaleIndexHasCause
  <2> QED
      BY <2>1, <2>2 DEF MarketInv
<1> QED
    BY <1>1, <1>2

\* Every variable has its type, and whoever waits for a refresh waits for one
\* that is under way (indicesRefreshSF).
THEOREM MarketTypeCorrect == MarketSpec => []MarketTypeOK
<1>1. ASSUME MarketAssumption, MarketInv PROVE MarketTypeOK
  <2>1. /\ service \in Services /\ rich \in BOOLEAN /\ mclock \in Nat
        /\ DOMAIN cache = Slots /\ stockRows \subseteq Symbols
        /\ \A k \in Slots : cache[k].fetched \in Int /\ cache[k].at \in Int
        /\ \A c \in Codes : idx[c] \in [at : Int, stamp : Int]
        /\ missed \subseteq Codes /\ flight.todo \subseteq Codes
      BY <1>1 DEF MarketInv, MarketShape, Entries, Quotes
  <2>2. WaitersHaveLeader
      BY <1>1 DEF MarketInv, MarketShape, FlightInv, Leading, WaitersHaveLeader
  <2> QED
      BY <2>1, <2>2 DEF MarketTypeOK
<1> QED
    BY <1>1, MarketStart, MarketStep, MarketAssumption, PTL DEF MarketSpec

\* A response that does not call itself stale carries data at most a lifetime
\* and a timeout old, for the range that was asked for, and the caches keep to
\* their caps (GetExchangeRate, GetIndexHistory, GetUSStock).
THEOREM CachedDataAlwaysRecent == MarketSpec => []CachedDataIsRecent
<1>1. MarketInv => CachedDataIsRecent
    BY DEF MarketInv, WithinCap, RecentReply, CachedDataIsRecent
<1> QED
    BY <1>1, MarketStart, MarketStep, MarketAssumption, PTL DEF MarketSpec

\* An index served without a failure is older than indicesStaleAfter and a
\* timeout only if the last refresh did not bring it (indicesNeedRefresh).
THEOREM StaleIndexAlwaysHasCause == MarketSpec => []StaleIndexHasCause
<1>1. MarketInv => StaleIndexHasCause
    BY DEF MarketInv
<1> QED
    BY <1>1, MarketStart, MarketStep, MarketAssumption, PTL DEF MarketSpec
=============================================================================
