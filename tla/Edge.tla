-------------------------------- MODULE Edge --------------------------------
(***************************************************************************)
(* What a request meets before its handler (internal/httpapi): token       *)
(* buckets, keyed by client address or by bearer token, and the guards     *)
(* that check its credentials, in the order the router mounts them.        *)
(*                                                                         *)
(* Tokens are measured by the time it takes to earn them, so a bucket      *)
(* gains one unit per instant, Cost[l] units are a token of limiter l and  *)
(* Burst[l] is its capacity.  A behaviour is one process: buckets are in   *)
(* memory, and the next process starts with none.                          *)
(***************************************************************************)
EXTENDS Integers, Sequences, FiniteSetsExt

CONSTANTS
    EReqs,                    \* requests in flight
    Addrs,                    \* network addresses
    Trusted,                  \* those of FUND_TRUSTED_PROXIES
    Bearers,                  \* bearer tokens
    AdminKey, PublicKey,      \* MCP_API_KEY and PUBLIC_MCP_KEY, or NoBearer
    OAuthTokens,              \* bearers the OAuth server has issued
    NoBearer,                 \* no token, an empty setting
    EdgeAuthEnabled,          \* FUND_EDGE_AUTH_ENABLED, with a key configured
    Traffics,                 \* sets of requests that may arrive in one behaviour
    Cost, Burst,              \* per limiter: a token, and the capacity
    SweepInterval,            \* between two sweeps of a limiter
    Second,                   \* instants per second
    NoBucket, Vacant,         \* no bucket for a key, no request in a slot
    MaxEClock, MaxArrivals    \* bounds of the instance

Limiters   == {"api", "expensive", "oauth", "preauth", "mcp"}
Guards     == {"AdminAuth", "SessionAuth", "BrowserWriteAuth", "MCPAuth"}
Routes     == {"health", "admin", "read", "report", "write", "adjust", "oauth", "mcp"}
BucketKeys == Addrs \cup Bearers
Bucket     == [tokens : Int, last : Int]
Arrivals   == UNION Traffics

ASSUME LimiterAssumption ==
    /\ Cost \in [Limiters -> Nat \ {0}]
    /\ Burst \in [Limiters -> Nat]
    /\ \A l \in Limiters : Burst[l] >= Cost[l]
    /\ SweepInterval \in Nat /\ Second \in Nat \ {0}
    /\ NoBucket \notin Bucket

\* A caller is no trusted proxy; the proxies it comes through are.
ASSUME ArrivalAssumption ==
    /\ Trusted \subseteq Addrs
    /\ OAuthTokens \subseteq Bearers /\ NoBearer \notin Bearers
    /\ Vacant \notin Arrivals
    /\ \A r \in Arrivals :
          /\ r.route \in Routes
          /\ r.from \in Addrs \ Trusted
          /\ r.hops \in Seq(Trusted) /\ r.forged \in Seq(Addrs)
          /\ r.bearer \in Bearers \cup {NoBearer}

VARIABLES
    eclock,
    traffic,                  \* what arrives in this behaviour
    bucket,                   \* limiter, key -> bucket or NoBucket
    lastSweep,                \* limiter -> when it swept last
    ereq, gates,              \* request -> what arrived, and the gates still before it
    arrived,                  \* how many have arrived
    charges,                  \* history: the tokens taken
    promise                   \* history: when Retry-After promised a token

edgeVars == <<eclock, traffic, bucket, lastSweep, ereq, gates, arrived, charges, promise>>

-----------------------------------------------------------------------------
(* The key of a request *)

\* A proxy appends the address it was called from to X-Forwarded-For.
Forwarded(r) == IF r.hops = <<>> THEN r.forged
                ELSE r.forged \o <<r.from>> \o SubSeq(r.hops, 1, Len(r.hops) - 1)
Peer(r)      == IF r.hops = <<>> THEN r.from ELSE r.hops[Len(r.hops)]

\* The rightmost address that is no trusted proxy, when the direct peer is one.
clientIP(r) ==
    LET xff == Forwarded(r)
        untrusted == {i \in DOMAIN xff : xff[i] \notin Trusted}
    IN  IF Peer(r) \notin Trusted \/ untrusted = {} THEN Peer(r) ELSE xff[Max(untrusted)]

KeyOf(l, r) == IF l = "mcp" THEN r.bearer ELSE clientIP(r)

-----------------------------------------------------------------------------
(* RateLimiter *)

\* What a bucket holds by now.
Refilled(l, b) ==
    LET gained == b.tokens + (eclock - b.last)
    IN  IF gained <= Burst[l] THEN gained ELSE Burst[l]

\* Mutant of IdleBucket: whoever could be served is taken for idle.
IdleServable(l, k) == bucket[l][k] # NoBucket /\ Refilled(l, bucket[l][k]) >= Cost[l]

\* A bucket that is full again, which the sweep drops.
IdleBucket(l, k) == bucket[l][k] # NoBucket /\ Refilled(l, bucket[l][k]) >= Burst[l]

SweepDue(l) == eclock - lastSweep[l] >= SweepInterval
Kept(l, k) == IF SweepDue(l) /\ IdleBucket(l, k) THEN NoBucket ELSE bucket[l][k]

\* What the bucket of a key holds when it is looked up.
Level(l, k) == IF Kept(l, k) = NoBucket THEN Burst[l] ELSE Refilled(l, Kept(l, k))

PutBucket(l, k, level) ==
    /\ bucket' = [bucket EXCEPT ![l] =
                     [j \in BucketKeys |-> IF j = k THEN [tokens |-> level, last |-> eclock]
                                           ELSE Kept(l, j)]]
    /\ lastSweep' = [lastSweep EXCEPT ![l] = IF SweepDue(l) THEN eclock ELSE @]

\* Seconds, cut to whole ones, and one more.
RetryAfter(l, level) == ((Cost[l] - level) \div Second) + 1

\* Everything a key has taken so far.
Paid(l, k) == Max({0} \cup {c.sum : c \in {d \in charges : d.limiter = l /\ d.key = k}})

\* Allow, called for a request from some address: a token is taken, or none is left.
Allow(l, k, from) ==
    /\ Level(l, k) >= Cost[l]
    /\ PutBucket(l, k, Level(l, k) - Cost[l])
    /\ charges' = charges \cup {[limiter |-> l, key |-> k, at |-> eclock,
                                 sum |-> Paid(l, k) + Cost[l], by |-> from]}
    /\ promise' = {p \in promise : ~(p.limiter = l /\ p.key = k)}

Refuse(l, k) ==
    /\ Level(l, k) < Cost[l]
    /\ PutBucket(l, k, Level(l, k))
    /\ promise' = promise \cup {[limiter |-> l, key |-> k,
                                 at |-> eclock + Second * RetryAfter(l, Level(l, k))]}
    /\ UNCHANGED charges

-----------------------------------------------------------------------------
(* Guards.  Whether a cookie's session or a token's signature and dates are
   good is decided by Sessions and OAuth: valid stands for their answer. *)

AdminAuth(r) == r.bearer # NoBearer /\ r.bearer = AdminKey

matchMCPKey(r) == r.bearer \in {AdminKey, PublicKey}

MCPAuth(r, valid) == r.bearer # NoBearer /\ (matchMCPKey(r) \/ (r.bearer \in OAuthTokens /\ valid))

browserMutationAllowed(r) == ~r.crossSite /\ r.origin # "foreign"

SessionAuth(r, valid) == r.cookie /\ valid /\ (r.unsafe => browserMutationAllowed(r) /\ r.csrf)

BrowserWriteAuth(r, valid) ==
    LET viaSession == r.cookie /\ valid
    IN  /\ viaSession \/ (EdgeAuthEnabled /\ r.edgeKey)
        /\ r.unsafe => browserMutationAllowed(r) /\ (viaSession => r.csrf)

Admits(g, r, valid) ==
    CASE g = "AdminAuth"        -> AdminAuth(r)
      [] g = "MCPAuth"          -> MCPAuth(r, valid)
      [] g = "SessionAuth"      -> SessionAuth(r, valid)
      [] g = "BrowserWriteAuth" -> BrowserWriteAuth(r, valid)

\* The middleware in front of each group of routes; report and adjust are the
\* expensive paths among the reads and the writes.
Chain(route) ==
    CASE route = "health" -> <<"api">>
      [] route = "admin"  -> <<"api", "AdminAuth">>
      [] route = "read"   -> <<"api", "SessionAuth">>
      [] route = "report" -> <<"api", "expensive", "SessionAuth">>
      [] route = "write"  -> <<"api", "BrowserWriteAuth">>
      [] route = "adjust" -> <<"api", "expensive", "BrowserWriteAuth">>
      [] route = "oauth"  -> <<"oauth">>
      [] route = "mcp"    -> <<"preauth", "MCPAuth", "mcp">>

-----------------------------------------------------------------------------
EdgeInit ==
    /\ eclock = 0 /\ traffic \in Traffics
    /\ bucket = [l \in Limiters |-> [k \in BucketKeys |-> NoBucket]]
    /\ lastSweep = [l \in Limiters |-> -SweepInterval]
    /\ ereq = [q \in EReqs |-> Vacant]
    /\ gates = [q \in EReqs |-> <<>>]
    /\ arrived = 0
    /\ charges = {} /\ promise = {}

Arrive(q, r) ==
    /\ ereq[q] = Vacant /\ arrived < MaxArrivals
    /\ arrived' = arrived + 1
    /\ ereq' = [ereq EXCEPT ![q] = r]
    /\ gates' = [gates EXCEPT ![q] = Chain(r.route)]
    /\ UNCHANGED <<eclock, traffic, bucket, lastSweep, charges, promise>>

AtGate(q, S) == gates[q] # <<>> /\ Head(gates[q]) \in S
Pass(q) == gates' = [gates EXCEPT ![q] = Tail(@)] /\ UNCHANGED <<ereq, arrived, eclock, traffic>>
SendReply(q) ==
    /\ ereq' = [ereq EXCEPT ![q] = Vacant] /\ gates' = [gates EXCEPT ![q] = <<>>]
    /\ UNCHANGED <<arrived, eclock, traffic>>

RateLimit(q) ==
    LET l == Head(gates[q])
        k == KeyOf(l, ereq[q])
    IN  /\ AtGate(q, Limiters)
        /\ \/ Allow(l, k, ereq[q].from) /\ Pass(q)
           \/ Refuse(l, k) /\ SendReply(q)

Authenticate(q) ==
    /\ AtGate(q, Guards)
    /\ \E valid \in BOOLEAN :
          IF Admits(Head(gates[q]), ereq[q], valid) THEN Pass(q) ELSE SendReply(q)
    /\ UNCHANGED <<bucket, lastSweep, charges, promise>>

\* The handler has answered.
Handled(q) ==
    /\ ereq[q] # Vacant /\ gates[q] = <<>> /\ SendReply(q)
    /\ UNCHANGED <<bucket, lastSweep, charges, promise>>

EdgeTick ==
    /\ eclock < MaxEClock /\ eclock' = eclock + 1
    /\ UNCHANGED <<traffic, bucket, lastSweep, ereq, gates, arrived, charges, promise>>

EdgeNext ==
    \/ \E q \in EReqs, r \in traffic : Arrive(q, r)
    \/ \E q \in EReqs : RateLimit(q) \/ Authenticate(q) \/ Handled(q)
    \/ EdgeTick

EdgeSpec == EdgeInit /\ [][EdgeNext]_edgeVars

-----------------------------------------------------------------------------
Charge  == [limiter : Limiters, key : BucketKeys, at : Int, sum : Int, by : Addrs]
Promise == [limiter : Limiters, key : BucketKeys, at : Int]

\* Every bucket, request and history value has its type.
EdgeTypeOK ==
    /\ eclock \in Nat /\ arrived \in Nat /\ traffic \in Traffics
    /\ bucket \in [Limiters -> [BucketKeys -> Bucket \cup {NoBucket}]]
    /\ lastSweep \in [Limiters -> Int]
    /\ ereq \in [EReqs -> Arrivals \cup {Vacant}]
    /\ gates \in [EReqs -> Seq(Limiters \cup Guards)]
    /\ charges \subseteq Charge
    /\ promise \subseteq Promise

\* Between any two tokens taken by one key, both included, a limiter gives out
\* no more than its burst and what the time between them earns, whatever the
\* sweep has dropped meanwhile (Allow, sweep).
RateIsBounded ==
    \A c, d \in charges :
        c.limiter = d.limiter /\ c.key = d.key /\ c.sum <= d.sum =>
            (d.sum - c.sum) + Cost[c.limiter] <= Burst[c.limiter] + (d.at - c.at)

\* Who waits as long as Retry-After said, and finds that nobody else has used
\* the key, is let in (RateLimit).
RetrySuffices ==
    \A p \in promise : p.at <= eclock => Level(p.limiter, p.key) >= Cost[p.limiter]

\* An address pays for what it sent itself, whatever X-Forwarded-For says, and
\* a bearer token has a bucket only once it has been accepted (clientIP and the
\* order of the middleware).
PayersAreReal ==
    \A c \in charges :
        IF c.limiter = "mcp" THEN c.key \in {AdminKey, PublicKey} \cup OAuthTokens
        ELSE c.by = c.key

\* What the limiters promise: rates, retries, and who pays.
LimitsHold == RateIsBounded /\ RetrySuffices /\ PayersAreReal
=============================================================================
