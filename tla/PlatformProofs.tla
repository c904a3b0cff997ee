---------------------------- MODULE PlatformProofs ----------------------------
(***************************************************************************)
(* Theorems about the crawl batches of module Crawl, for any securities,   *)
(* disclosures, cap and staleness; and about the platform, whose behaviour *)
(* is a behaviour of each of its parts.                                    *)
(***************************************************************************)
EXTENDS MCPlatform, PartsProofs, FiniteSetTheorems, WellFoundedInduction, TLAPS

-----------------------------------------------------------------------------
(* The newest of a set of dates                                            *)

LEMMA Before ==
    ASSUME NEW x \in Nat, NEW y \in Nat, x < y
    PROVE  <<x, y>> \in OpToRel(<, Nat)
    BY DEF OpToRel

LEMMA SmallestOf ==
    ASSUME NEW T \in SUBSET Nat, T # {}
    PROVE  \E x \in T : \A y \in T : x <= y
<1>1. PICK x \in T : \A y \in T : ~ (<<y, x>> \in OpToRel(<, Nat))
    BY NatLessThanWellFounded, WFMin
<1>2. ASSUME NEW y \in T, y < x PROVE FALSE
  <2>1. <<y, x>> \in OpToRel(<, Nat)
      BY <1>2, Before
  <2> QED
      BY <1>1, <2>1, Zenon
<1>3. ASSUME NEW y \in T PROVE x <= y
    BY <1>2, <1>3
<1> QED
    BY <1>3

LEMMA LargestOf ==
    ASSUME NEW n \in Nat, NEW T \in SUBSET (1..n), T # {}
    PROVE  \E x \in T : \A y \in T : x >= y
<1> DEFINE gaps == {n - t : t \in T}
<1>1. gaps \in SUBSET Nat /\ gaps # {}
  <2>1. ASSUME NEW t \in T PROVE n - t \in Nat
      OBVIOUS
  <2>2. gaps # {}
      OBVIOUS
  <2>3. \A g \in gaps : \E t \in T : g = n - t
      OBVIOUS
  <2>4. \A g \in gaps : g \in Nat
      BY <2>1, <2>3
  <2> QED
      BY <2>2, <2>4
<1>2. PICK g \in gaps : \A y \in gaps : g <= y
    BY <1>1, SmallestOf
<1>3. PICK x \in T : g = n - x
    BY <1>2
<1>4. ASSUME NEW y \in T PROVE x >= y
  <2>1. g <= n - y
      BY <1>2, <1>4
  <2> HIDE DEF gaps
  <2>2. x \in 1..n /\ y \in 1..n
      OBVIOUS
  <2> QED
      BY <2>1, <2>2, <1>3
<1> QED
    BY <1>4

LEMMA NewestIs ==
    ASSUME NEW D \in SUBSET (1..MaxDay)
    PROVE  /\ Newest(D) \in Nat
           /\ D = {} => Newest(D) = 0
           /\ D # {} => Newest(D) \in D
           /\ \A d \in D : d <= Newest(D)
<1>1. CASE D = {}
    BY <1>1 DEF Newest
<1>2. CASE D # {}
  <2>1. \E x \in D : \A y \in D : x >= y
      BY CrawlAssumption, <1>2, LargestOf
  <2>2. Max(D) \in D /\ \A y \in D : Max(D) >= y
      BY <2>1 DEF Max
  <2>3. Newest(D) = Max(D)
      BY <1>2 DEF Newest
  <2>4. \A d \in D : d \in Nat
      BY CrawlAssumption
  <2> QED
      BY <1>2, <2>2, <2>3, <2>4
<1> QED
    BY <1>1, <1>2

-----------------------------------------------------------------------------
(* The crawls: what a state is                                             *)

Dates == 1..MaxDay
Tuples == [stock : Stocks, val : Nat, gen : Nat]
CStages == {"next", "fetch", "since", "store", "recalc", "match", "begin", "rewrite"}
CKinds == {"single", "stale", "held", "recalc", "holdings"}
CRequests ==
    [pc : CStages, via : {"rest", "mcp", "job"}, kind : CKinds, due : SUBSET Secs,
     base : [Secs -> Nat], dropped : SUBSET Secs, todo : SUBSET Secs, code : Secs \cup {"none"},
     got : (SUBSET Dates) \cup Disclosures, since : Nat, del : SUBSET Tuples, overlap : BOOLEAN,
     done : SUBSET Secs, failed : SUBSET Secs, ctx : {"live", "deadline", "cancelled"}]

CrawlShape ==
    /\ work \in Works /\ pg \in BOOLEAN /\ today \in Dates
    /\ series \in [Secs -> SUBSET Dates] /\ stored \in [Secs -> SUBSET Dates]
    /\ disclosed \in [Secs -> {<<>>} \cup Disclosures]
    /\ slice \in [Secs -> SUBSET Tuples] /\ gen \in Nat
    /\ creq \in [CReqs -> {Unused} \cup CRequests]

\* A request accounts for every code it has to cover, one or a list.
Accounted(r) ==
    /\ r.due = r.dropped \cup r.todo \cup r.done \cup r.failed \cup ({r.code} \ {"none"})
    /\ r.pc = "next" <=> r.code = "none"
    /\ r.kind = "single" => \A c, d \in r.due : c = d

\* What a request has behind it has brought the series up to where it was at
\* the start, and what it holds will.
Caught(n, dates) == n = 0 \/ \E e \in dates : n <= e
Reaches(r, there, here) ==
    /\ \A c \in Secs : Caught(r.base[c], there[c])
    /\ r.kind # "recalc" =>
         /\ \A c \in r.done : Caught(r.base[c], here[c])
         /\ r.pc = "recalc" => Caught(r.base[r.code], here[r.code])
    /\ r.pc \in {"since", "store"} =>
         r.got \subseteq there[r.code] /\ r.got # {} /\ Caught(r.base[r.code], r.got)
    /\ r.kind = "recalc" => r.pc \in {"next", "recalc"}

RequestInv ==
    \A q \in CReqs : creq[q] # Unused =>
        /\ Accounted(creq[q]) /\ Reaches(creq[q], series, stored)
        /\ creq[q].kind \in Kinds(creq[q].via)

\* A published date older than a stored one is stored, was late, or was cut
\* off; and so it will be once an answer in flight is stored.
Older(c, there, newer, here, causes) ==
    \A d \in there \ here : \A e \in newer : d < e => <<c, d>> \in causes

SeriesInv ==
    /\ \A c \in Secs : stored[c] \subseteq series[c]
    /\ \A c \in Secs : Older(c, series[c], stored[c], stored[c], late \cup cut)
    /\ \A q \in CReqs : creq[q].pc = "since" =>
          LET c == creq[q].code IN Older(c, series[c], creq[q].got, creq[q].got, late)
    /\ \A q \in CReqs : creq[q].pc = "store" =>
          LET c == creq[q].code
          IN  Older(c, series[c], creq[q].got, creq[q].got \cup stored[c], late \cup cut)

\* The rows of a fund are those of one answer, unless rewrites overlapped.
OneAnswer(t) ==
    t = {} \/ \E answer \in Disclosures, g \in Nat :
                 t = {[stock |-> n.stock, val |-> n.val, gen |-> g] : n \in StoredRows(answer)}

SliceInv ==
    /\ \A c \in Secs : OneAnswer(slice[c]) \/ (pg /\ c \in lapped)
    /\ \A c \in Secs : \A t \in slice[c] : 1 <= t.gen /\ t.gen <= gen

\* Series are crawled in one workload, disclosures in another.
WorkInv ==
    /\ work = "holdings" => \A c \in Secs : series[c] = {}
    /\ \A q \in CReqs : creq[q].pc \in {"match", "begin", "rewrite"} =>
          work = "holdings" /\ creq[q].got \in Disclosures
    /\ \A q \in CReqs : creq[q].pc \in {"since", "store"} => work # "holdings"

\* A rewrite deletes all there is, unless another one is under way.
RewriteInv ==
    /\ \A q \in CReqs : creq[q].pc = "rewrite" =>
          IF creq[q].overlap THEN pg ELSE creq[q].del = slice[creq[q].code]
    /\ \A q \in CReqs : \A o \in CReqs \ {q} :
          creq[q].pc = "rewrite" /\ creq[o].pc = "rewrite" =>
              pg /\ (creq[q].code = creq[o].code => creq[q].overlap)

-----------------------------------------------------------------------------
(* How requests move                                                       *)

LEMMA StagesOf ==
    ASSUME CrawlShape, NEW q \in CReqs
    PROVE  /\ creq[q].pc = "free" <=> creq[q] = Unused
           /\ creq[q].pc \in CStages <=> creq[q] \in CRequests
           /\ creq[q] = Unused \/ creq[q] \in CRequests
           /\ Unused \notin CRequests
    BY DEF CrawlShape, Unused, CRequests, CStages

\* What a request asks for never changes.
Keeps(r, s) ==
    /\ s.via = r.via /\ s.kind = r.kind /\ s.due = r.due /\ s.base = r.base
    /\ s.dropped = r.dropped

LEMMA Settles ==
    ASSUME CrawlShape, NEW q \in CReqs, creq[q] \in CRequests, creq[q].code \in Secs,
           NEW s, s = [Settled(q) EXCEPT !.done = @ \cup {creq[q].code}]
    PROVE  /\ s \in CRequests /\ Keeps(creq[q], s) /\ s.ctx = creq[q].ctx
           /\ s.pc = "next" /\ s.code = "none" /\ s.todo = creq[q].todo
           /\ s.done = creq[q].done \cup {creq[q].code} /\ s.failed = creq[q].failed
    BY DEF Settled, CRequests, CStages, Keeps

LEMMA SettlesBadly ==
    ASSUME CrawlShape, NEW q \in CReqs, creq[q] \in CRequests, creq[q].code \in Secs,
           NEW s, s = [Settled(q) EXCEPT !.failed = @ \cup {creq[q].code}]
    PROVE  /\ s \in CRequests /\ Keeps(creq[q], s) /\ s.ctx = creq[q].ctx
           /\ s.pc = "next" /\ s.code = "none" /\ s.todo = creq[q].todo
           /\ s.done = creq[q].done /\ s.failed = creq[q].failed \cup {creq[q].code}
    BY DEF Settled, CRequests, CStages, Keeps

\* Every step but the DELETE of a rewrite moves one request.
Turns(q, s) == creq' = [creq EXCEPT ![q] = s]

LEMMA MovesOne ==
    ASSUME CrawlShape, NEW q \in CReqs, NEW s, Turns(q, s)
    PROVE  creq'[q] = s /\ \A o \in CReqs \ {q} : creq'[o] = creq[o]
    BY DEF CrawlShape, Turns

\* A request that comes in.
Asked(s, via, kind) ==
    /\ s.pc = "next" /\ s.code = "none" /\ s.via = via /\ s.kind = kind
    /\ s.due = s.dropped \cup s.todo /\ s.done = {} /\ s.failed = {}
    /\ \A c \in Secs : s.base[c] = Newest(series[c])
    /\ kind = "single" => \A c, d \in s.due : c = d

LEMMA RequestMoves ==
    ASSUME CrawlShape, NEW q \in CReqs,
           NEW via \in {"rest", "mcp", "job"}, NEW kind \in CKinds, Request(q, via, kind)
    PROVE  \E s \in CRequests : Turns(q, s) /\ Asked(s, via, kind)
<1>1. PICK due \in DueCodes(kind) : \E list \in capCodes(due) :
          creq' = [creq EXCEPT ![q] =
              [pc |-> "next", via |-> via, kind |-> kind, due |-> due,
               base |-> [c \in Secs |-> Newest(series[c])], dropped |-> due \ list,
               todo |-> list, code |-> "none", got |-> {}, since |-> 0, del |-> {},
               overlap |-> FALSE, done |-> {}, failed |-> {}, ctx |-> "live"]]
    BY DEF Request
<1>2. PICK list \in capCodes(due) :
          creq' = [creq EXCEPT ![q] =
              [pc |-> "next", via |-> via, kind |-> kind, due |-> due,
               base |-> [c \in Secs |-> Newest(series[c])], dropped |-> due \ list,
               todo |-> list, code |-> "none", got |-> {}, since |-> 0, del |-> {},
               overlap |-> FALSE, done |-> {}, failed |-> {}, ctx |-> "live"]]
    BY <1>1
<1>3. due \subseteq Secs
  <2>1. RecommendedRefreshCodes \subseteq Secs
      BY CrawlAssumption DEF RecommendedRefreshCodes, StaleNAV, MissingNAV
  <2>2. Scope[work] \subseteq Secs /\ HeldSecs \subseteq Secs
      BY CrawlAssumption DEF CrawlShape
  <2>3. \A c \in Scope[work] : {c} \subseteq Secs
      BY <2>2
  <2> HIDE DEF RecommendedRefreshCodes
  <2> QED
      BY <1>1, <2>1, <2>2, <2>3 DEF DueCodes, CKinds
<1>4. list \subseteq due
    BY <1>2 DEF capCodes
<1>5. ASSUME NEW c \in Secs PROVE Newest(series[c]) \in Nat
  <2>1. series[c] \in SUBSET (1..MaxDay)
      BY DEF CrawlShape, Dates
  <2> QED
      BY <2>1, NewestIs
<1> DEFINE start == [c \in Secs |-> Newest(series[c])]
<1>6. start \in [Secs -> Nat]
    BY <1>5
<1> HIDE DEF start
<1> DEFINE s == [pc |-> "next", via |-> via, kind |-> kind, due |-> due,
                 base |-> start, dropped |-> due \ list,
                 todo |-> list, code |-> "none", got |-> {}, since |-> 0, del |-> {},
                 overlap |-> FALSE, done |-> {}, failed |-> {}, ctx |-> "live"]
<1>7. s \in CRequests
    BY <1>3, <1>4, <1>6 DEF CRequests, CStages
<1>8. Turns(q, s)
    BY <1>2 DEF Turns, start
<1>9. /\ s.pc = "next" /\ s.code = "none" /\ s.via = via /\ s.kind = kind
      /\ s.due = s.dropped \cup s.todo /\ s.done = {} /\ s.failed = {} /\ s.base = start
    BY <1>4
<1>10. \A c \in Secs : start[c] = Newest(series[c])
    BY DEF start
<1>11. kind = "single" => \A c, d \in s.due : c = d
    BY <1>1 DEF DueCodes
<1> HIDE DEF s
<1> QED
    BY <1>7, <1>8, <1>9, <1>10, <1>11 DEF Asked

LEMMA CtxMoves ==
    ASSUME CrawlShape, NEW q \in CReqs, NEW how \in {"deadline", "cancelled"}, CtxEnds(q, how)
    PROVE  /\ creq[q] \in CRequests
           /\ \E s \in CRequests :
                 /\ Turns(q, s) /\ Keeps(creq[q], s) /\ s.pc = creq[q].pc /\ s.code = creq[q].code
                 /\ s.todo = creq[q].todo /\ s.done = creq[q].done /\ s.failed = creq[q].failed
                 /\ s.got = creq[q].got /\ s.del = creq[q].del /\ s.overlap = creq[q].overlap
<1>1. creq[q] \in CRequests
    BY StagesOf DEF CtxEnds
<1> DEFINE s == [creq[q] EXCEPT !.ctx = how]
<1>2. Turns(q, s)
    BY DEF CtxEnds, Turns
<1>3. /\ s \in CRequests /\ Keeps(creq[q], s) /\ s.pc = creq[q].pc /\ s.code = creq[q].code
      /\ s.todo = creq[q].todo /\ s.done = creq[q].done /\ s.failed = creq[q].failed
      /\ s.got = creq[q].got /\ s.del = creq[q].del /\ s.overlap = creq[q].overlap
    BY <1>1 DEF CRequests, Keeps
<1> HIDE DEF s
<1> QED
    BY <1>1, <1>2, <1>3

LEMMA NextMoves ==
    ASSUME CrawlShape, NEW q \in CReqs, NEW c \in Secs, NextCode(q, c)
    PROVE  /\ creq[q] \in CRequests /\ creq[q].pc = "next" /\ c \in creq[q].todo
           /\ \E s \in CRequests :
                 /\ Turns(q, s) /\ Keeps(creq[q], s) /\ s.code = c
                 /\ s.pc = IF creq[q].kind = "recalc" THEN "recalc" ELSE "fetch"
                 /\ s.todo = creq[q].todo \ {c} /\ s.done = creq[q].done
                 /\ s.failed = creq[q].failed
<1>1. creq[q] \in CRequests /\ creq[q].pc = "next" /\ c \in creq[q].todo
    BY StagesOf DEF NextCode, CStages
<1> DEFINE s == [creq[q] EXCEPT !.pc = IF creq[q].kind = "recalc" THEN "recalc" ELSE "fetch",
                                !.todo = @ \ {c}, !.code = c]
<1>2. Turns(q, s)
    BY DEF NextCode, Turns
<1>3. s \in CRequests
    BY <1>1 DEF CRequests, CStages
<1>4. /\ Keeps(creq[q], s) /\ s.code = c
      /\ s.pc = IF creq[q].kind = "recalc" THEN "recalc" ELSE "fetch"
      /\ s.todo = creq[q].todo \ {c} /\ s.done = creq[q].done
      /\ s.failed = creq[q].failed
    BY <1>1 DEF CRequests, Keeps
<1> HIDE DEF s
<1> QED
    BY <1>1, <1>2, <1>3, <1>4

LEMMA FailMoves ==
    ASSUME CrawlShape, RequestInv, NEW q \in CReqs, CodeFails(q)
    PROVE  /\ creq[q] \in CRequests /\ creq[q].pc # "next" /\ creq[q].code \in Secs
           /\ \E s \in CRequests :
                 /\ Turns(q, s) /\ Keeps(creq[q], s) /\ s.pc = "next" /\ s.code = "none"
                 /\ s.todo = creq[q].todo /\ s.done = creq[q].done
                 /\ s.failed = creq[q].failed \cup {creq[q].code}
<1>1. creq[q] \in CRequests /\ creq[q].pc # "next"
    BY StagesOf DEF CodeFails, CStages
<1>2. creq[q].code \in Secs
    BY <1>1, StagesOf DEF RequestInv, Accounted, CRequests
<1> DEFINE s == [Settled(q) EXCEPT !.failed = @ \cup {creq[q].code}]
<1>3. Turns(q, s)
    BY DEF CodeFails, Bad, Turns
<1> HIDE DEF s
<1>4. /\ s \in CRequests /\ Keeps(creq[q], s)
      /\ s.pc = "next" /\ s.code = "none" /\ s.todo = creq[q].todo
      /\ s.done = creq[q].done /\ s.failed = creq[q].failed \cup {creq[q].code}
    BY <1>1, <1>2, SettlesBadly DEF s
<1> QED
    BY <1>1, <1>2, <1>3, <1>4

\* A code that succeeds.
LEMMA OkMoves ==
    ASSUME CrawlShape, RequestInv, NEW q \in CReqs, creq[q] \in CRequests,
           creq[q].pc # "next", creq' = Ok(q)
    PROVE  /\ creq[q].code \in Secs
           /\ \E s \in CRequests :
                 /\ Turns(q, s) /\ Keeps(creq[q], s) /\ s.pc = "next" /\ s.code = "none"
                 /\ s.todo = creq[q].todo /\ s.done = creq[q].done \cup {creq[q].code}
                 /\ s.failed = creq[q].failed
<1>2. creq[q].code \in Secs
    BY StagesOf DEF RequestInv, Accounted, CRequests
<1> DEFINE s == [Settled(q) EXCEPT !.done = @ \cup {creq[q].code}]
<1>3. Turns(q, s)
    BY DEF Ok, Turns
<1> HIDE DEF s
<1>4. /\ s \in CRequests /\ Keeps(creq[q], s)
      /\ s.pc = "next" /\ s.code = "none" /\ s.todo = creq[q].todo
      /\ s.done = creq[q].done \cup {creq[q].code} /\ s.failed = creq[q].failed
    BY <1>2, Settles DEF s
<1> QED
    BY <1>2, <1>3, <1>4

\* A code that goes on to its next step: nothing but where it is, and what it
\* has got, changes.
Goes(q, s, label, new) ==
    /\ Turns(q, s) /\ Keeps(creq[q], s) /\ s.pc = label /\ s.code = creq[q].code
    /\ s.todo = creq[q].todo /\ s.done = creq[q].done /\ s.failed = creq[q].failed
    /\ s.got = new

LEMMA FetchMoves ==
    ASSUME CrawlShape, NEW q \in CReqs, creq[q] \in CRequests, creq[q].code \in Secs,
           FetchHistory(q), series[creq[q].code] # {}
    PROVE  \E s \in CRequests : Goes(q, s, "since", series[creq[q].code])
<1> DEFINE s == [creq[q] EXCEPT !.pc = "since", !.got = series[creq[q].code]]
<1>1. Turns(q, s)
    BY DEF FetchHistory, Turns
<1>2. series[creq[q].code] \in SUBSET Dates
    BY DEF CrawlShape
<1>3. s \in CRequests
    BY <1>2 DEF CRequests, CStages
<1>4. /\ Keeps(creq[q], s) /\ s.pc = "since" /\ s.code = creq[q].code
      /\ s.todo = creq[q].todo /\ s.done = creq[q].done /\ s.failed = creq[q].failed
      /\ s.got = series[creq[q].code]
    BY DEF CRequests, Keeps
<1> HIDE DEF s
<1> QED
    BY <1>1, <1>3, <1>4 DEF Goes

LEMMA LatestMoves ==
    ASSUME CrawlShape, RequestInv, NEW q \in CReqs, creq[q] \in CRequests,
           creq[q].code \in Secs, LatestNavDate(q)
    PROVE  LET points == {d \in creq[q].got : d >= Newest(stored[creq[q].code])}
           IN  IF points = {} THEN creq' = Ok(q)
               ELSE \E s \in CRequests : Goes(q, s, "store", points)
<1> DEFINE since == Newest(stored[creq[q].code])
           points == {d \in creq[q].got : d >= since}
<1>1. CASE points = {}
    BY <1>1 DEF LatestNavDate
<1>2. CASE points # {}
  <2> DEFINE s == [creq[q] EXCEPT !.pc = "store", !.got = points, !.since = since]
  <2>1. Turns(q, s)
      BY <1>2 DEF LatestNavDate, Turns
  <2>2. points \in SUBSET Dates
    <3>1. creq[q].pc = "since" /\ creq[q] # Unused
        BY StagesOf DEF LatestNavDate
    <3>2. creq[q].got \subseteq series[creq[q].code]
        BY <3>1 DEF RequestInv, Reaches
    <3> QED
        BY <3>2 DEF CrawlShape
  <2>3. since \in Nat
    <3>1. stored[creq[q].code] \in SUBSET (1..MaxDay)
        BY DEF CrawlShape, Dates
    <3> QED
        BY <3>1, NewestIs
  <2> HIDE DEF points, since
  <2>4. s \in CRequests
      BY <2>2, <2>3 DEF CRequests, CStages
  <2>5. /\ Keeps(creq[q], s) /\ s.pc = "store" /\ s.code = creq[q].code
        /\ s.todo = creq[q].todo /\ s.done = creq[q].done /\ s.failed = creq[q].failed
        /\ s.got = points
      BY DEF CRequests, Keeps
  <2> HIDE DEF s
  <2>6. \E t \in CRequests : Goes(q, t, "store", points)
      BY <2>1, <2>4, <2>5 DEF Goes
  <2> QED
      BY <2>6, <1>2 DEF points, since
<1> QED
    BY <1>1, <1>2

\* The other steps change the label alone.
LEMMA LabelMoves ==
    ASSUME CrawlShape, NEW q \in CReqs, creq[q] \in CRequests, NEW label \in CStages,
           creq' = [creq EXCEPT ![q].pc = label]
    PROVE  \E s \in CRequests :
              /\ Goes(q, s, label, creq[q].got) /\ s.del = creq[q].del
              /\ s.overlap = creq[q].overlap
<1> DEFINE s == [creq[q] EXCEPT !.pc = label]
<1>1. Turns(q, s)
    BY DEF Turns, CrawlShape
<1>2. s \in CRequests
    BY DEF CRequests
<1>3. /\ Keeps(creq[q], s) /\ s.pc = label /\ s.code = creq[q].code
      /\ s.todo = creq[q].todo /\ s.done = creq[q].done /\ s.failed = creq[q].failed
      /\ s.got = creq[q].got /\ s.del = creq[q].del /\ s.overlap = creq[q].overlap
    BY DEF CRequests, Keeps
<1> HIDE DEF s
<1> QED
    BY <1>1, <1>2, <1>3 DEF Goes

LEMMA AnswerMoves ==
    ASSUME CrawlShape, NEW q \in CReqs, creq[q] \in CRequests, creq[q].code \in Secs,
           FetchHoldings(q)
    PROVE  /\ disclosed[creq[q].code] \in Disclosures
           /\ \E s \in CRequests : Goes(q, s, "match", disclosed[creq[q].code])
<1> DEFINE s == [creq[q] EXCEPT !.pc = "match", !.got = disclosed[creq[q].code]]
<1>1. Turns(q, s)
    BY DEF FetchHoldings, Turns
<1>2. disclosed[creq[q].code] \in Disclosures
    BY DEF CrawlShape, FetchHoldings
<1> DEFINE answer == disclosed[creq[q].code]
<1>a. answer \in (SUBSET Dates) \cup Disclosures
    BY <1>2
<1> HIDE DEF answer
<1>b. [creq[q] EXCEPT !.pc = "match", !.got = answer] \in CRequests
    BY <1>a DEF CRequests, CStages
<1>3. s \in CRequests
    BY <1>b DEF answer
<1>4. /\ Keeps(creq[q], s) /\ s.pc = "match" /\ s.code = creq[q].code
      /\ s.todo = creq[q].todo /\ s.done = creq[q].done /\ s.failed = creq[q].failed
      /\ s.got = disclosed[creq[q].code]
    BY DEF CRequests, Keeps
<1> HIDE DEF s
<1> QED
    BY <1>1, <1>2, <1>3, <1>4 DEF Goes

\* The DELETE also marks the rewrites of the same fund under way.
LEMMA DeleteMoves ==
    ASSUME CrawlShape, NEW q \in CReqs, creq[q] \in CRequests, creq[q].code \in Secs,
           DeleteHoldings(q)
    PROVE  LET others == {o \in CReqs \ {q} : creq[o].pc = "rewrite" /\ creq[o].code = creq[q].code}
           IN  /\ \A o \in CReqs : creq'[o] \in {Unused} \cup CRequests
               /\ \A o \in CReqs \ {q} : creq[o] = Unused => creq'[o] = Unused
               /\ \A o \in CReqs : creq'[o] # Unused =>
                     /\ Keeps(creq[o], creq'[o]) /\ creq'[o].ctx = creq[o].ctx
                     /\ creq'[o].code = creq[o].code /\ creq'[o].todo = creq[o].todo
                     /\ creq'[o].done = creq[o].done /\ creq'[o].failed = creq[o].failed
                     /\ creq'[o].got = creq[o].got
               /\ creq' = [o \in CReqs |-> creq'[o]]
               /\ creq'[q].pc = "rewrite" /\ creq'[q].del = slice[creq[q].code]
               /\ creq'[q].overlap = (others # {})
               /\ \A o \in CReqs \ {q} :
                     /\ creq'[o].pc = creq[o].pc
                     /\ o \in others => creq'[o].overlap
                     /\ o \notin others => creq'[o] = creq[o]
<1> DEFINE others == {o \in CReqs \ {q} : creq[o].pc = "rewrite" /\ creq[o].code = creq[q].code}
           laps == others # {}
<1>1. slice[creq[q].code] \in SUBSET Tuples /\ laps \in BOOLEAN
    BY DEF CrawlShape
<1>2. /\ creq'[q] = [creq[q] EXCEPT !.pc = "rewrite", !.del = slice[creq[q].code], !.overlap = laps]
      /\ creq' = [o \in CReqs |-> creq'[o]]
    BY DEF DeleteHoldings
<1>3. \A o \in others : creq'[o] = [creq[o] EXCEPT !.overlap = TRUE]
    BY DEF DeleteHoldings
<1>4. \A o \in CReqs : o # q /\ o \notin others => creq'[o] = creq[o]
    BY DEF DeleteHoldings
<1> HIDE DEF laps
<1>5. /\ creq'[q] \in CRequests /\ Keeps(creq[q], creq'[q]) /\ creq'[q].ctx = creq[q].ctx
      /\ creq'[q].code = creq[q].code /\ creq'[q].todo = creq[q].todo
      /\ creq'[q].done = creq[q].done /\ creq'[q].failed = creq[q].failed
      /\ creq'[q].got = creq[q].got /\ creq'[q].pc = "rewrite"
      /\ creq'[q].del = slice[creq[q].code]
    BY <1>1, <1>2 DEF CRequests, CStages, Keeps
<1>6. creq'[q].overlap = laps
    BY <1>2 DEF CRequests
<1>7. ASSUME NEW o \in others
      PROVE  /\ creq'[o] \in CRequests /\ Keeps(creq[o], creq'[o]) /\ creq'[o].ctx = creq[o].ctx
             /\ creq'[o].code = creq[o].code /\ creq'[o].todo = creq[o].todo
             /\ creq'[o].done = creq[o].done /\ creq'[o].failed = creq[o].failed
             /\ creq'[o].got = creq[o].got /\ creq'[o].pc = creq[o].pc /\ creq'[o].overlap
             /\ creq[o] # Unused
  <2>1. creq[o] \in CRequests
      BY <1>7, StagesOf DEF CStages
  <2> HIDE DEF others
  <2>2. creq'[o] = [creq[o] EXCEPT !.overlap = TRUE]
      BY <1>3, <1>7
  <2>3. creq'[o] \in CRequests
      BY <2>1, <2>2 DEF CRequests
  <2>4. /\ Keeps(creq[o], creq'[o]) /\ creq'[o].ctx = creq[o].ctx
        /\ creq'[o].code = creq[o].code /\ creq'[o].todo = creq[o].todo
        /\ creq'[o].done = creq[o].done /\ creq'[o].failed = creq[o].failed
        /\ creq'[o].got = creq[o].got /\ creq'[o].pc = creq[o].pc
      BY <2>1, <2>2 DEF CRequests, Keeps
  <2>5. creq'[o].overlap = TRUE
      BY <2>1, <2>2 DEF CRequests
  <2>6. creq[o] # Unused
      BY <2>1 DEF CRequests, CStages, Unused
  <2> QED
      BY <2>3, <2>4, <2>5, <2>6
<1>8. \A o \in CReqs : o # q /\ o \notin others =>
          creq'[o] \in {Unused} \cup CRequests /\ Keeps(creq[o], creq'[o])
    BY <1>4 DEF CrawlShape, Keeps
<1>9. laps <=> others # {}
    BY DEF laps
<1>10. others \subseteq CReqs \ {q}
    OBVIOUS
<1>11. creq'[q].overlap = (others # {})
    BY <1>6 DEF laps
<1>12. \A o \in CReqs : creq'[o] \in {Unused} \cup CRequests
  <2> HIDE DEF others
  <2> QED
      BY <1>5, <1>7, <1>8
<1>13. \A o \in CReqs : creq'[o] # Unused =>
           /\ Keeps(creq[o], creq'[o]) /\ creq'[o].ctx = creq[o].ctx
           /\ creq'[o].code = creq[o].code /\ creq'[o].todo = creq[o].todo
           /\ creq'[o].done = creq[o].done /\ creq'[o].failed = creq[o].failed
           /\ creq'[o].got = creq[o].got
  <2> HIDE DEF others
  <2> QED
      BY <1>4, <1>5, <1>7, <1>8
<1>14. \A o \in CReqs \ {q} :
           /\ creq'[o].pc = creq[o].pc
           /\ o \in others => creq'[o].overlap
           /\ o \notin others => creq'[o] = creq[o]
  <2> HIDE DEF others
  <2> QED
      BY <1>4, <1>7
<1>15. \A o \in CReqs \ {q} : creq[o] = Unused => creq'[o] = Unused
  <2> HIDE DEF others
  <2> QED
      BY <1>4, <1>7
<1> HIDE DEF others
<1> QED
    BY <1>2, <1>5, <1>11, <1>12, <1>13, <1>14, <1>15 DEF others

-----------------------------------------------------------------------------
(* What every step keeps                                                   *)

\* The steps of the upstream and the clock leave the requests alone.
Outside ==
    \/ NextDay
    \/ \E c \in Scope[work], d \in 1..MaxDay : Publish(c, d)
    \/ \E c \in Scope[work], answer \in Disclosures : Disclose(c, answer)

\* The steps of one request.
Asking(q) ==
    \/ \E via \in {"rest", "mcp", "job"}, kind \in CKinds : Request(q, via, kind)
    \/ \E how \in {"deadline", "cancelled"} : CtxEnds(q, how)
    \/ \E c \in Secs : NextCode(q, c)
    \/ CodeFails(q) \/ FetchHistory(q) \/ LatestNavDate(q) \/ UpsertNavHistory(q)
    \/ RecalcSnapshot(q) \/ FetchHoldings(q) \/ FundHoldingsMatch(q) \/ DeleteHoldings(q)
    \/ RewriteHoldings(q) \/ Finish(q)

LEMMA CrawlActs == CrawlNext => Outside \/ \E q \in CReqs : Asking(q)
<1> SUFFICES ASSUME CrawlNext PROVE Outside \/ \E q \in CReqs : Asking(q)
    OBVIOUS
<1>1. CASE \E q \in CReqs : Finish(q)
    BY <1>1 DEF Asking
<1>2. CASE CrawlStep
    BY <1>2 DEF CrawlStep, Outside, Asking, CKinds
<1> QED
    BY <1>1, <1>2 DEF CrawlNext

\* Where a request is tells what it has in hand.
LEMMA InHand ==
    ASSUME CrawlShape, RequestInv, NEW q \in CReqs, creq[q].pc \in CStages \ {"next"}
    PROVE  creq[q] \in CRequests /\ creq[q].code \in Secs
<1>1. creq[q] \in CRequests /\ creq[q] # Unused
    BY StagesOf
<1> QED
    BY <1>1 DEF RequestInv, Accounted, CRequests

\* A step of one request ends with one request moved, except for the DELETE.
LEMMA AskingMoves ==
    ASSUME CrawlShape, RequestInv, NEW q \in CReqs, Asking(q), ~DeleteHoldings(q)
    PROVE  \E s \in {Unused} \cup CRequests : Turns(q, s)
<1>1. ASSUME NEW via \in {"rest", "mcp", "job"}, NEW kind \in CKinds, Request(q, via, kind)
      PROVE  \E s \in {Unused} \cup CRequests : Turns(q, s)
  <2>1. PICK s \in CRequests : Turns(q, s)
      BY <1>1, RequestMoves
  <2> QED
      BY <2>1
<1>2. ASSUME NEW how \in {"deadline", "cancelled"}, CtxEnds(q, how)
      PROVE  \E s \in {Unused} \cup CRequests : Turns(q, s)
    BY <1>2, CtxMoves
<1>3. ASSUME NEW c \in Secs, NextCode(q, c)
      PROVE  \E s \in {Unused} \cup CRequests : Turns(q, s)
    BY <1>3, NextMoves
<1>4. CASE CodeFails(q)
    BY <1>4, FailMoves
<1>5. ASSUME creq' = Ok(q), creq[q].pc \in CStages \ {"next"}
      PROVE  \E s \in {Unused} \cup CRequests : Turns(q, s)
    BY <1>5, InHand, OkMoves
<1>6. CASE FetchHistory(q)
  <2>1. creq[q].pc = "fetch" /\ creq[q] \in CRequests /\ creq[q].code \in Secs
      BY <1>6, InHand DEF FetchHistory, CStages
  <2>2. CASE series[creq[q].code] = {}
      BY <1>6, <2>1, <2>2, <1>5 DEF FetchHistory, CStages
  <2>3. CASE series[creq[q].code] # {}
      BY <1>6, <2>1, <2>3, FetchMoves DEF Goes
  <2> QED
      BY <2>2, <2>3
<1>7. CASE LatestNavDate(q)
  <2>1. creq[q].pc = "since" /\ creq[q] \in CRequests /\ creq[q].code \in Secs
      BY <1>7, InHand DEF LatestNavDate, CStages
  <2>2. creq' = Ok(q) \/ \E s \in CRequests : Turns(q, s)
      BY <1>7, <2>1, LatestMoves DEF Goes
  <2> QED
      BY <2>1, <2>2, <1>5 DEF CStages
<1>8. CASE UpsertNavHistory(q)
  <2>1. creq[q] \in CRequests /\ creq' = [creq EXCEPT ![q].pc = "recalc"]
      BY <1>8, InHand DEF UpsertNavHistory, CStages
  <2> QED
      BY <2>1, LabelMoves DEF Goes, CStages
<1>9. CASE RecalcSnapshot(q)
    BY <1>9, <1>5 DEF RecalcSnapshot, CStages
<1>10. CASE FetchHoldings(q)
  <2>1. creq[q] \in CRequests /\ creq[q].code \in Secs
      BY <1>10, InHand DEF FetchHoldings, CStages
  <2> QED
      BY <1>10, <2>1, AnswerMoves DEF Goes
<1>11. CASE FundHoldingsMatch(q)
  <2>1. /\ creq[q] \in CRequests /\ creq[q].pc = "match"
        /\ creq' = Ok(q) \/ creq' = [creq EXCEPT ![q].pc = "begin"]
      BY <1>11, InHand DEF FundHoldingsMatch, CStages
  <2> QED
      BY <2>1, <1>5, LabelMoves DEF Goes, CStages
<1>12. CASE RewriteHoldings(q)
    BY <1>12, <1>5 DEF RewriteHoldings, CStages
<1>13. CASE Finish(q)
    BY <1>13 DEF Finish, Turns
<1> QED
    BY <1>1, <1>2, <1>3, <1>4, <1>6, <1>7, <1>8, <1>9, <1>10, <1>11, <1>12, <1>13 DEF Asking

\* The tables that a request does not touch.
LEMMA AskingKeeps ==
    ASSUME NEW q \in CReqs, Asking(q)
    PROVE  /\ UNCHANGED <<work, pg, today, series, disclosed, late>>
           /\ UpsertNavHistory(q) \/ UNCHANGED <<stored, cut>>
           /\ RewriteHoldings(q) \/ UNCHANGED <<slice, gen, lapped>>
    BY DEF Asking, Request, CtxEnds, NextCode, CodeFails, FetchHistory, LatestNavDate,
           UpsertNavHistory, RecalcSnapshot, FetchHoldings, FundHoldingsMatch, DeleteHoldings,
           RewriteHoldings, Finish, upstream, navStore, holdStore

LEMMA OutsideKeeps ==
    ASSUME CrawlShape, Outside
    PROVE  /\ UNCHANGED <<work, pg, stored, cut, slice, gen, lapped, creq>>
           /\ today' \in Dates /\ disclosed' \in [Secs -> {<<>>} \cup Disclosures]
           /\ series' \in [Secs -> SUBSET Dates] /\ \A c \in Secs : series[c] \subseteq series'[c]
           /\ late \subseteq late'
<1>1. CASE NextDay
  <2>1. UNCHANGED <<work, pg, stored, cut, slice, gen, lapped, creq, disclosed, series, late>>
      BY <1>1 DEF NextDay, navStore, holdStore
  <2>2. today' \in Dates
      BY CrawlAssumption, <1>1 DEF NextDay, CrawlShape, Dates
  <2> QED
      BY <2>1, <2>2 DEF CrawlShape
<1>2. ASSUME NEW c \in Scope[work], NEW d \in 1..MaxDay, Publish(c, d)
      PROVE  /\ UNCHANGED <<work, pg, stored, cut, slice, gen, lapped, creq, today, disclosed>>
             /\ series' \in [Secs -> SUBSET Dates]
             /\ \A k \in Secs : series[k] \subseteq series'[k]
             /\ late \subseteq late'
  <2>1. UNCHANGED <<work, pg, stored, cut, slice, gen, lapped, creq, today, disclosed>>
      BY <1>2 DEF Publish, navStore, holdStore
  <2>2. late \subseteq late'
      BY <1>2 DEF Publish
  <2>3. series' = [series EXCEPT ![c] = @ \cup {d}]
      BY <1>2 DEF Publish
  <2> QED
      BY <2>1, <2>2, <2>3 DEF CrawlShape, Dates
<1>3. ASSUME NEW c \in Scope[work], NEW answer \in Disclosures, Disclose(c, answer)
      PROVE  /\ UNCHANGED <<work, pg, stored, cut, slice, gen, lapped, creq, today, series, late>>
             /\ disclosed' \in [Secs -> {<<>>} \cup Disclosures]
    BY <1>3 DEF Disclose, navStore, holdStore, CrawlShape
<1> QED
    BY <1>1, <1>2, <1>3 DEF Outside, CrawlShape

\* An upsert adds the points that are not cut off, the newest among them.
LEMMA UpsertAdds ==
    ASSUME CrawlShape, RequestInv, NEW q \in CReqs, UpsertNavHistory(q)
    PROVE  /\ creq[q] \in CRequests /\ creq[q].code \in Secs /\ creq[q].pc = "store"
           /\ \E kept \in SUBSET creq[q].got :
                 /\ Caught(creq[q].base[creq[q].code], kept)
                 /\ stored' = [stored EXCEPT ![creq[q].code] = @ \cup kept]
                 /\ cut' = cut \cup ({creq[q].code} \X (creq[q].got \ kept))
<1>1. creq[q] \in CRequests /\ creq[q].code \in Secs /\ creq[q].pc = "store"
    BY InHand DEF UpsertNavHistory, CStages
<1> DEFINE got == creq[q].got
           kept == {d \in got : Cardinality({e \in got : e > d}) < SeriesCap}
<1>2. Reaches(creq[q], series, stored)
    BY <1>1, StagesOf DEF RequestInv, CStages
<1>3. got \subseteq series[creq[q].code] /\ got # {} /\ Caught(creq[q].base[creq[q].code], got)
    BY <1>1, <1>2 DEF Reaches
<1>4. got \in SUBSET (1..MaxDay)
    BY <1>1, <1>3 DEF CrawlShape, Dates
<1>5. PICK m \in got : \A d \in got : m >= d
    BY CrawlAssumption, <1>3, <1>4, LargestOf
<1>6. {e \in got : e > m} = {}
    BY CrawlAssumption, <1>4, <1>5
<1>7. Cardinality({e \in got : e > m}) = 0
    BY <1>6, FS_EmptySet
<1>8. m \in kept
    BY CrawlAssumption, <1>5, <1>7
<1>9. Caught(creq[q].base[creq[q].code], kept)
  <2>1. creq[q].base[creq[q].code] \in Nat
      BY <1>1 DEF CRequests
  <2> HIDE DEF kept
  <2>2. m \in Nat
      BY CrawlAssumption, <1>4, <1>5
  <2>3. \A d \in got : d \in Nat
      BY CrawlAssumption, <1>4
  <2>4. creq[q].base[creq[q].code] = 0 \/ \E e \in got : creq[q].base[creq[q].code] <= e
      BY <1>3 DEF Caught
  <2> HIDE DEF got
  <2>5. ASSUME NEW e \in got, creq[q].base[creq[q].code] <= e
        PROVE  creq[q].base[creq[q].code] <= m
      BY <2>1, <2>2, <2>3, <2>5, <1>5
  <2> QED
      BY <1>8, <2>4, <2>5 DEF Caught
<1>10. /\ stored' = [stored EXCEPT ![creq[q].code] = @ \cup kept]
       /\ cut' = cut \cup ({creq[q].code} \X (got \ kept))
    BY DEF UpsertNavHistory
<1>11. kept \in SUBSET got
    OBVIOUS
<1> HIDE DEF kept
<1> QED
    BY <1>1, <1>9, <1>10, <1>11

LEMMA StoredGrows ==
    ASSUME CrawlShape, RequestInv, NEW q \in CReqs, Asking(q)
    PROVE  /\ stored' \in [Secs -> SUBSET Dates]
           /\ \A c \in Secs : stored[c] \subseteq stored'[c]
           /\ cut \subseteq cut'
<1>1. CASE UpsertNavHistory(q)
  <2>1. PICK kept \in SUBSET creq[q].got :
           /\ stored' = [stored EXCEPT ![creq[q].code] = @ \cup kept]
           /\ cut' = cut \cup ({creq[q].code} \X (creq[q].got \ kept))
      BY <1>1, UpsertAdds
  <2>2. creq[q] \in CRequests /\ creq[q].code \in Secs /\ creq[q].pc = "store"
      BY <1>1, UpsertAdds
  <2>3. creq[q].got \subseteq series[creq[q].code]
      BY <2>2, StagesOf DEF RequestInv, CStages, Reaches
  <2>4. kept \in SUBSET Dates
      BY <2>2, <2>3 DEF CrawlShape
  <2> QED
      BY <2>1, <2>2, <2>4 DEF CrawlShape
<1>2. CASE ~UpsertNavHistory(q)
    BY <1>2, AskingKeeps DEF CrawlShape
<1> QED
    BY <1>1, <1>2

\* The rows a rewrite puts in.
New(q) == {[stock |-> n.stock, val |-> n.val, gen |-> gen + 1] : n \in StoredRows(creq[q].got)}

LEMMA RowOf ==
    ASSUME NEW S, NEW a \in Seq(S), NEW i \in DOMAIN a
    PROVE  a[i] \in S
    OBVIOUS

LEMMA RewriteAdds ==
    ASSUME CrawlShape, RequestInv, WorkInv, NEW q \in CReqs, RewriteHoldings(q)
    PROVE  /\ creq[q] \in CRequests /\ creq[q].code \in Secs /\ creq[q].pc = "rewrite"
           /\ creq[q].got \in Disclosures /\ New(q) \in SUBSET Tuples
           /\ \A t \in New(q) : t.gen = gen + 1
           /\ \E kept \in SUBSET (slice[creq[q].code] \ creq[q].del) :
                 slice' = [slice EXCEPT ![creq[q].code] = kept \cup New(q)]
           /\ gen' = gen + 1
<1>1. creq[q] \in CRequests /\ creq[q].code \in Secs /\ creq[q].pc = "rewrite"
    BY InHand DEF RewriteHoldings, CStages
<1>2. creq[q].got \in Disclosures
    BY <1>1 DEF WorkInv
<1>3. creq[q].got \in Seq([stock : Stocks, val : Nat])
    BY CrawlAssumption, <1>2
<1>4. ASSUME NEW n \in StoredRows(creq[q].got) PROVE n.stock \in Stocks /\ n.val \in Nat
  <2> DEFINE a == creq[q].got
  <2>1. PICK i \in DOMAIN a : n = [stock |-> a[i].stock, val |-> a[i].val]
      BY DEF StoredRows
  <2>2. a \in Seq([stock : Stocks, val : Nat])
      BY <1>3
  <2>3. a[i] \in [stock : Stocks, val : Nat]
      BY <2>1, <2>2, RowOf
  <2> QED
      BY <2>1, <2>3
<1>5. gen \in Nat /\ gen + 1 \in Nat
    BY DEF CrawlShape
<1>6. ASSUME NEW t \in New(q) PROVE t \in Tuples /\ t.gen = gen + 1
  <2>1. PICK n \in StoredRows(creq[q].got) :
            t = [stock |-> n.stock, val |-> n.val, gen |-> gen + 1]
      BY DEF New
  <2> QED
      BY <2>1, <1>4, <1>5 DEF Tuples
<1>7. slice' = [slice EXCEPT ![creq[q].code] =
          {r \in slice[creq[q].code] \ creq[q].del :
              \A n \in StoredRows(creq[q].got) : n.stock # r.stock} \cup New(q)]
    BY DEF RewriteHoldings, New
<1>8. gen' = gen + 1
    BY DEF RewriteHoldings
<1> QED
    BY <1>1, <1>2, <1>6, <1>7, <1>8

LEMMA CrawlShapeStep ==
    ASSUME CrawlShape, RequestInv, WorkInv, CrawlNext
    PROVE  CrawlShape'
<1>1. CASE Outside
    BY <1>1, OutsideKeeps DEF CrawlShape
<1>2. ASSUME NEW q \in CReqs, Asking(q) PROVE CrawlShape'
  <2>1. creq' \in [CReqs -> {Unused} \cup CRequests]
    <3>1. CASE DeleteHoldings(q)
      <4>1. creq[q] \in CRequests /\ creq[q].code \in Secs
          BY <3>1, InHand DEF DeleteHoldings, CStages
      <4>2. /\ \A o \in CReqs : creq'[o] \in {Unused} \cup CRequests
            /\ creq' = [o \in CReqs |-> creq'[o]]
          BY <3>1, <4>1, DeleteMoves
      <4> QED
          BY <4>2
    <3>2. CASE ~DeleteHoldings(q)
      <4>1. PICK s \in {Unused} \cup CRequests : Turns(q, s)
          BY <1>2, <3>2, AskingMoves
      <4> QED
          BY <4>1 DEF Turns, CrawlShape
    <3> QED
        BY <3>1, <3>2
  <2>2. stored' \in [Secs -> SUBSET Dates]
      BY <1>2, StoredGrows
  <2>3. slice' \in [Secs -> SUBSET Tuples] /\ gen' \in Nat
    <3>1. CASE RewriteHoldings(q)
      <4>1. PICK kept \in SUBSET (slice[creq[q].code] \ creq[q].del) :
                slice' = [slice EXCEPT ![creq[q].code] = kept \cup New(q)]
          BY <3>1, RewriteAdds
      <4>2. /\ creq[q].code \in Secs /\ New(q) \in SUBSET Tuples /\ gen' = gen + 1
          BY <3>1, RewriteAdds
      <4>3. kept \cup New(q) \in SUBSET Tuples
          BY <4>2 DEF CrawlShape
      <4> QED
          BY <4>1, <4>2, <4>3 DEF CrawlShape
    <3>2. CASE ~RewriteHoldings(q)
        BY <1>2, <3>2, AskingKeeps DEF CrawlShape
    <3> QED
        BY <3>1, <3>2
  <2>4. UNCHANGED <<work, pg, today, series, disclosed>>
      BY <1>2, AskingKeeps
  <2> QED
      BY <2>1, <2>2, <2>3, <2>4 DEF CrawlShape
<1> QED
    BY <1>1, <1>2, CrawlActs

-----------------------------------------------------------------------------
(* What requests account for                                               *)

LEMMA CaughtOn ==
    ASSUME NEW n, NEW A, NEW B, A \subseteq B, Caught(n, A)
    PROVE  Caught(n, B)
    BY DEF Caught

\* The tables only grow, so a request that stays where it is stays right.
LEMMA ReachesOn ==
    ASSUME NEW r \in CRequests, NEW A, NEW B, NEW C, NEW D, Accounted(r), Reaches(r, A, B),
           \A c \in Secs : A[c] \subseteq C[c] /\ B[c] \subseteq D[c]
    PROVE  Reaches(r, C, D)
<1>1. r.code \in Secs \/ r.pc = "next"
    BY DEF Accounted, CRequests
<1>2. r.done \subseteq Secs
    BY DEF CRequests
<1>3. \A c \in Secs : Caught(r.base[c], C[c])
    BY CaughtOn DEF Reaches
<1>4. r.kind # "recalc" => \A c \in r.done : Caught(r.base[c], D[c])
    BY <1>2, CaughtOn DEF Reaches
<1>5. r.kind # "recalc" /\ r.pc = "recalc" => Caught(r.base[r.code], D[r.code])
    BY <1>1, CaughtOn DEF Reaches
<1>6. r.pc \in {"since", "store"} => r.got \subseteq C[r.code]
    BY <1>1 DEF Reaches
<1> QED
    BY <1>3, <1>4, <1>5, <1>6 DEF Reaches

\* A code that is behind its request, done or failed.
LEMMA ReachesSettled ==
    ASSUME NEW r \in CRequests, NEW s \in CRequests, NEW A, NEW B,
           Accounted(r), Reaches(r, A, B), Keeps(r, s), r.code \in Secs,
           s.pc = "next", s.code = "none", s.todo = r.todo,
           \/ /\ s.done = r.done \cup {r.code} /\ s.failed = r.failed
              /\ r.kind # "recalc" => Caught(r.base[r.code], B[r.code])
           \/ s.done = r.done /\ s.failed = r.failed \cup {r.code}
    PROVE  Accounted(s) /\ Reaches(s, A, B)
<1>1. Accounted(s)
    BY CrawlAssumption DEF Accounted, Keeps
<1>2. Reaches(s, A, B)
    BY DEF Reaches, Keeps
<1> QED
    BY <1>1, <1>2

\* A code that goes on.
LEMMA ReachesFurther ==
    ASSUME NEW r \in CRequests, NEW s \in CRequests, NEW A, NEW B,
           Accounted(r), Reaches(r, A, B), Keeps(r, s), r.pc # "next", s.pc # "next",
           s.code = r.code, s.todo = r.todo, s.done = r.done, s.failed = r.failed,
           r.kind # "recalc",
           s.pc = "recalc" => Caught(r.base[r.code], B[r.code]),
           s.pc \in {"since", "store"} =>
               s.got \subseteq A[r.code] /\ s.got # {} /\ Caught(r.base[r.code], s.got)
    PROVE  Accounted(s) /\ Reaches(s, A, B)
<1>1. Accounted(s)
    BY DEF Accounted, Keeps
<1>2. Reaches(s, A, B)
    BY DEF Reaches, Keeps
<1> QED
    BY <1>1, <1>2

\* The series an up-to-date code has reaches as far as the answer it got.
LEMMA UpToDate ==
    ASSUME CrawlShape, NEW c \in Secs, NEW got \in SUBSET Dates, got # {},
           NEW n \in Nat, Caught(n, got),
           NEW points, points = {d \in got : d >= Newest(stored[c])}
    PROVE  IF points = {} THEN Caught(n, stored[c]) ELSE Caught(n, points)
<1> DEFINE last == Newest(stored[c])
<1>1. stored[c] \in SUBSET (1..MaxDay)
    BY DEF CrawlShape, Dates
<1>2. /\ last \in Nat
      /\ stored[c] = {} => last = 0
      /\ stored[c] # {} => last \in stored[c]
    BY <1>1, NewestIs
<1> HIDE DEF last
<1>3. \A d \in got : d \in Nat /\ d >= 1
    BY CrawlAssumption DEF Dates
<1>4. points = {d \in got : d >= last}
    BY DEF last
<1>5. CASE n = 0
    BY <1>5 DEF Caught
<1>6. ASSUME NEW e \in got, n <= e, points = {} PROVE Caught(n, stored[c])
  <2>1. e \in Nat /\ e < last
      BY <1>2, <1>3, <1>4, <1>6
  <2>2. n <= last /\ last # 0
      BY <2>1, <1>2, <1>6
  <2> QED
      BY <2>2, <1>2 DEF Caught
<1>7. ASSUME NEW e \in got, n <= e, points # {} PROVE Caught(n, points)
  <2>1. PICK p \in points : TRUE
      BY <1>7
  <2>2. p \in got /\ p \in Nat /\ p >= last /\ e \in Nat
      BY <2>1, <1>3, <1>4
  <2>3. CASE e >= last
      BY <2>3, <1>4, <1>7 DEF Caught
  <2>4. CASE e < last
    <3>1. n <= p
        BY <2>2, <2>4, <1>2, <1>7
    <3> QED
        BY <2>1, <3>1 DEF Caught
  <2> QED
      BY <2>2, <2>3, <2>4, <1>2
<1> QED
    BY <1>5, <1>6, <1>7 DEF Caught

\* What a step leaves at q, over the tables it found, or for the upsert left.
Right(s, v) == s = Unused \/ (s \in CRequests /\ Accounted(s) /\ Reaches(s, series, v))

LEMMA AskingRight ==
    ASSUME CrawlShape, RequestInv, WorkInv, NEW q \in CReqs, Asking(q), ~DeleteHoldings(q),
           \A via \in {"rest", "mcp", "job"}, kind \in CKinds : ~Request(q, via, kind), ~Finish(q)
    PROVE  /\ creq[q] \in CRequests
           /\ \E s \in CRequests : Turns(q, s) /\ Keeps(creq[q], s) /\ Right(s, stored')
<1> DEFINE r == creq[q]
<1>0. r \in CRequests
  <2>1. creq[q].pc \in CStages \/ creq[q] # Unused
      BY DEF Asking, CtxEnds, NextCode, CodeFails, FetchHistory, LatestNavDate, UpsertNavHistory,
             RecalcSnapshot, FetchHoldings, FundHoldingsMatch, RewriteHoldings, CStages
  <2> QED
      BY <2>1, StagesOf
<1> SUFFICES \E s \in CRequests : Turns(q, s) /\ Keeps(r, s) /\ Right(s, stored')
    BY <1>0
<1>1. Accounted(r) /\ Reaches(r, series, stored)
    BY <1>0, StagesOf DEF RequestInv
<1>2. \A c \in Secs : series[c] \subseteq series[c] /\ stored[c] \subseteq stored'[c]
    BY StoredGrows
<1>3. Reaches(r, series, stored')
    BY <1>0, <1>1, <1>2, ReachesOn
<1>4. r.base \in [Secs -> Nat]
    BY <1>0 DEF CRequests
<1>5. ASSUME creq' = Ok(q), r.pc \in CStages \ {"next"},
             r.kind # "recalc" => Caught(r.base[r.code], stored'[r.code])
      PROVE  \E s \in CRequests : Turns(q, s) /\ Keeps(r, s) /\ Right(s, stored')
  <2>1. r.code \in Secs
      BY <1>5, InHand
  <2>2. PICK s \in CRequests :
           /\ Turns(q, s) /\ Keeps(r, s) /\ s.pc = "next" /\ s.code = "none"
           /\ s.todo = r.todo /\ s.done = r.done \cup {r.code} /\ s.failed = r.failed
      BY <1>0, <1>5, OkMoves
  <2>3. Accounted(s) /\ Reaches(s, series, stored')
      BY <1>0, <1>1, <1>3, <1>5, <2>1, <2>2, ReachesSettled
  <2> QED
      BY <2>2, <2>3 DEF Right
<1>6. ASSUME r.pc # "next", r.kind # "recalc", NEW label \in CStages \ {"next"}, NEW new,
             \E s \in CRequests : Goes(q, s, label, new),
             label = "recalc" => Caught(r.base[r.code], stored'[r.code]),
             label \in {"since", "store"} =>
                 new \subseteq series[r.code] /\ new # {} /\ Caught(r.base[r.code], new)
      PROVE  \E s \in CRequests : Turns(q, s) /\ Keeps(r, s) /\ Right(s, stored')
  <2>1. PICK s \in CRequests : Goes(q, s, label, new)
      BY <1>6
  <2>2. Accounted(s) /\ Reaches(s, series, stored')
      BY <1>0, <1>1, <1>3, <1>6, <2>1, ReachesFurther DEF Goes
  <2> QED
      BY <2>1, <2>2 DEF Goes, Right
<1>7. r.pc \in CStages \ {"next", "recalc"} => r.kind # "recalc"
    BY <1>1 DEF Reaches, CStages
<1>8. CASE \E how \in {"deadline", "cancelled"} : CtxEnds(q, how)
  <2>1. PICK s \in CRequests :
           /\ Turns(q, s) /\ Keeps(r, s) /\ s.pc = r.pc /\ s.code = r.code
           /\ s.todo = r.todo /\ s.done = r.done /\ s.failed = r.failed /\ s.got = r.got
      BY <1>8, CtxMoves
  <2>2. Accounted(s) /\ Reaches(s, series, stored')
      BY <1>1, <1>3, <2>1 DEF Accounted, Reaches, Keeps
  <2> QED
      BY <2>1, <2>2 DEF Right
<1>9. ASSUME NEW c \in Secs, NextCode(q, c)
      PROVE  \E s \in CRequests : Turns(q, s) /\ Keeps(r, s) /\ Right(s, stored')
  <2>1. r.pc = "next" /\ c \in r.todo
      BY <1>9, NextMoves
  <2>2. PICK s \in CRequests :
           /\ Turns(q, s) /\ Keeps(r, s) /\ s.code = c
           /\ s.pc = IF r.kind = "recalc" THEN "recalc" ELSE "fetch"
           /\ s.todo = r.todo \ {c} /\ s.done = r.done /\ s.failed = r.failed
      BY <1>9, NextMoves
  <2>3. Accounted(s)
      BY <1>1, <2>1, <2>2, CrawlAssumption DEF Accounted, Keeps
  <2>4. Reaches(s, series, stored')
      BY <1>3, <2>2 DEF Reaches, Keeps
  <2> QED
      BY <2>2, <2>3, <2>4 DEF Right
<1>10. CASE CodeFails(q)
  <2>1. r.code \in Secs
      BY <1>10, FailMoves
  <2>2. PICK s \in CRequests :
           /\ Turns(q, s) /\ Keeps(r, s) /\ s.pc = "next" /\ s.code = "none"
           /\ s.todo = r.todo /\ s.done = r.done /\ s.failed = r.failed \cup {r.code}
      BY <1>10, FailMoves
  <2>3. Accounted(s) /\ Reaches(s, series, stored')
      BY <1>0, <1>1, <1>3, <2>1, <2>2, ReachesSettled
  <2> QED
      BY <2>2, <2>3 DEF Right
<1>11. CASE FetchHistory(q)
  <2>1. r.pc = "fetch" /\ r.code \in Secs
      BY <1>11, InHand DEF FetchHistory, CStages
  <2>2. Caught(r.base[r.code], series[r.code])
      BY <1>1, <2>1 DEF Reaches
  <2>3. CASE series[r.code] = {}
    <3>1. creq' = Ok(q)
        BY <1>11, <2>3 DEF FetchHistory
    <3>2. Caught(r.base[r.code], stored'[r.code])
        BY <2>2, <2>3 DEF Caught
    <3> QED
        BY <1>5, <2>1, <3>1, <3>2 DEF CStages
  <2>4. CASE series[r.code] # {}
    <3>1. \E s \in CRequests : Goes(q, s, "since", series[r.code])
        BY <1>0, <1>11, <2>1, <2>4, FetchMoves
    <3>2. r.kind # "recalc" /\ r.pc # "next"
        BY <1>7, <2>1 DEF CStages
    <3> QED
        BY <1>6, <2>2, <2>4, <3>1, <3>2 DEF CStages
  <2> QED
      BY <2>3, <2>4
<1>12. CASE LatestNavDate(q)
  <2>1. r.pc = "since" /\ r.code \in Secs
      BY <1>12, InHand DEF LatestNavDate, CStages
  <2> DEFINE points == {d \in r.got : d >= Newest(stored[r.code])}
  <2>2. IF points = {} THEN creq' = Ok(q) ELSE \E s \in CRequests : Goes(q, s, "store", points)
      BY <1>0, <1>12, <2>1, LatestMoves
  <2>3. r.got \subseteq series[r.code] /\ r.got # {} /\ Caught(r.base[r.code], r.got)
      BY <1>1, <2>1 DEF Reaches
  <2>4. r.got \in SUBSET Dates /\ r.base[r.code] \in Nat
      BY <1>4, <2>1, <2>3 DEF CrawlShape
  <2>5. IF points = {} THEN Caught(r.base[r.code], stored[r.code])
        ELSE Caught(r.base[r.code], points)
      BY <2>1, <2>3, <2>4, UpToDate
  <2>6. points \subseteq series[r.code]
      BY <2>3
  <2> HIDE DEF points
  <2>7. CASE points = {}
    <3>1. Caught(r.base[r.code], stored'[r.code])
        BY <1>2, <2>1, <2>5, <2>7, CaughtOn
    <3> QED
        BY <1>5, <2>1, <2>2, <2>7, <3>1 DEF CStages
  <2>8. CASE points # {}
    <3>1. r.kind # "recalc" /\ r.pc # "next"
        BY <1>7, <2>1 DEF CStages
    <3> QED
        BY <1>6, <2>2, <2>5, <2>6, <2>8, <3>1 DEF CStages
  <2> QED
      BY <2>7, <2>8
<1>13. CASE UpsertNavHistory(q)
  <2>1. r.pc = "store" /\ r.code \in Secs
      BY <1>13, UpsertAdds
  <2>2. PICK kept \in SUBSET r.got :
           /\ Caught(r.base[r.code], kept)
           /\ stored' = [stored EXCEPT ![r.code] = @ \cup kept]
      BY <1>13, UpsertAdds
  <2>3. kept \subseteq stored'[r.code]
      BY <2>1, <2>2 DEF CrawlShape
  <2>4. Caught(r.base[r.code], stored'[r.code])
      BY <2>2, <2>3, CaughtOn
  <2>5. creq' = [creq EXCEPT ![q].pc = "recalc"]
      BY <1>13 DEF UpsertNavHistory
  <2>6. \E s \in CRequests : Goes(q, s, "recalc", r.got)
      BY <1>0, <2>5, LabelMoves DEF CStages
  <2>7. r.kind # "recalc" /\ r.pc # "next"
      BY <1>7, <2>1 DEF CStages
  <2> QED
      BY <1>6, <2>4, <2>6, <2>7 DEF CStages
<1>14. CASE RecalcSnapshot(q)
  <2>1. r.pc = "recalc" /\ creq' = Ok(q)
      BY <1>14 DEF RecalcSnapshot
  <2>2. r.kind # "recalc" => Caught(r.base[r.code], stored'[r.code])
      BY <1>3, <2>1 DEF Reaches
  <2> QED
      BY <1>5, <2>1, <2>2 DEF CStages
<1>15. CASE FetchHoldings(q)
  <2>1. r.pc = "fetch" /\ r.code \in Secs
      BY <1>15, InHand DEF FetchHoldings, CStages
  <2>2. \E s \in CRequests : Goes(q, s, "match", disclosed[r.code])
      BY <1>0, <1>15, <2>1, AnswerMoves
  <2>3. r.kind # "recalc" /\ r.pc # "next"
      BY <1>7, <2>1 DEF CStages
  <2> QED
      BY <1>6, <2>2, <2>3 DEF CStages
<1>16. ASSUME r.pc \in {"match", "begin", "rewrite"}
       PROVE  Caught(r.base[r.code], stored'[r.code])
  <2>1. r.code \in Secs
      BY <1>16, InHand DEF CStages
  <2>2. series[r.code] = {}
      BY <1>16, <2>1 DEF WorkInv
  <2> QED
      BY <1>1, <2>1, <2>2 DEF Reaches, Caught
<1>17. CASE FundHoldingsMatch(q)
  <2>1. /\ r.pc = "match"
        /\ creq' = Ok(q) \/ creq' = [creq EXCEPT ![q].pc = "begin"]
      BY <1>17 DEF FundHoldingsMatch
  <2>2. CASE creq' = Ok(q)
      BY <1>5, <1>16, <2>1, <2>2 DEF CStages
  <2>3. CASE creq' = [creq EXCEPT ![q].pc = "begin"]
    <3>1. \E s \in CRequests : Goes(q, s, "begin", r.got)
        BY <1>0, <2>3, LabelMoves DEF CStages
    <3>2. r.kind # "recalc" /\ r.pc # "next"
        BY <1>7, <2>1 DEF CStages
    <3> QED
        BY <1>6, <3>1, <3>2 DEF CStages
  <2> QED
      BY <2>1, <2>2, <2>3
<1>18. CASE RewriteHoldings(q)
  <2>1. r.pc = "rewrite" /\ creq' = Ok(q)
      BY <1>18 DEF RewriteHoldings
  <2> QED
      BY <1>5, <1>16, <2>1 DEF CStages
<1> QED
    BY <1>8, <1>9, <1>10, <1>11, <1>12, <1>13, <1>14, <1>15, <1>17, <1>18 DEF Asking

LEMMA KindsStay ==
    ASSUME UNCHANGED work, NEW v
    PROVE  Kinds(v)' = Kinds(v)
    BY DEF Kinds

LEMMA RequestInvStep ==
    ASSUME CrawlShape, RequestInv, WorkInv, CrawlNext
    PROVE  RequestInv'
<1>1. CASE Outside
  <2>1. /\ UNCHANGED <<creq, stored, work>>
        /\ \A c \in Secs : series[c] \subseteq series'[c]
      BY <1>1, OutsideKeeps
  <2>2. ASSUME NEW q \in CReqs, creq[q] # Unused
        PROVE  Accounted(creq[q]) /\ Reaches(creq[q], series', stored')
    <3>1. creq[q] \in CRequests /\ Accounted(creq[q]) /\ Reaches(creq[q], series, stored)
        BY <2>2, StagesOf DEF RequestInv
    <3> QED
        BY <2>1, <3>1, ReachesOn
  <2>3. \A q \in CReqs : creq[q] # Unused => creq[q].kind \in Kinds(creq[q].via)'
      BY <2>1, KindsStay DEF RequestInv
  <2> QED
      BY <2>1, <2>2, <2>3 DEF RequestInv
<1>2. ASSUME NEW q \in CReqs, Asking(q) PROVE RequestInv'
  <2>1. /\ UNCHANGED <<series, work>>
        /\ \A c \in Secs : series[c] \subseteq series[c] /\ stored[c] \subseteq stored'[c]
      BY <1>2, AskingKeeps, StoredGrows
  <2>2. ASSUME NEW o \in CReqs, creq[o] # Unused
        PROVE  /\ creq[o] \in CRequests /\ Accounted(creq[o]) /\ Reaches(creq[o], series, stored')
               /\ creq[o].kind \in Kinds(creq[o].via)
    <3>1. creq[o] \in CRequests /\ Accounted(creq[o]) /\ Reaches(creq[o], series, stored)
          /\ creq[o].kind \in Kinds(creq[o].via)
        BY <2>2, StagesOf DEF RequestInv
    <3> QED
        BY <2>1, <3>1, ReachesOn
  <2>3. ASSUME NEW s, s = Unused \/ (/\ Accounted(s) /\ Reaches(s, series, stored')
                                    /\ s.kind \in Kinds(s.via)),
               Turns(q, s)
        PROVE  RequestInv'
    <3>1. creq'[q] = s /\ \A o \in CReqs \ {q} : creq'[o] = creq[o]
        BY <2>3, MovesOne
    <3>2. ASSUME NEW o \in CReqs, creq'[o] # Unused
          PROVE  /\ Accounted(creq'[o]) /\ Reaches(creq'[o], series', stored')
                 /\ creq'[o].kind \in Kinds(creq'[o].via)
        BY <2>1, <2>2, <2>3, <3>1, <3>2
    <3>3. \A v : Kinds(v)' = Kinds(v)
        BY <2>1, KindsStay
    <3> QED
        BY <3>2, <3>3 DEF RequestInv
  <2>4. CASE Finish(q)
    <3>1. Turns(q, Unused)
        BY <2>4 DEF Finish, Turns
    <3> QED
        BY <2>3, <3>1
  <2>5. ASSUME NEW via \in {"rest", "mcp", "job"}, NEW kind \in CKinds, Request(q, via, kind)
        PROVE  RequestInv'
    <3>1. PICK s \in CRequests : Turns(q, s) /\ Asked(s, via, kind)
        BY <2>5, RequestMoves
    <3>2. Accounted(s)
        BY <3>1 DEF Accounted, Asked
    <3>3. ASSUME NEW c \in Secs PROVE Caught(s.base[c], series[c])
      <4>1. series[c] \in SUBSET (1..MaxDay)
          BY DEF CrawlShape, Dates
      <4>2. Newest(series[c]) = 0 \/ Newest(series[c]) \in series[c]
          BY <4>1, NewestIs
      <4>3. Newest(series[c]) \in Nat
          BY <4>1, NewestIs
      <4> QED
          BY <3>1, <4>2, <4>3 DEF Caught, Asked
    <3>4. Reaches(s, series, stored')
        BY <3>1, <3>3 DEF Reaches, Asked
    <3>5. s.kind \in Kinds(s.via)
        BY <2>5, <3>1 DEF Request, Asked
    <3> QED
        BY <2>3, <3>1, <3>2, <3>4, <3>5
  <2>6. CASE DeleteHoldings(q)
    <3>1. creq[q] \in CRequests /\ creq[q].code \in Secs /\ creq[q].pc = "begin"
        BY <2>6, InHand DEF DeleteHoldings, CStages
    <3>2. /\ creq'[q].pc = "rewrite"
          /\ \A o \in CReqs \ {q} : creq'[o].pc = creq[o].pc /\ (creq[o] = Unused => creq'[o] = Unused)
          /\ \A o \in CReqs : creq'[o] # Unused =>
                /\ Keeps(creq[o], creq'[o]) /\ creq'[o].code = creq[o].code
                /\ creq'[o].todo = creq[o].todo /\ creq'[o].done = creq[o].done
                /\ creq'[o].failed = creq[o].failed /\ creq'[o].got = creq[o].got
        BY <2>6, <3>1, DeleteMoves
    <3>3. UNCHANGED stored
        BY <2>6 DEF DeleteHoldings, navStore
    <3>4. ASSUME NEW o \in CReqs, creq'[o] # Unused
          PROVE  /\ Accounted(creq'[o]) /\ Reaches(creq'[o], series', stored')
                 /\ creq'[o].kind \in Kinds(creq'[o].via)
      <4>1. creq[o] # Unused
          BY <3>1, <3>2, <3>4, StagesOf
      <4>2. /\ Accounted(creq[o]) /\ Reaches(creq[o], series, stored')
            /\ creq[o].kind \in Kinds(creq[o].via)
          BY <2>2, <4>1
      <4>3. /\ Keeps(creq[o], creq'[o]) /\ creq'[o].code = creq[o].code
            /\ creq'[o].todo = creq[o].todo /\ creq'[o].done = creq[o].done
            /\ creq'[o].failed = creq[o].failed /\ creq'[o].got = creq[o].got
            /\ creq'[o].pc = creq[o].pc \/ (o = q /\ creq'[o].pc = "rewrite")
          BY <3>2, <3>4
      <4>4. Accounted(creq'[o])
          BY <3>1, <4>2, <4>3 DEF Accounted, Keeps
      <4>5. Reaches(creq'[o], series', stored')
          BY <2>1, <3>1, <4>2, <4>3 DEF Reaches, Keeps
      <4> QED
          BY <4>2, <4>3, <4>4, <4>5 DEF Keeps
    <3>5. \A v : Kinds(v)' = Kinds(v)
        BY <2>1, KindsStay
    <3> QED
        BY <3>4, <3>5 DEF RequestInv
  <2>7. CASE /\ ~DeleteHoldings(q) /\ ~Finish(q)
             /\ \A via \in {"rest", "mcp", "job"}, kind \in CKinds : ~Request(q, via, kind)
    <3>1. creq[q] \in CRequests
        BY <1>2, <2>7, AskingRight
    <3>2. PICK s \in CRequests : Turns(q, s) /\ Keeps(creq[q], s) /\ Right(s, stored')
        BY <1>2, <2>7, AskingRight
    <3>3. s.kind \in Kinds(s.via)
        BY <2>2, <3>1, <3>2, StagesOf DEF Keeps
    <3>4. Accounted(s) /\ Reaches(s, series, stored')
        BY <3>2, StagesOf DEF Right
    <3> QED
        BY <2>3, <3>2, <3>3, <3>4
  <2> QED
      BY <2>4, <2>5, <2>6, <2>7
<1> QED
    BY <1>1, <1>2, CrawlActs

-----------------------------------------------------------------------------
(* Which workload a request is in, and which rewrites overlap              *)

\* What a step leaves at q, for the workload and the rewrites.
Placed(r, s) ==
    /\ s.pc \in {"match", "begin", "rewrite"} => work = "holdings" /\ s.got \in Disclosures
    /\ s.pc \in {"since", "store"} => work # "holdings"
    /\ s.pc = "rewrite" =>
          r.pc = "rewrite" /\ s.code = r.code /\ s.del = r.del /\ s.overlap = r.overlap

LEMMA AskingPlaces ==
    ASSUME CrawlShape, RequestInv, WorkInv, NEW q \in CReqs, Asking(q), ~DeleteHoldings(q)
    PROVE  \E s \in {Unused} \cup CRequests : Turns(q, s) /\ Placed(creq[q], s)
<1> DEFINE r == creq[q]
<1>1. ASSUME NEW s \in CRequests, Turns(q, s), s.pc \in {"next", "fetch", "recalc"}
      PROVE  \E t \in {Unused} \cup CRequests : Turns(q, t) /\ Placed(r, t)
    BY <1>1 DEF Placed
<1>2. ASSUME NEW via \in {"rest", "mcp", "job"}, NEW kind \in CKinds, Request(q, via, kind)
      PROVE  \E s \in {Unused} \cup CRequests : Turns(q, s) /\ Placed(r, s)
  <2>1. PICK s \in CRequests : Turns(q, s) /\ Asked(s, via, kind)
      BY <1>2, RequestMoves
  <2> QED
      BY <1>1, <2>1 DEF Asked
<1>3. ASSUME NEW how \in {"deadline", "cancelled"}, CtxEnds(q, how)
      PROVE  \E s \in {Unused} \cup CRequests : Turns(q, s) /\ Placed(r, s)
  <2>1. PICK s \in CRequests :
            /\ Turns(q, s) /\ s.pc = r.pc /\ s.code = r.code /\ s.got = r.got
            /\ s.del = r.del /\ s.overlap = r.overlap
      BY <1>3, CtxMoves
  <2>2. Placed(r, s)
      BY <2>1 DEF Placed, WorkInv
  <2> QED
      BY <2>1, <2>2
<1>4. ASSUME NEW c \in Secs, NextCode(q, c)
      PROVE  \E s \in {Unused} \cup CRequests : Turns(q, s) /\ Placed(r, s)
  <2>1. PICK s \in CRequests : Turns(q, s) /\ s.pc = IF r.kind = "recalc" THEN "recalc" ELSE "fetch"
      BY <1>4, NextMoves
  <2> QED
      BY <1>1, <2>1
<1>5. CASE CodeFails(q)
  <2>1. PICK s \in CRequests : Turns(q, s) /\ s.pc = "next"
      BY <1>5, FailMoves
  <2> QED
      BY <1>1, <2>1
<1>6. ASSUME creq' = Ok(q), r.pc \in CStages \ {"next"}
      PROVE  \E s \in {Unused} \cup CRequests : Turns(q, s) /\ Placed(r, s)
  <2>1. r \in CRequests
      BY <1>6, InHand
  <2>2. PICK s \in CRequests : Turns(q, s) /\ s.pc = "next"
      BY <1>6, <2>1, OkMoves
  <2> QED
      BY <1>1, <2>2
<1>7. CASE FetchHistory(q)
  <2>1. r.pc = "fetch" /\ r \in CRequests /\ r.code \in Secs /\ work # "holdings"
      BY <1>7, InHand DEF FetchHistory, CStages
  <2>2. CASE series[r.code] = {}
      BY <1>6, <1>7, <2>1, <2>2 DEF FetchHistory, CStages
  <2>3. CASE series[r.code] # {}
    <3>1. PICK s \in CRequests : Goes(q, s, "since", series[r.code])
        BY <1>7, <2>1, <2>3, FetchMoves
    <3>2. Placed(r, s)
        BY <2>1, <3>1 DEF Goes, Placed
    <3> QED
        BY <3>1, <3>2 DEF Goes
  <2> QED
      BY <2>2, <2>3
<1>8. CASE LatestNavDate(q)
  <2>1. r.pc = "since" /\ r \in CRequests /\ r.code \in Secs /\ work # "holdings"
      BY <1>8, InHand DEF LatestNavDate, CStages, WorkInv
  <2>2. creq' = Ok(q) \/ \E s \in CRequests : \E new : Goes(q, s, "store", new)
      BY <1>8, <2>1, LatestMoves
  <2>3. CASE creq' = Ok(q)
      BY <1>6, <2>1, <2>3 DEF CStages
  <2>4. ASSUME NEW s \in CRequests, NEW new, Goes(q, s, "store", new)
        PROVE  Turns(q, s) /\ Placed(r, s)
      BY <2>1, <2>4 DEF Goes, Placed
  <2> QED
      BY <2>2, <2>3, <2>4
<1>9. CASE UpsertNavHistory(q)
  <2>1. r \in CRequests /\ creq' = [creq EXCEPT ![q].pc = "recalc"]
      BY <1>9, InHand DEF UpsertNavHistory, CStages
  <2>2. PICK s \in CRequests : Goes(q, s, "recalc", r.got)
      BY <2>1, LabelMoves DEF CStages
  <2> QED
      BY <1>1, <2>2 DEF Goes
<1>10. CASE RecalcSnapshot(q)
    BY <1>6, <1>10 DEF RecalcSnapshot, CStages
<1>11. CASE FetchHoldings(q)
  <2>1. r \in CRequests /\ r.code \in Secs /\ work = "holdings"
      BY <1>11, InHand DEF FetchHoldings, CStages
  <2>2. disclosed[r.code] \in Disclosures
      BY <1>11, <2>1, AnswerMoves
  <2>3. PICK s \in CRequests : Goes(q, s, "match", disclosed[r.code])
      BY <1>11, <2>1, AnswerMoves
  <2>4. Placed(r, s)
      BY <2>1, <2>2, <2>3 DEF Goes, Placed
  <2> QED
      BY <2>3, <2>4 DEF Goes
<1>12. CASE FundHoldingsMatch(q)
  <2>1. /\ r \in CRequests /\ r.pc = "match"
        /\ creq' = Ok(q) \/ creq' = [creq EXCEPT ![q].pc = "begin"]
      BY <1>12, InHand DEF FundHoldingsMatch, CStages
  <2>2. CASE creq' = Ok(q)
      BY <1>6, <2>1, <2>2 DEF CStages
  <2>3. CASE creq' = [creq EXCEPT ![q].pc = "begin"]
    <3>1. PICK s \in CRequests : Goes(q, s, "begin", r.got)
        BY <2>1, <2>3, LabelMoves DEF CStages
    <3>2. Placed(r, s)
        BY <2>1, <3>1 DEF Goes, Placed, WorkInv
    <3> QED
        BY <3>1, <3>2 DEF Goes
  <2> QED
      BY <2>1, <2>2, <2>3
<1>13. CASE RewriteHoldings(q)
    BY <1>6, <1>13 DEF RewriteHoldings, CStages
<1>14. CASE Finish(q)
  <2>1. Turns(q, Unused)
      BY <1>14 DEF Finish, Turns
  <2>2. Placed(r, Unused)
      BY DEF Placed, Unused
  <2> QED
      BY <2>1, <2>2
<1> QED
    BY <1>2, <1>3, <1>4, <1>5, <1>7, <1>8, <1>9, <1>10, <1>11, <1>12, <1>13, <1>14 DEF Asking

LEMMA WorkInvStep ==
    ASSUME CrawlShape, RequestInv, WorkInv, CrawlNext
    PROVE  WorkInv'
<1>1. CASE Outside
  <2>1. UNCHANGED <<creq, work>>
      BY <1>1, OutsideKeeps
  <2>2. work = "holdings" => UNCHANGED series
      BY <1>1 DEF Outside, NextDay, Publish, Disclose
  <2> QED
      BY <2>1, <2>2 DEF WorkInv
<1>2. ASSUME NEW q \in CReqs, Asking(q) PROVE WorkInv'
  <2>1. UNCHANGED <<series, work>>
      BY <1>2, AskingKeeps
  <2>2. CASE DeleteHoldings(q)
    <3>1. creq[q] \in CRequests /\ creq[q].code \in Secs /\ creq[q].pc = "begin"
        BY <2>2, InHand DEF DeleteHoldings, CStages
    <3>2. /\ creq'[q].pc = "rewrite"
          /\ \A o \in CReqs \ {q} : creq'[o].pc = creq[o].pc
          /\ \A o \in CReqs : creq'[o] # Unused => creq'[o].got = creq[o].got
        BY <2>2, <3>1, DeleteMoves
    <3>3. \A o \in CReqs : creq'[o].pc \in CStages => creq'[o].got = creq[o].got
        BY <3>2 DEF CStages, Unused
    <3> QED
        BY <2>1, <3>1, <3>2, <3>3 DEF WorkInv, CStages
  <2>3. CASE ~DeleteHoldings(q)
    <3>1. PICK s \in {Unused} \cup CRequests : Turns(q, s) /\ Placed(creq[q], s)
        BY <1>2, <2>3, AskingPlaces
    <3>2. creq'[q] = s /\ \A o \in CReqs \ {q} : creq'[o] = creq[o]
        BY <3>1, MovesOne
    <3> QED
        BY <2>1, <3>1, <3>2 DEF Placed, WorkInv
  <2> QED
      BY <2>2, <2>3
<1> QED
    BY <1>1, <1>2, CrawlActs

LEMMA RewriteInvStep ==
    ASSUME CrawlShape, RequestInv, WorkInv, RewriteInv, CrawlNext
    PROVE  RewriteInv'
<1>1. CASE Outside
  <2>1. UNCHANGED <<creq, pg, slice>>
      BY <1>1, OutsideKeeps
  <2> QED
      BY <2>1 DEF RewriteInv
<1>2. ASSUME NEW q \in CReqs, Asking(q) PROVE RewriteInv'
  <2>1. UNCHANGED pg
      BY <1>2, AskingKeeps
  <2>2. CASE DeleteHoldings(q)
    <3> DEFINE others == {o \in CReqs \ {q} : creq[o].pc = "rewrite" /\ creq[o].code = creq[q].code}
    <3>1. creq[q] \in CRequests /\ creq[q].code \in Secs /\ creq[q].pc = "begin"
        BY <2>2, InHand DEF DeleteHoldings, CStages
    <3>2. /\ creq'[q].pc = "rewrite" /\ creq'[q].del = slice[creq[q].code]
          /\ \A o \in CReqs \ {q} :
                /\ creq'[o].pc = creq[o].pc
                /\ o \notin others => creq'[o] = creq[o]
        BY <2>2, <3>1, DeleteMoves
    <3>3. /\ creq'[q].overlap = (others # {})
          /\ \A o \in others : creq'[o].overlap
        BY <2>2, <3>1, DeleteMoves
    <3>4. \A o \in CReqs : creq'[o] # Unused => creq'[o].code = creq[o].code
        BY <2>2, <3>1, DeleteMoves
    <3>5. \A o \in CReqs : creq'[o].pc = "rewrite" => creq'[o].code = creq[o].code
        BY <3>4 DEF Unused
    <3>6. pg \/ \A o \in CReqs \ {q} : creq[o].pc # "rewrite"
        BY <2>2 DEF DeleteHoldings, ConnFree
    <3>7. UNCHANGED slice
        BY <2>2 DEF DeleteHoldings, holdStore
    <3>8. ASSUME NEW o \in CReqs, creq'[o].pc = "rewrite"
          PROVE  IF creq'[o].overlap THEN pg ELSE creq'[o].del = slice[creq'[o].code]
      <4>1. CASE o = q
        <5>1. others # {} => pg
            BY <3>6
        <5> QED
            BY <3>2, <3>3, <3>5, <3>8, <4>1, <5>1
      <4>2. CASE o # q /\ o \in others
        <5>1. pg /\ creq'[o].overlap
            BY <3>3, <3>6, <4>2
        <5> QED
            BY <5>1
      <4>3. CASE o # q /\ o \notin others
          BY <3>2, <3>8, <4>3 DEF RewriteInv
      <4> QED
          BY <4>1, <4>2, <4>3
    <3>9. ASSUME NEW o \in CReqs, NEW p \in CReqs \ {o},
                 creq'[o].pc = "rewrite", creq'[p].pc = "rewrite"
          PROVE  pg /\ (creq'[o].code = creq'[p].code => creq'[o].overlap)
      <4>1. pg
          BY <3>2, <3>6, <3>9
      <4>2. ASSUME creq'[o].code = creq'[p].code PROVE creq'[o].overlap
        <5>1. creq[o].code = creq[p].code
            BY <3>5, <3>9, <4>2
        <5>2. CASE o = q
          <6>1. p \in others
              BY <3>2, <3>9, <5>1, <5>2
          <6> QED
              BY <3>3, <5>2, <6>1
        <5>3. CASE o \in others
            BY <3>3, <5>3
        <5>4. CASE o # q /\ o \notin others
          <6>1. creq'[o] = creq[o] /\ creq[o].pc = "rewrite" /\ p # q
              BY <3>2, <3>9, <5>1, <5>4
          <6>2. creq[p].pc = "rewrite"
              BY <3>2, <3>9, <6>1
          <6>3. creq[o].overlap
              BY <3>9, <5>1, <6>1, <6>2 DEF RewriteInv
          <6> QED
              BY <6>1, <6>3
        <5> QED
            BY <5>2, <5>3, <5>4
      <4> QED
          BY <4>1, <4>2
    <3> QED
        BY <2>1, <3>7, <3>8, <3>9 DEF RewriteInv
  <2>3. CASE ~DeleteHoldings(q)
    <3>1. PICK s \in {Unused} \cup CRequests : Turns(q, s) /\ Placed(creq[q], s)
        BY <1>2, <2>3, AskingPlaces
    <3>2. creq'[q] = s /\ \A o \in CReqs \ {q} : creq'[o] = creq[o]
        BY <3>1, MovesOne
    <3>3. \A o \in CReqs : creq'[o].pc = "rewrite" =>
              /\ creq[o].pc = "rewrite" /\ creq'[o].code = creq[o].code
              /\ creq'[o].del = creq[o].del /\ creq'[o].overlap = creq[o].overlap
        BY <3>1, <3>2 DEF Placed
    <3>4. ASSUME NEW o \in CReqs, creq'[o].pc = "rewrite", ~creq[o].overlap
          PROVE  slice'[creq[o].code] = slice[creq[o].code]
      <4>1. CASE RewriteHoldings(q)
        <5>1. creq[q].pc = "rewrite" /\ creq' = Ok(q) /\ creq[q] \in CRequests /\ creq[q].code \in Secs
            BY <4>1, InHand DEF RewriteHoldings, CStages
        <5>2. \E t \in CRequests : Turns(q, t) /\ t.pc = "next"
            BY <5>1, OkMoves
        <5>3. creq'[q].pc = "next"
            BY <5>2, MovesOne
        <5>4. o # q /\ creq[o].pc = "rewrite"
            BY <3>3, <3>4, <5>3
        <5>5. creq[o].code # creq[q].code
            BY <3>4, <5>1, <5>4 DEF RewriteInv
        <5>6. PICK kept \in SUBSET (slice[creq[q].code] \ creq[q].del) :
                  slice' = [slice EXCEPT ![creq[q].code] = kept \cup New(q)]
            BY <4>1, RewriteAdds
        <5>7. creq[o].code \in Secs
            BY <5>4, InHand DEF CStages
        <5> QED
            BY <5>5, <5>6, <5>7 DEF CrawlShape
      <4>2. CASE ~RewriteHoldings(q)
          BY <1>2, <4>2, AskingKeeps
      <4> QED
          BY <4>1, <4>2
    <3>5. ASSUME NEW o \in CReqs, creq'[o].pc = "rewrite"
          PROVE  IF creq'[o].overlap THEN pg' ELSE creq'[o].del = slice'[creq'[o].code]
        BY <2>1, <3>3, <3>4, <3>5 DEF RewriteInv
    <3>6. ASSUME NEW o \in CReqs, NEW p \in CReqs \ {o},
                 creq'[o].pc = "rewrite", creq'[p].pc = "rewrite"
          PROVE  pg' /\ (creq'[o].code = creq'[p].code => creq'[o].overlap)
        BY <2>1, <3>3, <3>6 DEF RewriteInv
    <3> QED
        BY <3>5, <3>6 DEF RewriteInv
  <2> QED
      BY <2>2, <2>3
<1> QED
    BY <1>1, <1>2, CrawlActs

-----------------------------------------------------------------------------
(* What the tables hold                                                    *)

LEMMA SliceInvStep ==
    ASSUME CrawlShape, RequestInv, WorkInv, RewriteInv, SliceInv, CrawlNext
    PROVE  SliceInv'
<1>1. CASE Outside
  <2>1. UNCHANGED <<pg, slice, gen, lapped>>
      BY <1>1, OutsideKeeps
  <2> QED
      BY <2>1 DEF SliceInv
<1>2. ASSUME NEW q \in CReqs, Asking(q) PROVE SliceInv'
  <2>1. CASE ~RewriteHoldings(q)
    <3>1. UNCHANGED <<pg, slice, gen, lapped>>
        BY <1>2, <2>1, AskingKeeps
    <3> QED
        BY <3>1 DEF SliceInv
  <2>2. CASE RewriteHoldings(q)
    <3> DEFINE k == creq[q].code
    <3>1. /\ creq[q] \in CRequests /\ k \in Secs /\ creq[q].pc = "rewrite"
          /\ creq[q].got \in Disclosures /\ gen' = gen + 1
          /\ \A t \in New(q) : t.gen = gen + 1
        BY <2>2, RewriteAdds
    <3>2. PICK kept \in SUBSET (slice[k] \ creq[q].del) : slice' = [slice EXCEPT ![k] = kept \cup New(q)]
        BY <2>2, RewriteAdds
    <3>3. UNCHANGED pg
        BY <1>2, AskingKeeps
    <3>4. lapped' = IF creq[q].overlap THEN lapped \cup {k} ELSE lapped \ {k}
        BY <2>2 DEF RewriteHoldings
    <3>5. gen \in Nat
        BY DEF CrawlShape
    <3>6. slice'[k] = kept \cup New(q) /\ \A c \in Secs : c # k => slice'[c] = slice[c]
        BY <3>1, <3>2 DEF CrawlShape
    <3>7. \A c \in Secs : \A t \in slice[c] : t.gen \in Nat
        BY DEF CrawlShape, Tuples
    <3>8. ASSUME NEW c \in Secs PROVE OneAnswer(slice'[c]) \/ (pg' /\ c \in lapped')
      <4>1. CASE c # k
          BY <3>3, <3>4, <3>6, <4>1 DEF SliceInv
      <4>2. CASE c = k /\ creq[q].overlap
          BY <3>1, <3>3, <3>4, <4>2 DEF RewriteInv
      <4>3. CASE c = k /\ ~creq[q].overlap
        <5>1. creq[q].del = slice[k]
            BY <3>1, <4>3 DEF RewriteInv
        <5>2. slice'[c] = New(q)
            BY <3>6, <4>3, <5>1
        <5>3. gen + 1 \in Nat
            BY <3>5
        <5>4. OneAnswer(New(q))
            BY <3>1, <5>3 DEF OneAnswer, New
        <5> QED
            BY <5>2, <5>4
      <4> QED
          BY <4>1, <4>2, <4>3
    <3>9. ASSUME NEW c \in Secs, NEW t \in slice'[c] PROVE 1 <= t.gen /\ t.gen <= gen'
      <4>1. CASE t \in slice[c]
        <5>1. 1 <= t.gen /\ t.gen <= gen /\ t.gen \in Nat
            BY <3>7, <4>1 DEF SliceInv
        <5> QED
            BY <3>1, <3>5, <5>1
      <4>2. CASE t \notin slice[c]
        <5>1. t \in New(q)
            BY <3>2, <3>6, <3>9, <4>2
        <5>2. t.gen = gen + 1
            BY <3>1, <5>1
        <5> QED
            BY <3>1, <3>5, <5>2
      <4> QED
          BY <4>1, <4>2
    <3> QED
        BY <3>8, <3>9 DEF SliceInv
  <2> QED
      BY <2>1, <2>2
<1> QED
    BY <1>1, <1>2, CrawlActs

\* What a step leaves at q, for the series.
Holds(s, here, causes) ==
    /\ s.pc = "since" => Older(s.code, series[s.code], s.got, s.got, late)
    /\ s.pc = "store" => Older(s.code, series[s.code], s.got, s.got \cup here[s.code], late \cup causes)

LEMMA HoldsOn ==
    ASSUME NEW r \in CRequests, NEW A, NEW B, NEW C, NEW D,
           r.pc \in {"since", "store"} => r.code \in Secs,
           \A c \in Secs : A[c] \subseteq B[c], C \subseteq D, Holds(r, A, C)
    PROVE  Holds(r, B, D)
    BY DEF Holds, Older

LEMMA AskingHolds ==
    ASSUME CrawlShape, RequestInv, WorkInv, SeriesInv, NEW q \in CReqs, Asking(q), ~DeleteHoldings(q)
    PROVE  \E s \in {Unused} \cup CRequests : Turns(q, s) /\ Holds(s, stored, cut)
<1> DEFINE r == creq[q]
<1>1. ASSUME NEW s \in CRequests, Turns(q, s), s.pc \notin {"since", "store"}
      PROVE  \E t \in {Unused} \cup CRequests : Turns(q, t) /\ Holds(t, stored, cut)
    BY <1>1 DEF Holds
<1>2. ASSUME NEW via \in {"rest", "mcp", "job"}, NEW kind \in CKinds, Request(q, via, kind)
      PROVE  \E s \in {Unused} \cup CRequests : Turns(q, s) /\ Holds(s, stored, cut)
  <2>1. PICK s \in CRequests : Turns(q, s) /\ Asked(s, via, kind)
      BY <1>2, RequestMoves
  <2> QED
      BY <1>1, <2>1 DEF Asked
<1>3. ASSUME NEW how \in {"deadline", "cancelled"}, CtxEnds(q, how)
      PROVE  \E s \in {Unused} \cup CRequests : Turns(q, s) /\ Holds(s, stored, cut)
  <2>1. PICK s \in CRequests : Turns(q, s) /\ s.pc = r.pc /\ s.code = r.code /\ s.got = r.got
      BY <1>3, CtxMoves
  <2>2. Holds(s, stored, cut)
      BY <2>1 DEF Holds, SeriesInv
  <2> QED
      BY <2>1, <2>2
<1>4. ASSUME NEW c \in Secs, NextCode(q, c)
      PROVE  \E s \in {Unused} \cup CRequests : Turns(q, s) /\ Holds(s, stored, cut)
  <2>1. PICK s \in CRequests : Turns(q, s) /\ s.pc = IF r.kind = "recalc" THEN "recalc" ELSE "fetch"
      BY <1>4, NextMoves
  <2> QED
      BY <1>1, <2>1
<1>5. CASE CodeFails(q)
  <2>1. PICK s \in CRequests : Turns(q, s) /\ s.pc = "next"
      BY <1>5, FailMoves
  <2> QED
      BY <1>1, <2>1
<1>6. ASSUME creq' = Ok(q), r.pc \in CStages \ {"next"}
      PROVE  \E s \in {Unused} \cup CRequests : Turns(q, s) /\ Holds(s, stored, cut)
  <2>1. r \in CRequests
      BY <1>6, InHand
  <2>2. PICK s \in CRequests : Turns(q, s) /\ s.pc = "next"
      BY <1>6, <2>1, OkMoves
  <2> QED
      BY <1>1, <2>2
<1>7. CASE FetchHistory(q)
  <2>1. r.pc = "fetch" /\ r \in CRequests /\ r.code \in Secs
      BY <1>7, InHand DEF FetchHistory, CStages
  <2>2. CASE series[r.code] = {}
      BY <1>6, <1>7, <2>1, <2>2 DEF FetchHistory, CStages
  <2>3. CASE series[r.code] # {}
    <3>1. PICK s \in CRequests : Goes(q, s, "since", series[r.code])
        BY <1>7, <2>1, <2>3, FetchMoves
    <3>2. Holds(s, stored, cut)
        BY <3>1 DEF Goes, Holds, Older
    <3> QED
        BY <3>1, <3>2 DEF Goes
  <2> QED
      BY <2>2, <2>3
<1>8. CASE LatestNavDate(q)
  <2>1. r.pc = "since" /\ r \in CRequests /\ r.code \in Secs
      BY <1>8, InHand DEF LatestNavDate, CStages
  <2> DEFINE last == Newest(stored[r.code])
             points == {d \in r.got : d >= last}
  <2>2. IF points = {} THEN creq' = Ok(q) ELSE \E s \in CRequests : Goes(q, s, "store", points)
      BY <1>8, <2>1, LatestMoves
  <2>3. CASE points = {}
      BY <1>6, <2>1, <2>2, <2>3 DEF CStages
  <2>4. CASE points # {}
    <3>1. PICK s \in CRequests : Goes(q, s, "store", points)
        BY <2>2, <2>4
    <3>2. r.got \subseteq series[r.code]
        BY <2>1, StagesOf DEF RequestInv, Reaches, CStages
    <3>3. stored[r.code] \in SUBSET (1..MaxDay) /\ series[r.code] \in SUBSET (1..MaxDay)
        BY <2>1 DEF CrawlShape, Dates
    <3>4. /\ last \in Nat
          /\ stored[r.code] = {} => last = 0
          /\ stored[r.code] # {} => last \in stored[r.code]
        BY <3>3, NewestIs
    <3>5. \A d \in series[r.code] : d \in Nat /\ d >= 1
        BY <3>3, CrawlAssumption
    <3>6. ASSUME NEW d \in series[r.code] \ (points \cup stored[r.code]), NEW e \in points, d < e
          PROVE  <<r.code, d>> \in late \cup cut
      <4>1. CASE d \notin r.got
          BY <2>1, <3>6, <4>1 DEF SeriesInv, Older
      <4>2. CASE d \in r.got
        <5>1. d < last
            BY <3>4, <3>5, <3>6, <4>2
        <5>2. last \in stored[r.code]
            BY <3>4, <3>5, <3>6, <5>1
        <5> HIDE DEF last
        <5> QED
            BY <2>1, <3>6, <5>1, <5>2 DEF SeriesInv, Older
      <4> QED
          BY <4>1, <4>2
    <3>7. Older(r.code, series[r.code], points, points \cup stored[r.code], late \cup cut)
        BY <3>6 DEF Older
    <3> HIDE DEF points
    <3>8. Holds(s, stored, cut)
        BY <3>1, <3>7 DEF Goes, Holds
    <3> QED
        BY <3>1, <3>8 DEF Goes
  <2> QED
      BY <2>3, <2>4
<1>9. CASE UpsertNavHistory(q)
  <2>1. r \in CRequests /\ creq' = [creq EXCEPT ![q].pc = "recalc"]
      BY <1>9, InHand DEF UpsertNavHistory, CStages
  <2>2. PICK s \in CRequests : Goes(q, s, "recalc", r.got)
      BY <2>1, LabelMoves DEF CStages
  <2> QED
      BY <1>1, <2>2 DEF Goes
<1>10. CASE RecalcSnapshot(q)
    BY <1>6, <1>10 DEF RecalcSnapshot, CStages
<1>11. CASE FetchHoldings(q)
  <2>1. r \in CRequests /\ r.code \in Secs
      BY <1>11, InHand DEF FetchHoldings, CStages
  <2>2. PICK s \in CRequests : Goes(q, s, "match", disclosed[r.code])
      BY <1>11, <2>1, AnswerMoves
  <2> QED
      BY <1>1, <2>2 DEF Goes
<1>12. CASE FundHoldingsMatch(q)
  <2>1. /\ r \in CRequests /\ r.pc = "match"
        /\ creq' = Ok(q) \/ creq' = [creq EXCEPT ![q].pc = "begin"]
      BY <1>12, InHand DEF FundHoldingsMatch, CStages
  <2>2. CASE creq' = Ok(q)
      BY <1>6, <2>1, <2>2 DEF CStages
  <2>3. CASE creq' = [creq EXCEPT ![q].pc = "begin"]
    <3>1. PICK s \in CRequests : Goes(q, s, "begin", r.got)
        BY <2>1, <2>3, LabelMoves DEF CStages
    <3> QED
        BY <1>1, <3>1 DEF Goes
  <2> QED
      BY <2>1, <2>2, <2>3
<1>13. CASE RewriteHoldings(q)
    BY <1>6, <1>13 DEF RewriteHoldings, CStages
<1>14. CASE Finish(q)
  <2>1. Turns(q, Unused)
      BY <1>14 DEF Finish, Turns
  <2>2. Holds(Unused, stored, cut)
      BY DEF Holds, Unused
  <2> QED
      BY <2>1, <2>2
<1> QED
    BY <1>2, <1>3, <1>4, <1>5, <1>7, <1>8, <1>9, <1>10, <1>11, <1>12, <1>13, <1>14 DEF Asking

\* A date the upstream publishes after a newer one is late.
LEMMA OutsideOlder ==
    ASSUME CrawlShape, Outside, NEW c \in Secs, NEW newer, newer \subseteq series[c], NEW here,
           NEW causes, NEW known, causes \subseteq known, late' \subseteq known,
           Older(c, series[c], newer, here, causes)
    PROVE  Older(c, series'[c], newer, here, known)
<1>1. ASSUME NEW d \in series'[c] \ here, NEW e \in newer, d < e
      PROVE  <<c, d>> \in known
  <2>1. CASE d \in series[c]
      BY <1>1, <2>1 DEF Older
  <2>2. CASE d \notin series[c]
    <3>1. PICK k \in Scope[work], n \in 1..MaxDay : Publish(k, n)
        BY <1>1, <2>2 DEF Outside, NextDay, Disclose
    <3>2. k \in Secs
        BY CrawlAssumption DEF CrawlShape
    <3>3. series' = [series EXCEPT ![k] = @ \cup {n}]
        BY <3>1 DEF Publish
    <3>4. k = c /\ n = d
        BY <1>1, <2>2, <3>2, <3>3 DEF CrawlShape
    <3>5. series[c] \in SUBSET (1..MaxDay)
        BY DEF CrawlShape, Dates
    <3>6. e <= Newest(series[c]) /\ Newest(series[c]) \in Nat /\ e \in Nat
        BY <1>1, <3>5, NewestIs, CrawlAssumption
    <3>7. d < Newest(series[c])
        BY <1>1, <3>4, <3>6, CrawlAssumption
    <3>8. late' = late \cup {<<c, d>>}
        BY <3>1, <3>4, <3>7 DEF Publish
    <3> QED
        BY <3>8
  <2> QED
      BY <2>1, <2>2
<1> QED
    BY <1>1 DEF Older

LEMMA SeriesInvStep ==
    ASSUME CrawlShape, RequestInv, WorkInv, SeriesInv, CrawlNext
    PROVE  SeriesInv'
<1>1. CASE Outside
  <2>1. /\ UNCHANGED <<creq, stored, cut>> /\ late \subseteq late'
        /\ \A c \in Secs : series[c] \subseteq series'[c]
      BY <1>1, OutsideKeeps
  <2>2. \A c \in Secs : stored[c] \subseteq series'[c]
      BY <2>1 DEF SeriesInv
  <2>3. ASSUME NEW c \in Secs PROVE Older(c, series'[c], stored[c], stored[c], late' \cup cut)
    <3>1. stored[c] \subseteq series[c] /\ Older(c, series[c], stored[c], stored[c], late \cup cut)
        BY DEF SeriesInv
    <3>2. late \cup cut \subseteq late' \cup cut
        BY <2>1
    <3> QED
        BY <1>1, <3>1, <3>2, OutsideOlder
  <2>4. ASSUME NEW q \in CReqs, creq[q].pc \in {"since", "store"}
        PROVE  creq[q].code \in Secs /\ creq[q].got \subseteq series[creq[q].code]
      BY <2>4, InHand, StagesOf DEF RequestInv, Reaches, CStages
  <2>5. ASSUME NEW q \in CReqs, creq[q].pc = "since", NEW c, c = creq[q].code
        PROVE  Older(c, series'[c], creq[q].got, creq[q].got, late')
    <3>1. Older(c, series[c], creq[q].got, creq[q].got, late)
        BY <2>5 DEF SeriesInv
    <3> QED
        BY <1>1, <2>1, <2>4, <2>5, <3>1, OutsideOlder
  <2>6. ASSUME NEW q \in CReqs, creq[q].pc = "store", NEW c, c = creq[q].code
        PROVE  Older(c, series'[c], creq[q].got, creq[q].got \cup stored[c], late' \cup cut)
    <3>1. Older(c, series[c], creq[q].got, creq[q].got \cup stored[c], late \cup cut)
        BY <2>6 DEF SeriesInv
    <3>2. late \cup cut \subseteq late' \cup cut
        BY <2>1
    <3> QED
        BY <1>1, <2>4, <2>6, <3>1, <3>2, OutsideOlder
  <2> QED
      BY <2>1, <2>2, <2>3, <2>5, <2>6 DEF SeriesInv
<1>2. ASSUME NEW q \in CReqs, Asking(q) PROVE SeriesInv'
  <2>1. /\ UNCHANGED <<series, late>> /\ cut \subseteq cut'
        /\ \A c \in Secs : stored[c] \subseteq stored'[c]
      BY <1>2, AskingKeeps, StoredGrows
  <2>2. ASSUME NEW c \in Secs
        PROVE  /\ stored'[c] \subseteq series[c]
               /\ Older(c, series[c], stored'[c], stored'[c], late \cup cut')
    <3>1. CASE UpsertNavHistory(q)
      <4> DEFINE k == creq[q].code
      <4>1. creq[q] \in CRequests /\ k \in Secs /\ creq[q].pc = "store"
          BY <3>1, UpsertAdds
      <4>2. PICK kept \in SUBSET creq[q].got :
               /\ stored' = [stored EXCEPT ![k] = @ \cup kept]
               /\ cut' = cut \cup ({k} \X (creq[q].got \ kept))
          BY <3>1, UpsertAdds
      <4>3. stored'[k] = stored[k] \cup kept /\ \A n \in Secs : n # k => stored'[n] = stored[n]
          BY <4>1, <4>2 DEF CrawlShape
      <4>4. creq[q].got \subseteq series[k]
          BY <4>1, StagesOf DEF RequestInv, Reaches, CStages
      <4>5. CASE c # k
          BY <2>1, <4>3, <4>5 DEF SeriesInv, Older
      <4>6. CASE c = k
        <5>1. stored'[c] \subseteq series[c]
            BY <4>3, <4>4, <4>6 DEF SeriesInv
        <5>2. ASSUME NEW d \in series[c] \ stored'[c], NEW e \in stored'[c], d < e
              PROVE  <<c, d>> \in late \cup cut'
          <6>1. d \notin stored[k] /\ d \notin kept
              BY <4>3, <4>6, <5>2
          <6>2. CASE d \in creq[q].got
            <7>1. <<k, d>> \in {k} \X (creq[q].got \ kept)
                BY <6>1, <6>2
            <7> QED
                BY <4>2, <4>6, <7>1
          <6>3. CASE d \notin creq[q].got /\ e \in kept
            <7>1. Older(k, series[k], creq[q].got, creq[q].got \cup stored[k], late \cup cut)
                BY <4>1 DEF SeriesInv
            <7> QED
                BY <2>1, <4>6, <5>2, <6>1, <6>3, <7>1 DEF Older
          <6>4. CASE e \in stored[k]
              BY <2>1, <4>1, <4>6, <5>2, <6>1, <6>4 DEF SeriesInv, Older
          <6> QED
              BY <4>3, <4>6, <5>2, <6>2, <6>3, <6>4
        <5> QED
            BY <5>1, <5>2 DEF Older
      <4> QED
          BY <4>5, <4>6
    <3>2. CASE ~UpsertNavHistory(q)
        BY <1>2, <3>2, AskingKeeps DEF SeriesInv
    <3> QED
        BY <3>1, <3>2
  <2>3. ASSUME NEW s \in {Unused} \cup CRequests, Holds(s, stored, cut),
               s.pc \in {"since", "store"} => s.code \in Secs
        PROVE  Holds(s, stored', cut')
    <3>1. CASE s = Unused
        BY <3>1 DEF Holds, Unused
    <3>2. CASE s \in CRequests
        BY <2>1, <2>3, <3>2, HoldsOn
    <3> QED
        BY <3>1, <3>2
  <2>4. ASSUME NEW o \in CReqs
        PROVE  /\ Holds(creq[o], stored, cut)
               /\ creq[o].pc \in {"since", "store"} => creq[o].code \in Secs
               /\ creq[o] \in {Unused} \cup CRequests
      BY InHand, StagesOf DEF Holds, SeriesInv, CStages
  <2>5. ASSUME NEW o \in CReqs PROVE Holds(creq'[o], stored', cut')
    <3>1. CASE DeleteHoldings(q)
      <4>1. creq[q] \in CRequests /\ creq[q].code \in Secs /\ creq[q].pc = "begin"
          BY <3>1, InHand DEF DeleteHoldings, CStages
      <4>2. /\ creq'[q].pc = "rewrite"
            /\ \A p \in CReqs \ {q} : creq'[p].pc = creq[p].pc
            /\ \A p \in CReqs : creq'[p] # Unused =>
                  creq'[p].got = creq[p].got /\ creq'[p].code = creq[p].code
          BY <3>1, <4>1, DeleteMoves
      <4>3. creq'[o].pc \in {"since", "store"} =>
                creq'[o].pc = creq[o].pc /\ creq'[o].got = creq[o].got /\ creq'[o].code = creq[o].code
          BY <4>2 DEF Unused
      <4>4. Holds(creq[o], stored', cut')
          BY <2>3, <2>4
      <4> QED
          BY <4>3, <4>4 DEF Holds
    <3>2. CASE ~DeleteHoldings(q)
      <4>1. PICK s \in {Unused} \cup CRequests : Turns(q, s) /\ Holds(s, stored, cut)
          BY <1>2, <3>2, AskingHolds
      <4>2. creq'[q] = s /\ \A p \in CReqs \ {q} : creq'[p] = creq[p]
          BY <4>1, MovesOne
      <4>3. s.pc \in {"since", "store"} => s.code \in Secs
        <5>1. CrawlShape' /\ RequestInv'
            BY CrawlShapeStep, RequestInvStep
        <5>2. ASSUME s.pc \in {"since", "store"} PROVE s.code \in Secs
          <6>1. s \in CRequests /\ s # Unused
              BY <5>2 DEF Unused
          <6>2. Accounted(s)
              BY <4>2, <5>1, <6>1 DEF RequestInv
          <6> QED
              BY <5>2, <6>1, <6>2 DEF Accounted, CRequests
        <5> QED
            BY <5>2
      <4>4. Holds(s, stored', cut')
          BY <2>3, <4>1, <4>3
      <4> QED
          BY <2>3, <2>4, <4>2, <4>4
    <3> QED
        BY <3>1, <3>2
  <2> QED
      BY <2>1, <2>2, <2>5 DEF SeriesInv, Holds
<1> QED
    BY <1>1, <1>2, CrawlActs

-----------------------------------------------------------------------------
(* What a response says                                                    *)

\* A run that says it is complete has nothing left to do, and where codes
\* failed, others did not.
LEMMA RunComplete ==
    ASSUME NEW r, RunResult(r) = "complete"
    PROVE  r.todo = {} /\ (r.failed # {} => r.done # {})
    BY DEF RunResult, CtxError

LEMMA StaleComplete ==
    ASSUME NEW r \in CRequests, r.todo = {} \/ r.ctx # "live", StaleResult(r) = "complete"
    PROVE  \/ r.done \cup r.failed \cup r.todo = {}
           \/ r.todo = {} /\ r.failed = {}
           \/ r.todo = {} /\ r.via = "job" /\ (r.failed # {} => r.done # {})
           \/ r.via = "rest" /\ r.ctx = "cancelled"
<1>1. CASE r.via = "job"
    BY <1>1, RunComplete DEF StaleResult
<1>2. CASE r.via # "job" /\ r.done \cup r.failed \cup r.todo # {}
  <2>1. ~(r.via = "rest" /\ r.ctx = "deadline")
      BY <1>2 DEF StaleResult
  <2>2. ~(r.via = "mcp" /\ r.todo # {})
      BY <1>2 DEF StaleResult
  <2>3. BatchStatus(r.done, r.failed) = "complete"
      BY <1>2, <2>1, <2>2 DEF StaleResult
  <2>4. r.failed = {}
      BY <2>3 DEF BatchStatus
  <2> QED
      BY <1>2, <2>1, <2>2, <2>4 DEF CRequests
<1> QED
    BY <1>1, <1>2

LEMMA RecalcComplete ==
    ASSUME NEW r, RecalcResult(r) = "complete"
    PROVE  r.todo = {} /\ r.failed = {}
    BY DEF RecalcResult, CtxError, BatchStatus

LEMMA CompleteStep ==
    ASSUME CrawlShape, RequestInv, CrawlNext
    PROVE  CompleteHasCause'
<1>1. CASE report' = NoReport
    BY <1>1 DEF NoReport, CompleteHasCause
<1>2. ASSUME NEW q \in CReqs, Finish(q) PROVE CompleteHasCause'
  <2> DEFINE r == creq[q]
             status == CASE r.kind = "stale" -> StaleResult(r)
                         [] r.kind = "recalc" -> RecalcResult(r)
                         [] r.kind = "single" -> SingleResult(r)
                         [] OTHER -> RunResult(r)
  <2>1. /\ r.pc = "next" /\ (r.todo = {} \/ r.ctx # "live")
        /\ report' = [status |-> status, via |-> r.via, kind |-> r.kind, due |-> r.due,
                      base |-> r.base, dropped |-> r.dropped, done |-> r.done,
                      failed |-> r.failed, ctx |-> r.ctx]
        /\ UNCHANGED stored
      BY <1>2 DEF Finish, Alive, navStore
  <2>2. r \in CRequests /\ Accounted(r) /\ Reaches(r, series, stored) /\ r.kind \in Kinds(r.via)
      BY <2>1, StagesOf DEF RequestInv, CStages
  <2> HIDE DEF status
  <2>3. /\ report'.status = status /\ report'.via = r.via /\ report'.kind = r.kind
        /\ report'.due = r.due /\ report'.base = r.base /\ report'.dropped = r.dropped
        /\ report'.done = r.done /\ report'.failed = r.failed /\ report'.ctx = r.ctx
      BY <2>1
  <2>4. ASSUME status = "complete", NEW c \in r.due
        PROVE  \/ /\ c \in r.done
                  /\ r.kind \notin {"recalc", "holdings"} => Newest(stored[c]) >= r.base[c]
               \/ c \in r.dropped
               \/ c \in r.failed /\ r.done # {} /\ (r.kind \in {"held", "holdings"} \/ r.via = "job")
               \/ r.kind = "stale" /\ r.via = "rest" /\ r.ctx = "cancelled"
    <3>1. c \in r.dropped \/ c \in r.todo \/ c \in r.done \/ c \in r.failed
        BY <2>1, <2>2, <2>4 DEF Accounted
    <3>2. ASSUME c \in r.done, r.kind # "recalc" PROVE Newest(stored[c]) >= r.base[c]
      <4>1. c \in Secs /\ Caught(r.base[c], stored[c])
          BY <2>2, <3>2 DEF Reaches, CRequests
      <4>2. stored[c] \in SUBSET (1..MaxDay) /\ r.base[c] \in Nat
          BY <2>2, <4>1 DEF CrawlShape, Dates, CRequests
      <4>3. Newest(stored[c]) \in Nat /\ \A d \in stored[c] : d \in Nat /\ d <= Newest(stored[c])
          BY <4>2, NewestIs, CrawlAssumption
      <4> HIDE DEF r
      <4>4. ASSUME NEW n \in Nat, Caught(n, stored[c]) PROVE Newest(stored[c]) >= n
        <5>1. CASE n = 0
            BY <4>3, <5>1
        <5>2. ASSUME NEW e \in stored[c], n <= e PROVE Newest(stored[c]) >= n
            BY <4>3, <5>2
        <5> QED
            BY <4>4, <5>1, <5>2 DEF Caught
      <4> QED
          BY <4>1, <4>2, <4>4
    <3>3. CASE r.kind = "stale"
      <4>1. StaleResult(r) = "complete"
          BY <2>4, <3>3 DEF status
      <4> QED
          BY <2>1, <2>2, <3>1, <3>2, <3>3, <4>1, StaleComplete
    <3>4. CASE r.kind = "recalc"
      <4>1. RecalcResult(r) = "complete"
          BY <2>4, <3>4 DEF status
      <4> QED
          BY <3>1, <3>4, <4>1, RecalcComplete
    <3>5. CASE r.kind = "single"
      <4>1. SingleResult(r) = "complete"
          BY <2>4, <3>5 DEF status
      <4>2. r.done # {}
          BY <4>1 DEF SingleResult, CtxError
      <4>3. c \in r.done
          BY <2>2, <2>4, <3>5, <4>2 DEF Accounted
      <4> QED
          BY <3>2, <3>5, <4>3
    <3>6. CASE r.kind \notin {"stale", "recalc", "single"}
      <4>1. RunResult(r) = "complete"
          BY <2>4, <3>6 DEF status
      <4>2. r.kind \in {"held", "holdings"}
          BY <2>2, <3>6 DEF CRequests, CKinds
      <4> QED
          BY <3>1, <3>2, <4>1, <4>2, RunComplete
    <3> QED
        BY <3>3, <3>4, <3>5, <3>6
  <2> QED
      BY <2>1, <2>3, <2>4 DEF CompleteHasCause
<1> QED
    BY <1>1, <1>2 DEF CrawlNext

-----------------------------------------------------------------------------
(* The theorems about crawls                                               *)

CrawlInv ==
    /\ CrawlShape /\ RequestInv /\ WorkInv /\ SeriesInv /\ RewriteInv /\ SliceInv
    /\ CompleteHasCause

LEMMA CrawlStart == CrawlInit => CrawlInv
<1> SUFFICES ASSUME CrawlInit PROVE CrawlInv
    OBVIOUS
<1>1. CrawlShape
  <2>1. work \in Works /\ pg \in BOOLEAN /\ gen \in Nat
      BY DEF CrawlInit
  <2>2. today \in Dates
      BY CrawlAssumption DEF CrawlInit, Dates
  <2>3. series \in [Secs -> SUBSET Dates] /\ stored \in [Secs -> SUBSET Dates]
      BY DEF CrawlInit
  <2>4. /\ disclosed \in [Secs -> {<<>>} \cup Disclosures] /\ slice \in [Secs -> SUBSET Tuples]
        /\ creq \in [CReqs -> {Unused} \cup CRequests]
      BY DEF CrawlInit
  <2> QED
      BY <2>1, <2>2, <2>3, <2>4 DEF CrawlShape
<1>2. \A q \in CReqs : creq[q] = Unused
    BY DEF CrawlInit
<1>3. RequestInv /\ RewriteInv
    BY <1>2 DEF RequestInv, RewriteInv, Unused
<1>4. WorkInv
    BY <1>2 DEF CrawlInit, WorkInv, Unused
<1>5. SeriesInv
    BY <1>2 DEF CrawlInit, SeriesInv, Older, Unused
<1>6. SliceInv
    BY DEF CrawlInit, SliceInv, OneAnswer
<1>7. CompleteHasCause
    BY DEF CrawlInit, CompleteHasCause, NoReport
<1> QED
    BY <1>1, <1>3, <1>4, <1>5, <1>6, <1>7 DEF CrawlInv

LEMMA CrawlInductive == CrawlInv /\ [CrawlNext]_crawlVars => CrawlInv'
<1> SUFFICES ASSUME CrawlInv, [CrawlNext]_crawlVars PROVE CrawlInv'
    OBVIOUS
<1>1. CASE CrawlNext
    BY <1>1, CrawlShapeStep, RequestInvStep, WorkInvStep, SeriesInvStep, RewriteInvStep,
       SliceInvStep, CompleteStep DEF CrawlInv
<1>2. CASE UNCHANGED crawlVars
  <2>1. CrawlShape' /\ WorkInv' /\ SliceInv' /\ RewriteInv'
      BY <1>2 DEF crawlVars, CrawlInv, CrawlShape, WorkInv, SliceInv, RewriteInv
  <2>2. RequestInv'
    <3>1. \A v : Kinds(v)' = Kinds(v)
        BY <1>2, KindsStay DEF crawlVars
    <3> QED
        BY <1>2, <3>1 DEF crawlVars, CrawlInv, RequestInv
  <2>3. SeriesInv'
      BY <1>2 DEF crawlVars, CrawlInv, SeriesInv
  <2>4. CompleteHasCause'
      BY <1>2 DEF crawlVars, CrawlInv, CompleteHasCause
  <2> QED
      BY <2>1, <2>2, <2>3, <2>4 DEF CrawlInv
<1> QED
    BY <1>1, <1>2

\* Every variable has its type; a request accounts for every code it has to
\* cover (RunCodeBatch), and nothing is stored that was never published.
THEOREM CrawlTypeCorrect == CrawlSpec => []CrawlTypeOK
<1>1. ASSUME CrawlInv PROVE CrawlTypeOK
  <2>1. /\ pg \in BOOLEAN /\ today \in 1..MaxDay
        /\ series \in [Secs -> SUBSET (1..MaxDay)] /\ stored \in [Secs -> SUBSET (1..MaxDay)]
        /\ \A c \in Secs : stored[c] \subseteq series[c]
      BY <1>1 DEF CrawlInv, CrawlShape, SeriesInv, Dates
  <2>2. slice \in [Secs -> SUBSET [stock : Stocks, val : Nat, gen : 1..gen]]
    <3>1. ASSUME NEW c \in Secs, NEW t \in slice[c]
          PROVE  t \in [stock : Stocks, val : Nat, gen : 1..gen]
      <4>1. t \in Tuples /\ 1 <= t.gen /\ t.gen <= gen /\ gen \in Nat
          BY <1>1, <3>1 DEF CrawlInv, CrawlShape, SliceInv
      <4> QED
          BY <4>1 DEF Tuples
    <3>2. slice = [c \in Secs |-> slice[c]]
        BY <1>1 DEF CrawlInv, CrawlShape
    <3> QED
        BY <3>1, <3>2
  <2>3. ASSUME NEW q \in CReqs, creq[q] # Unused
        PROVE  /\ creq[q].due \subseteq Secs
               /\ creq[q].due = creq[q].dropped \cup creq[q].todo \cup creq[q].done
                                \cup creq[q].failed \cup ({creq[q].code} \ {"none"})
    <3>1. creq[q] \in CRequests /\ Accounted(creq[q])
        BY <1>1, <2>3 DEF CrawlInv, CrawlShape, RequestInv
    <3> QED
        BY <3>1 DEF CRequests, Accounted
  <2> QED
      BY <2>1, <2>2, <2>3 DEF CrawlTypeOK
<1> QED
    BY <1>1, CrawlStart, CrawlInductive, PTL DEF CrawlSpec

\* Whoever is told "complete" has every code the request had to cover, with
\* a series that reaches as far as the upstream's did when it came in, but for
\* the causes named (RunCodeBatch, refreshRunResult, navCrawlHandler).
THEOREM CompletionAlwaysHasCause == CrawlSpec => []CompleteHasCause
<1>1. CrawlInv => CompleteHasCause
    BY DEF CrawlInv
<1> QED
    BY <1>1, CrawlStart, CrawlInductive, PTL DEF CrawlSpec

\* Stored series have no holes and stored disclosures are those of one
\* answer, but for the causes named, however crawls overlap, fail or are cut
\* short (upsertNavHistory, upsertFundHoldings).
THEOREM AlwaysStoredAsAnswered == CrawlSpec => []StoredAsAnswered
<1>1. ASSUME CrawlInv PROVE HoleHasCause
  <2>1. ASSUME NEW c \in Secs, NEW d \in series[c] \ stored[c], stored[c] # {}, d < Max(stored[c])
        PROVE  <<c, d>> \in late \cup cut
    <3>1. stored[c] \in SUBSET (1..MaxDay)
        BY <1>1 DEF CrawlInv, CrawlShape, Dates
    <3>2. Max(stored[c]) \in stored[c]
        BY <2>1, <3>1, NewestIs DEF Newest
    <3> QED
        BY <1>1, <2>1, <3>2 DEF CrawlInv, SeriesInv, Older
  <2> QED
      BY <2>1 DEF HoleHasCause
<1>2. ASSUME CrawlInv PROVE MixHasCause
  <2>1. ASSUME NEW c \in Secs, slice[c] # {}, OneAnswer(slice[c])
        PROVE  \E answer \in Disclosures :
                  /\ RowsOfSlice(slice[c]) = StoredRows(answer)
                  /\ Cardinality({r.gen : r \in slice[c]}) = 1
    <3>1. PICK answer \in Disclosures, g \in Nat :
              slice[c] = {[stock |-> n.stock, val |-> n.val, gen |-> g] : n \in StoredRows(answer)}
        BY <2>1 DEF OneAnswer
    <3>2. \A n \in StoredRows(answer) : n = [stock |-> n.stock, val |-> n.val]
        BY DEF StoredRows
    <3>3. RowsOfSlice(slice[c]) = StoredRows(answer)
      <4>1. ASSUME NEW n \in StoredRows(answer) PROVE n \in RowsOfSlice(slice[c])
        <5>1. [stock |-> n.stock, val |-> n.val, gen |-> g] \in slice[c]
            BY <3>1
        <5> QED
            BY <3>2, <5>1 DEF RowsOfSlice
      <4>2. ASSUME NEW m \in RowsOfSlice(slice[c]) PROVE m \in StoredRows(answer)
        <5>1. PICK t \in slice[c] : m = [stock |-> t.stock, val |-> t.val]
            BY DEF RowsOfSlice
        <5>2. PICK n \in StoredRows(answer) : t = [stock |-> n.stock, val |-> n.val, gen |-> g]
            BY <3>1, <5>1
        <5>3. m = n
            BY <3>2, <5>1, <5>2
        <5> QED
            BY <5>3
      <4> QED
          BY <4>1, <4>2
    <3>4. \A t \in slice[c] : t.gen = g
        BY <3>1
    <3>5. {r.gen : r \in slice[c]} = {g}
        BY <2>1, <3>4
    <3>6. Cardinality({g}) = 1
        BY FS_Singleton
    <3> QED
        BY <3>3, <3>5, <3>6
  <2>2. \A c \in Secs : OneAnswer(slice[c]) \/ (pg /\ c \in lapped)
      BY <1>2 DEF CrawlInv, SliceInv
  <2> QED
      BY <2>1, <2>2 DEF MixHasCause
<1>3. CrawlInv => StoredAsAnswered
    BY <1>1, <1>2 DEF StoredAsAnswered
<1> QED
    BY <1>3, CrawlStart, CrawlInductive, PTL DEF CrawlSpec

-----------------------------------------------------------------------------
(* The platform: its parts side by side                                    *)

\* Initially every part is in one of its initial states, in focus or not.
LEMMA PartsStart ==
    PlatformInit => OAuthInit /\ BootInit /\ MarketInit /\ CrawlInit /\ EdgeInit
BY DEF PlatformInit

\* A step of the platform is a step of the part in focus and a stutter of
\* every other part.
LEMMA PartsStep ==
    ASSUME [PlatformNext]_platformVars
    PROVE  /\ [OAuthNext]_oauthVars /\ [BootNext]_bootVars /\ [MarketNext]_marketVars
           /\ [CrawlNext]_crawlVars /\ [EdgeNext]_edgeVars
           /\ (focus = "series" /\ RunSeries) \/ UNCHANGED seriesVars
           /\ (focus = "reports" /\ ReportsNext) \/ UNCHANGED reportVars
           /\ focus' = focus
<1>1. CASE focus = "oauth" /\ OAuthNext
           /\ UNCHANGED <<bootVars, marketVars, crawlVars, seriesVars, reportVars, edgeVars, focus>>
  BY <1>1
<1>2. CASE focus = "boot" /\ BootNext
           /\ UNCHANGED <<oauthVars, marketVars, crawlVars, seriesVars, reportVars, edgeVars, focus>>
  BY <1>2
<1>3. CASE focus = "market" /\ MarketNext
           /\ UNCHANGED <<oauthVars, bootVars, crawlVars, seriesVars, reportVars, edgeVars, focus>>
  BY <1>3
<1>4. CASE focus = "crawl" /\ CrawlNext
           /\ UNCHANGED <<oauthVars, bootVars, marketVars, seriesVars, reportVars, edgeVars, focus>>
  BY <1>4
<1>5. CASE focus = "series" /\ RunSeries
           /\ UNCHANGED <<oauthVars, bootVars, marketVars, crawlVars, reportVars, edgeVars, focus>>
  BY <1>5
<1>6. CASE focus = "reports" /\ ReportsNext
           /\ UNCHANGED <<oauthVars, bootVars, marketVars, crawlVars, seriesVars, edgeVars, focus>>
  BY <1>6
<1>7. CASE focus = "edge" /\ EdgeNext
           /\ UNCHANGED <<oauthVars, bootVars, marketVars, crawlVars, seriesVars, reportVars, focus>>
  BY <1>7
<1>8. CASE UNCHANGED platformVars
  BY <1>8 DEF platformVars
<1>. QED
  BY <1>1, <1>2, <1>3, <1>4, <1>5, <1>6, <1>7, <1>8 DEF PlatformNext

\* A behaviour of the platform is, seen from any of the parts whose theorems
\* are above, a behaviour of that part.
THEOREM PlatformRunsItsParts ==
    PlatformSpec => OAuthSpec /\ BootSpec /\ MarketSpec /\ CrawlSpec /\ EdgeSpec
<1>1. [PlatformNext]_platformVars =>
          /\ [OAuthNext]_oauthVars /\ [BootNext]_bootVars /\ [MarketNext]_marketVars
          /\ [CrawlNext]_crawlVars /\ [EdgeNext]_edgeVars
  BY PartsStep
<1>. QED
  BY <1>1, PartsStart, PTL
  DEF PlatformSpec, OAuthSpec, BootSpec, MarketSpec, CrawlSpec, EdgeSpec

-----------------------------------------------------------------------------
(* The platform: types of all parts                                        *)

\* The part in focus is one of the seven; a computation is one of those
\* studied and a report reads tables of their types.
FocusShape ==
    /\ focus \in Parts
    /\ focus = "series" => SeriesTypeOK
    /\ focus = "reports" => ReportsTypeOK

LEMMA FocusStart == PlatformInit => FocusShape
<1>. SUFFICES ASSUME PlatformInit PROVE FocusShape
  OBVIOUS
<1>1. focus \in Parts
  BY DEF PlatformInit
<1>2. ASSUME focus = "series" PROVE SeriesTypeOK
  <2>1. SeriesInit
    BY <1>2 DEF PlatformInit
  <2>. QED
    BY <2>1 DEF SeriesInit, SeriesTypeOK, Pending
<1>3. ASSUME focus = "reports" PROVE ReportsTypeOK
  <2>1. ReportsInit
    BY <1>3 DEF PlatformInit
  <2>2. detail \in [RFunds -> Details]
    <3>1. CASE rkind = "summary"
      BY <2>1, <3>1, ReportsAssumption DEF ReportsInit
    <3>2. CASE rkind # "summary"
      BY <2>1, <3>2 DEF ReportsInit
    <3>. QED
      BY <3>1, <3>2
  <2>3. holding \in [RFunds -> SUBSET DisclosedRows] /\ sectorMap \in SectorMaps
    <3>1. \A h \in HoldingSets : h \in SUBSET DisclosedRows
      BY DEF DisclosedRows
    <3>2. holding \in [RFunds -> HoldingSets] /\ sectorMap \in SectorMaps
      <4>1. CASE rkind = "penetration"
        BY <2>1, <4>1 DEF ReportsInit
      <4>2. CASE rkind # "penetration"
        BY <2>1, <4>2, ReportsAssumption DEF ReportsInit
      <4>. QED
        BY <4>1, <4>2
    <3>. QED
      BY <3>1, <3>2
  <2>4. trades \subseteq TradeRows
    BY <2>1 DEF ReportsInit
  <2>. QED
    BY <2>1, <2>2, <2>3, <2>4, ReportsAssumption DEF ReportsInit, ReportsTypeOK
<1>. QED
  BY <1>1, <1>2, <1>3 DEF FocusShape

\* A query changes no table; a write changes one, to a content it may have.
LEMMA ReportsTypeStep ==
    ASSUME ReportsTypeOK, ReportsNext
    PROVE  ReportsTypeOK'
<1>. USE ReportsAssumption
<1>1. ASSUME NEW table \in {"position", "detail", "holding", "trade"}, Commit(table)
      PROVE  /\ rwrites' \in 0..MaxWrites /\ rkind' = rkind
             /\ written' \subseteq {"position", "detail", "holding", "trade"}
  BY <1>1 DEF Commit, ReportsTypeOK
<1>2. CASE SnapshotRebuilt
  <2>1. position' \in [RFunds -> Positions]
    BY <1>2 DEF SnapshotRebuilt, ReportsTypeOK
  <2>. QED
    BY <1>1, <1>2, <2>1 DEF SnapshotRebuilt, ReportsTypeOK
<1>3. CASE SecurityEdited
  <2>1. detail' \in [RFunds -> Details]
    BY <1>3 DEF SecurityEdited, ReportsTypeOK
  <2>. QED
    BY <1>1, <1>3, <2>1 DEF SecurityEdited, ReportsTypeOK
<1>4. CASE HoldingsRewritten
  <2>1. PICK f \in RFunds, g \in Answers, h \in Answers :
            holding' = [holding EXCEPT ![f] =
                           Upserted(Upserted(WithoutDates(WithoutDates(@, g), h), g), h)]
    BY <1>4 DEF HoldingsRewritten
  <2>2. g \subseteq DisclosedRows /\ h \subseteq DisclosedRows
    BY DEF DisclosedRows
  <2>3. holding[f] \subseteq DisclosedRows /\ holding \in [RFunds -> SUBSET DisclosedRows]
    BY DEF ReportsTypeOK
  <2>4. Upserted(Upserted(WithoutDates(WithoutDates(holding[f], g), h), g), h) \subseteq DisclosedRows
    BY <2>2, <2>3 DEF Upserted, WithoutDates
  <2>5. holding' \in [RFunds -> SUBSET DisclosedRows]
    BY <2>1, <2>3, <2>4
  <2>. QED
    BY <1>1, <1>4, <2>5 DEF HoldingsRewritten, ReportsTypeOK
<1>5. CASE TradeAdded
  BY <1>1, <1>5 DEF TradeAdded, ReportsTypeOK
<1>6. ASSUME UNCHANGED <<rkind, tables, rwrites, written>> PROVE ReportsTypeOK'
  BY <1>6 DEF tables, ReportsTypeOK
<1>7. CASE \/ AllocationTotal \/ AllocationByType \/ AllocationByMarket \/ AllocationByFundType
           \/ AllocationFlags
  BY <1>6, <1>7 DEF Query, AllocationTotal, AllocationByType, AllocationByMarket,
                    AllocationByFundType, AllocationFlags
<1>8. CASE \/ SummaryTrades \/ SummaryCounts \/ SummaryContributors \/ SummarySettlement
           \/ SummaryKinds \/ SummaryBalances
  BY <1>6, <1>8 DEF Query, SummaryTrades, SummaryCounts, SummaryContributors,
                    SummarySettlement, SummaryKinds, SummaryBalances
<1>9. CASE PenetrationFunds \/ PenetrationHoldings \/ PenetrationSectors \/ PenetrationBuild
  BY <1>6, <1>9 DEF Query, PenetrationFunds, PenetrationHoldings, PenetrationSectors,
                    PenetrationBuild
<1>. QED
  BY <1>2, <1>3, <1>4, <1>5, <1>7, <1>8, <1>9 DEF ReportsNext

LEMMA FocusStep ==
    ASSUME FocusShape, [PlatformNext]_platformVars
    PROVE  FocusShape'
<1>1. focus' \in Parts /\ focus' = focus
  BY PartsStep DEF FocusShape
<1>2. ASSUME focus' = "series" PROVE SeriesTypeOK'
  <2>1. SeriesTypeOK
    BY <1>1, <1>2 DEF FocusShape
  <2>2. CASE UNCHANGED seriesVars
    BY <2>1, <2>2 DEF SeriesTypeOK, seriesVars
  <2>3. CASE RunSeries
    <3>1. job' = job /\ output'.done = TRUE
      BY <2>3 DEF RunSeries
    <3>. QED
      BY <2>1, <3>1 DEF SeriesTypeOK
  <2>. QED
    BY <2>2, <2>3, PartsStep
<1>3. ASSUME focus' = "reports" PROVE ReportsTypeOK'
  <2>1. ReportsTypeOK
    BY <1>1, <1>3 DEF FocusShape
  <2>2. CASE UNCHANGED reportVars
    BY <2>1, <2>2 DEF ReportsTypeOK, reportVars
  <2>. QED
    BY <2>1, <2>2, ReportsTypeStep, PartsStep
<1>. QED
  BY <1>1, <1>2, <1>3 DEF FocusShape

\* Whatever part is in focus, its requests, rows, caches and reports have
\* their types, for any number of requests, funds, symbols and any bounds.
THEOREM PlatformTypeCorrect == PlatformSpec => []PlatformTypeOK
<1>1. EdgeInit => EdgeInv
  BY EdgeInitially
<1>2. EdgeInv /\ [EdgeNext]_edgeVars => EdgeInv'
  BY EdgeStep
<1>3. EdgeSpec => []EdgeTypeOK
  <2>1. EdgeInv => EdgeTypeOK
    BY DEF EdgeInv
  <2>. QED
    BY <1>1, <1>2, <2>1, PTL DEF EdgeSpec
<1>4. FocusShape /\ [PlatformNext]_platformVars => FocusShape'
  BY FocusStep
<1>5. PlatformSpec => []FocusShape
  BY <1>4, FocusStart, PTL DEF PlatformSpec
<1>6. /\ FocusShape /\ OAuthTypeOK /\ BootTypeOK /\ MarketTypeOK /\ CrawlTypeOK /\ EdgeTypeOK
      => PlatformTypeOK
  BY PlatformAssumption DEF FocusShape, PlatformTypeOK
<1>. QED
  BY <1>3, <1>5, <1>6, PlatformRunsItsParts, OAuthTypeCorrect, BootTypeCorrect,
     MarketTypeCorrect, CrawlTypeCorrect, PTL

\* Neither the market data caches nor the cache of client metadata documents
\* answers with data older than its lifetime and what a fetch takes, or grows
\* past its cap (yahoo.go, history.go, client metadata).
THEOREM CachesAlwaysRecent == PlatformSpec => []CachesAreRecent
<1>1. CachedDataIsRecent /\ DocCacheBounded => CachesAreRecent
  BY DEF CachesAreRecent
<1>. QED
  BY <1>1, PlatformRunsItsParts, CachedDataAlwaysRecent, DocCacheAlwaysBounded, PTL
=============================================================================
