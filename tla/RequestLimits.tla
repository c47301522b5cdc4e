--------------------------- MODULE RequestLimits ----------------------------
(***************************************************************************)
(* The reader's middleware (frontend/src/middleware.ts) and its token      *)
(* buckets (lib/ratelimit.ts). A browser asks for an address; an address   *)
(* with an empty moment in time is redirected to its clean form; the three *)
(* costly routes take a token of the caller's bucket or are shed.          *)
(*                                                                         *)
(* Time is in ticks. A bucket's tokens are measured in the ticks it takes  *)
(* to refill them, so a bucket gains one unit a tick and one request costs *)
(* Cost[l] units. Browsers without a known address share one key.          *)
(***************************************************************************)
EXTENDS Integers

CONSTANTS
    Browser, Key,
    KeyOf,          \* the bucket a browser's requests are counted in
    Url,            \* the addresses asked for
    Cost,           \* ticks that refill one token, for "preview" and "diff"
    Burst,          \* tokens of a full bucket
    Second,         \* ticks in a second, the unit of Retry-After
    SweepInterval,
    NoBucket, NoPromise, Answered,
    MaxClock        \* bound: the clock stops there

Limiter == {"preview", "diff"}

ASSUME LimitsAssumption ==
    /\ KeyOf \in [Browser -> Key]
    /\ Cost \in [Limiter -> Nat \ {0}] /\ Burst \in [Limiter -> Nat \ {0}]
    /\ Second \in Nat \ {0} /\ SweepInterval \in Nat /\ MaxClock \in Nat

Bucket == [tokens : Int, updated : Nat]

ASSUME NoBucketAssumption ==
    /\ NoBucket \notin Bucket
    /\ NoPromise \notin Nat
    /\ Answered \notin Url

VARIABLES
    clock,
    bucket,         \* the two tables of buckets
    swept,          \* when each table was last swept
    bar,            \* the address each browser is waiting for
    opened, spent,  \* observer: what was admitted since `opened`, in ticks
    promised        \* observer: when the last Retry-After of a key runs out

vars == <<clock, bucket, swept, bar, opened, spent, promised>>

-----------------------------------------------------------------------------
(* The middleware's two decisions about an address. An address has a method,
   a route, the moments it gives a value, and those it gives an empty one; a
   name that is repeated may be in both. *)

EMPTY_PARAMS == {"release", "date", "from", "to"}

Redirects(url) == url.method = "GET" /\ url.empty \cap EMPTY_PARAMS # {}

\* Mutant: the clean form keeps the parameter that was added last.
CanonicalUrlKeepingTo(url) == [url EXCEPT !.empty = @ \ {"release", "date", "from"}]

canonicalUrl(url) == [url EXCEPT !.empty = @ \ EMPTY_PARAMS]

LIMITED(url) ==
    CASE url.route = "preview" -> {"preview"}
      [] url.route = "diff" -> {"diff"}
      [] url.route = "versions" /\ "from" \in url.empty \cup url.given -> {"diff"}
      [] OTHER -> {}

-----------------------------------------------------------------------------
(* A bucket. *)

Smaller(a, b) == IF a < b THEN a ELSE b
Larger(a, b) == IF a < b THEN b ELSE a

Full(l) == Burst[l] * Cost[l]

\* What a bucket holds now; one that does not exist is created full.
Level(l, b) ==
    IF b = NoBucket THEN Full(l)
    ELSE Smaller(Full(l), b.tokens + (clock - b.updated))

\* Mutant: a bucket is forgotten when its burst, not its refill time, has passed.
SweepableByCount(l, b) == b # NoBucket /\ clock - b.updated >= Burst[l]

Sweepable(l, b) == b # NoBucket /\ clock - b.updated >= Full(l)

SweepDue(l) == clock - swept[l] > SweepInterval

AfterSweep(l, k) ==
    IF SweepDue(l) /\ Sweepable(l, bucket[l][k]) THEN NoBucket ELSE bucket[l][k]

\* Mutant: the header is rounded down.
RetryAfterFloor(missing) == Larger(1, missing \div Second)

\* Whole seconds until the token is there.
RetryAfter(missing) == Larger(1, (missing + Second - 1) \div Second)

-----------------------------------------------------------------------------

Init ==
    /\ clock = 0
    /\ bucket = [l \in Limiter |-> [k \in Key |-> NoBucket]]
    /\ swept = [l \in Limiter |-> 0]
    /\ bar = [b \in Browser |-> Answered]
    /\ opened = 0
    /\ spent = [l \in Limiter |-> [k \in Key |-> 0]]
    /\ promised = [l \in Limiter |-> [k \in Key |-> NoPromise]]

Navigate(b, url) ==
    /\ bar[b] = Answered
    /\ bar' = [bar EXCEPT ![b] = url]
    /\ UNCHANGED <<clock, bucket, swept, opened, spent, promised>>

\* 307, before any bucket is touched.
Redirect(b) ==
    /\ bar[b] # Answered /\ Redirects(bar[b])
    /\ bar' = [bar EXCEPT ![b] = canonicalUrl(@)]
    /\ UNCHANGED <<clock, bucket, swept, opened, spent, promised>>

ServeUnlimited(b) ==
    /\ bar[b] # Answered /\ ~Redirects(bar[b])
    /\ LIMITED(bar[b]) = {}
    /\ bar' = [bar EXCEPT ![b] = Answered]
    /\ UNCHANGED <<clock, bucket, swept, opened, spent, promised>>

\* `check` up to its decision: the sweep, and the caller's bucket brought up
\* to now, less what is taken.
Touch(l, k, taken) ==
    /\ swept' = [swept EXCEPT ![l] = IF SweepDue(l) THEN clock ELSE @]
    /\ bucket' = [bucket EXCEPT ![l] = [q \in Key |->
                     IF q = k
                     THEN [tokens |-> Level(l, AfterSweep(l, k)) - taken,
                           updated |-> clock]
                     ELSE AfterSweep(l, q)]]

Admit(b, l) ==
    LET k == KeyOf[b] IN
    /\ bar[b] # Answered /\ ~Redirects(bar[b]) /\ l \in LIMITED(bar[b])
    /\ Level(l, AfterSweep(l, k)) >= Cost[l]
    /\ Touch(l, k, Cost[l])
    /\ bar' = [bar EXCEPT ![b] = Answered]
    /\ spent' = [spent EXCEPT ![l][k] = @ + Cost[l]]
    /\ promised' = [promised EXCEPT ![l][k] = NoPromise]
    /\ UNCHANGED <<clock, opened>>

\* Mutant: the token is taken before it is known to be there.
ShedCharging(b, l) ==
    LET k == KeyOf[b] IN
    /\ bar[b] # Answered /\ ~Redirects(bar[b]) /\ l \in LIMITED(bar[b])
    /\ Level(l, AfterSweep(l, k)) < Cost[l]
    /\ Touch(l, k, Cost[l])
    /\ bar' = [bar EXCEPT ![b] = Answered]
    /\ UNCHANGED <<clock, opened, spent, promised>>

Shed(b, l) ==
    LET k == KeyOf[b]
        level == Level(l, AfterSweep(l, k)) IN
    /\ bar[b] # Answered /\ ~Redirects(bar[b]) /\ l \in LIMITED(bar[b])
    /\ level < Cost[l]
    /\ Touch(l, k, 0)
    /\ bar' = [bar EXCEPT ![b] = Answered]
    /\ promised' = [promised EXCEPT ![l][k] =
                       IF @ = NoPromise
                       THEN clock + Second * RetryAfter(Cost[l] - level) ELSE @]
    /\ UNCHANGED <<clock, opened, spent>>

Tick ==
    /\ clock < MaxClock
    /\ clock' = clock + 1
    /\ UNCHANGED <<bucket, swept, bar, opened, spent, promised>>

\* The observer begins to count anew, once, at any moment.
OpenWindow ==
    /\ opened = 0 /\ clock > 0
    /\ opened' = clock
    /\ spent' = [l \in Limiter |-> [k \in Key |-> 0]]
    /\ UNCHANGED <<clock, bucket, swept, bar, promised>>

OnRequest(b) ==
    \/ Redirect(b)
    \/ ServeUnlimited(b)
    \/ \E l \in Limiter : Admit(b, l) \/ Shed(b, l)

Next ==
    \/ \E b \in Browser, url \in Url : Navigate(b, url)
    \/ \E b \in Browser : OnRequest(b)
    \/ Tick
    \/ OpenWindow

\* A request that has arrived is handled.
Spec == Init /\ [][Next]_vars /\ \A b \in Browser : WF_vars(OnRequest(b))

-----------------------------------------------------------------------------

\* The types of the tables; no bucket holds more than a burst, and none is
\* overdrawn.
LimitsTypeOK ==
    /\ clock \in Nat /\ opened \in 0..clock
    /\ swept \in [Limiter -> 0..clock]
    /\ bucket \in [Limiter -> [Key -> Bucket \cup {NoBucket}]]
    /\ spent \in [Limiter -> [Key -> Nat]]
    /\ promised \in [Limiter -> [Key -> Nat \cup {NoPromise}]]
    /\ \A l \in Limiter, k \in Key :
          bucket[l][k] # NoBucket =>
             /\ bucket[l][k].tokens \in 0..Full(l)
             /\ bucket[l][k].updated <= clock

\* The budget (ratelimit.ts:41-83): in any window, however long, a caller is
\* admitted at most a burst and what refills in the window. The sweep may forget
\* a bucket only because "a full bucket is indistinguishable from one that never
\* existed".
WithinBudget ==
    \A l \in Limiter, k \in Key : spent[l][k] <= Full(l) + (clock - opened)

\* A caller that obeys `Retry-After` "comes back able to spend rather than to a
\* second 429" (ratelimit.ts:64-66): once the time named by a refusal has come,
\* and nothing of that caller was admitted since, there is a token, however often
\* it asked too early and whatever was swept.
PromiseKept ==
    \A l \in Limiter, k \in Key :
        promised[l][k] # NoPromise /\ promised[l][k] <= clock
            => Level(l, bucket[l][k]) >= Cost[l]

\* Every request is answered: the redirect to the clean address
\* (middleware.ts:98-117) is not redirected again.
EveryRequestAnswered ==
    \A b \in Browser : bar[b] # Answered ~> bar[b] = Answered

=============================================================================
