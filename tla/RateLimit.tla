----------------------------- MODULE RateLimit -----------------------------
(***************************************************************************)
(* The token bucket that every post passes first (src/src/ratelimit.rs).   *)
(*                                                                         *)
(* Tokens and time are counted in units that make the code's constants     *)
(* whole numbers: with a clock in seconds and tokens in halves, CAPACITY   *)
(* is 30, REFILL_PER_SEC 1 and a post costs 2.  The rounding of f64 is     *)
(* left out.  The limiter has a Mutex of its own, so a check is one step.  *)
(***************************************************************************)
EXTENDS Integers

CONSTANTS
    Peers,      \* mesh addresses
    Capacity,   \* CAPACITY
    Refill,     \* REFILL_PER_SEC
    Cost,       \* what one post spends
    NoBucket,   \* the peer has no entry in the map
    MaxClock,   \* bound: the clock
    MaxRestarts \* bound: restarts of the process

ASSUME RateAssumption  == Capacity \in Nat /\ Refill \in Nat /\ Cost \in Nat
ASSUME BurstAssumption == Cost <= Capacity
ASSUME NoBucketAssumption == NoBucket \notin [tokens : Nat, last : Nat]
ASSUME LimitBounds     == MaxClock \in Nat /\ MaxRestarts \in Nat

VARIABLES
    bucket,     \* RateLimiter.buckets
    clock,      \* Instant::now()
    restarts,
    mark,       \* history: when the window in which p is watched was opened
    granted,    \* history: posts granted to p in that window
    since       \* history: when p was last granted a post

watch == <<mark, granted, since>>
vars  == <<bucket, clock, restarts, watch>>

Bucket == [tokens : Nat, last : Nat]

Smaller(x, y) == IF x <= y THEN x ELSE y

AvailUncapped(p) ==                                  \* bug: no .min(CAPACITY)
    IF bucket[p] = NoBucket
    THEN Capacity
    ELSE bucket[p].tokens + Refill * (clock - bucket[p].last)

\* The tokens a check of p's finds, after its lazy refill.
Avail(p) ==
    IF bucket[p] = NoBucket
    THEN Capacity
    ELSE Smaller(bucket[p].tokens + Refill * (clock - bucket[p].last), Capacity)

SpentWhole(p, cost) ==                               \* bug: keeps whole tokens only
    [bucket EXCEPT ![p] = [tokens |-> Cost * ((Avail(p) - cost) \div Cost), last |-> clock]]

\* The bucket after a check that spends cost: the refill so far is kept.
Spent(p, cost) == [bucket EXCEPT ![p] = [tokens |-> Avail(p) - cost, last |-> clock]]

EnoughLeft(p) == Avail(p) > 0                        \* bug: any fraction of a token will do
Enough(p) == Avail(p) >= Cost

Init ==
    /\ bucket = [p \in Peers |-> NoBucket]
    /\ clock = 0
    /\ restarts = 0
    /\ mark = [p \in Peers |-> 0]
    /\ granted = [p \in Peers |-> 0]
    /\ since = [p \in Peers |-> 0]

Grant(p) ==
    /\ Enough(p)
    /\ bucket' = Spent(p, Cost)
    /\ granted' = [granted EXCEPT ![p] = @ + 1]
    /\ since' = [since EXCEPT ![p] = clock]
    /\ UNCHANGED <<clock, restarts, mark>>

\* 429: nothing is spent, and the refill so far is kept.
Deny(p) ==
    /\ ~Enough(p)
    /\ bucket' = Spent(p, 0)
    /\ UNCHANGED <<clock, restarts, watch>>

Tick ==
    /\ clock < MaxClock
    /\ clock' = clock + 1
    /\ UNCHANGED <<bucket, restarts, watch>>

\* Nothing is persisted: after a restart every peer has its burst again.
Restart ==
    /\ restarts < MaxRestarts
    /\ restarts' = restarts + 1
    /\ bucket' = [p \in Peers |-> NoBucket]
    /\ mark' = [p \in Peers |-> clock]
    /\ granted' = [p \in Peers |-> 0]
    /\ UNCHANGED <<clock, since>>

\* History: any moment may be the start of the window.
OpenWindow(p) ==
    /\ mark' = [mark EXCEPT ![p] = clock]
    /\ granted' = [granted EXCEPT ![p] = 0]
    /\ UNCHANGED <<bucket, clock, restarts, since>>

Next ==
    \/ \E p \in Peers : Grant(p) \/ Deny(p) \/ OpenWindow(p)
    \/ Tick \/ Restart

Spec == Init /\ [][Next]_vars

-----------------------------------------------------------------------------
TypeOK ==
    /\ bucket \in [Peers -> Bucket \cup {NoBucket}]
    /\ clock \in Nat /\ restarts \in Nat
    /\ mark \in [Peers -> Nat] /\ granted \in [Peers -> Nat] /\ since \in [Peers -> Nat]
    /\ \A p \in Peers :
          /\ mark[p] <= clock /\ since[p] <= clock
          /\ bucket[p] # NoBucket => bucket[p].tokens <= Capacity /\ bucket[p].last <= clock

\* In any window of time, wherever it starts, a peer is granted no more than a
\* burst and what the window refills: the guard against a client in a retry
\* loop (ratelimit.rs:13-20).  Each run of the process has its own bursts.
RateBound ==
    \A p \in Peers : Cost * granted[p] <= Capacity + Refill * (clock - mark[p])

\* However often it was denied meanwhile, and whatever its neighbours do, a
\* peer whose last grant is as long ago as one post takes to refill is granted
\* its next: denials cost nothing.
NotStarved ==
    \A p \in Peers : Refill * (clock - since[p]) >= Cost => Enough(p)
=============================================================================
