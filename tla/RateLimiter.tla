---------------------------- MODULE RateLimiter -----------------------------
(***************************************************************************)
(* The Redis rate limiter of message creation and gateway subscriptions    *)
(* for one key: RateLimiter::allow (service.rs) under allow_rate_limit     *)
(* (app_state.rs).  INCR and EXPIRE are two commands; only the request     *)
(* that finds the counter at 1 sends the second one.                       *)
(*                                                                         *)
(* The time is kept as ages, so the model never runs out of it.  An action *)
(* is granted when Redis counts it.  Counts above the limit are all alike: *)
(* the counter stops at limit + 1.                                         *)
(***************************************************************************)
EXTENDS Naturals, FiniteSets

CONSTANTS
    limit,
    window_secs,
    Requests,   \* requests with this key in flight at the same time
    MaxFaults   \* bound: commands that fail or are never sent

ASSUME RateLimiterAssumption ==
    /\ limit \in Nat \ {0}
    /\ window_secs \in Nat \ {0}
    /\ MaxFaults \in Nat

VARIABLES
    count,       \* value of the key, 0 when it does not exist
    counter_ttl, \* seconds the key has left, 0 when no expiry is set
    stage,       \* request -> idle, incr or expire
    outcome,     \* request -> what its last check answered
    granted,     \* history: actions granted in the last window_secs seconds
    faults,      \* faults so far
    lost,        \* history: an INCR that created the key had no EXPIRE after it
    late         \* history: the key outlived a second without an expiry

limiterVars == <<count, counter_ttl, stage, outcome, granted, faults, lost, late>>

Ages == 0 .. window_secs - 1

\* A grant is known by its key, the number of keys of this name that have
\* expired since, and by the value INCR returned; no two share both.
Grants == [key : Nat, n : 1 .. limit, age : Ages]

\* INCR returned n for the key there is now.
Grant(n) == [key |-> 0, n |-> n, age |-> 0]

\* A second later, when so many keys have expired.
Aged(expired) ==
    {[key |-> g.key + expired, n |-> g.n, age |-> g.age + 1] :
        g \in {h \in granted : h.age + 1 \in Ages}}

(***************************************************************************)
(* Type invariant of the key, of the requests and of the history.          *)
(***************************************************************************)
LimiterTypeOK ==
    /\ count \in 0 .. limit + 1
    /\ counter_ttl \in 0 .. window_secs
    /\ stage \in [Requests -> {"idle", "incr", "expire"}]
    /\ outcome \in [Requests -> {"none", "open", "allowed", "denied"}]
    /\ granted \subseteq Grants
    /\ faults \in 0 .. MaxFaults
    /\ lost \in BOOLEAN
    /\ late \in BOOLEAN

LimiterInit ==
    /\ count = 0
    /\ counter_ttl = 0
    /\ stage = [r \in Requests |-> "idle"]
    /\ outcome = [r \in Requests |-> "none"]
    /\ granted = {}
    /\ faults = 0
    /\ lost = FALSE
    /\ late = FALSE

Answer(r, o) ==
    /\ stage' = [stage EXCEPT ![r] = "idle"]
    /\ outcome' = [outcome EXCEPT ![r] = o]

\* A request takes a connection.
Connect(r) ==
    /\ stage[r] = "idle"
    /\ stage' = [stage EXCEPT ![r] = "incr"]
    /\ UNCHANGED <<count, counter_ttl, outcome, granted, faults, lost, late>>

\* No connection, or INCR failed before Redis applied it: the request is
\* allowed.
FailOpen(r) ==
    /\ stage[r] \in {"idle", "incr"}
    /\ faults < MaxFaults
    /\ faults' = faults + 1
    /\ Answer(r, "open")
    /\ UNCHANGED <<count, counter_ttl, granted, lost, late>>

\* Mutant: the count before INCR is compared.
MutIncr(r) ==
    LET n == IF count > limit THEN count ELSE count + 1
    IN  /\ stage[r] = "incr"
        /\ count' = n
        /\ granted' = IF count <= limit THEN granted \cup {Grant(n)} ELSE granted
        /\ IF n = 1
           THEN stage' = [stage EXCEPT ![r] = "expire"] /\ UNCHANGED outcome
           ELSE Answer(r, IF count <= limit THEN "allowed" ELSE "denied")
        /\ UNCHANGED <<counter_ttl, faults, lost, late>>

\* Mutant: every count renews the expiry.
MutIncrRenews(r) ==
    LET n == IF count > limit THEN count ELSE count + 1
    IN  /\ stage[r] = "incr"
        /\ count' = n
        /\ counter_ttl' = IF n = 1 THEN 0 ELSE window_secs
        /\ granted' = IF n <= limit THEN granted \cup {Grant(n)} ELSE granted
        /\ IF n = 1
           THEN stage' = [stage EXCEPT ![r] = "expire"] /\ UNCHANGED outcome
           ELSE Answer(r, IF n <= limit THEN "allowed" ELSE "denied")
        /\ UNCHANGED <<faults, lost, late>>

\* INCR; the first count goes on to EXPIRE, the others answer count <= limit.
Incr(r) ==
    LET n == IF count > limit THEN count ELSE count + 1
    IN  /\ stage[r] = "incr"
        /\ count' = n
        /\ granted' = IF n <= limit THEN granted \cup {Grant(n)} ELSE granted
        /\ IF n = 1
           THEN stage' = [stage EXCEPT ![r] = "expire"] /\ UNCHANGED outcome
           ELSE Answer(r, IF n <= limit THEN "allowed" ELSE "denied")
        /\ UNCHANGED <<counter_ttl, faults, lost, late>>

\* Redis applies INCR but its reply is lost: the request is allowed, and
\* nobody sets the expiry of a key it created.
ReplyLost(r) ==
    LET n == IF count > limit THEN count ELSE count + 1
    IN  /\ stage[r] = "incr"
        /\ faults < MaxFaults
        /\ faults' = faults + 1
        /\ count' = n
        /\ granted' = IF n <= limit THEN granted \cup {Grant(n)} ELSE granted
        /\ lost' = (lost \/ n = 1)
        /\ Answer(r, "open")
        /\ UNCHANGED <<counter_ttl, late>>

\* EXPIRE, then 1 <= limit.
Expire(r) ==
    /\ stage[r] = "expire"
    /\ counter_ttl' = window_secs
    /\ Answer(r, "allowed")
    /\ UNCHANGED <<count, granted, faults, lost, late>>

\* EXPIRE fails and is logged, or the handler is dropped before sending it.
ExpireFails(r) ==
    /\ stage[r] = "expire"
    /\ faults < MaxFaults
    /\ faults' = faults + 1
    /\ lost' = TRUE
    /\ Answer(r, "allowed")
    /\ UNCHANGED <<count, counter_ttl, granted, late>>

\* Mutant: the key outlives its expiry.
MutSecond ==
    /\ counter_ttl' = IF counter_ttl = 0 THEN 0 ELSE counter_ttl - 1
    /\ granted' = Aged(0)
    /\ late' = (count > 0 /\ (late \/ counter_ttl = 0))
    /\ UNCHANGED <<count, stage, outcome, faults, lost>>

\* A second passes; Redis deletes the key when its time is over.
Second ==
    /\ counter_ttl' = IF counter_ttl = 0 THEN 0 ELSE counter_ttl - 1
    /\ count' = IF counter_ttl = 1 THEN 0 ELSE count
    /\ granted' = Aged(IF counter_ttl = 1 THEN 1 ELSE 0)
    /\ late' = (count' > 0 /\ (late \/ counter_ttl = 0))
    /\ UNCHANGED <<stage, outcome, faults, lost>>

LimiterNext ==
    \/ \E r \in Requests : Connect(r)
    \/ \E r \in Requests : FailOpen(r)
    \/ \E r \in Requests : Incr(r)
    \/ \E r \in Requests : ReplyLost(r)
    \/ \E r \in Requests : Expire(r)
    \/ \E r \in Requests : ExpireFails(r)
    \/ Second

LimiterSpec == LimiterInit /\ [][LimiterNext]_limiterVars

(***************************************************************************)
(* Time passes, a request that started finishes, and the client asks       *)
(* again.                                                                  *)
(***************************************************************************)
LimiterFairSpec ==
    /\ LimiterSpec
    /\ WF_limiterVars(Second)
    /\ \A r \in Requests :
           /\ WF_limiterVars(Connect(r))
           /\ WF_limiterVars(Incr(r))
           /\ WF_limiterVars(Expire(r))

-----------------------------------------------------------------------------
(***************************************************************************)
(* Properties.                                                             *)
(***************************************************************************)

\* Actions Redis granted in the last window_secs seconds.
InWindow == Cardinality(granted)

(***************************************************************************)
(* The counter is reset once per fixed window, so the last window_secs     *)
(* seconds span two of them at most: never more than twice the limit is    *)
(* granted, however late an EXPIRE follows its INCR.                       *)
(***************************************************************************)
AtMostTwice == InWindow <= 2 * limit

(***************************************************************************)
(* "Max action count allowed in window": a client is denied only for its   *)
(* own use of the last window_secs seconds.  The limit must have been      *)
(* granted within them, although counts of the whole key are compared and  *)
(* denied actions count as well.  The exception is a key that lived a      *)
(* second before its EXPIRE: its window ends that much later.              *)
(***************************************************************************)
DeniedForRecentUse == count >= limit /\ ~late => InWindow >= limit

(***************************************************************************)
(* "Max action count allowed in window": once a window is over its actions *)
(* no longer count, so a client that keeps asking is allowed again and     *)
(* again.  The one thing that ends it is an EXPIRE that was lost, or never *)
(* sent, after its INCR: nobody sends it again, and the counter stays.     *)
(***************************************************************************)
AllowedAgain ==
    []<>(\E r \in Requests : outcome[r] = "allowed") \/ <>lost
=============================================================================
