---------------------------- MODULE Entitlements ----------------------------
(* EntitlementService and CurrentSubscriptionService, for one workspace and  *)
(* one resource: callers that ask assertCanConsume and then use what they    *)
(* were granted, while time passes, the subscription ends and the backfill   *)
(* of a server that starts gives the workspace another one.                  *)
(*                                                                           *)
(* A check reads the subscription and the usage in two statements, and only  *)
(* a caller that runs it under SERIALIZABLE is spared what comes between     *)
(* (WorkspaceMembers models that one).  AI_REQUESTS and AI_TOKENS are        *)
(* metered, by the events of the period; AD_ACCOUNTS counts what is there.   *)
EXTENDS Integers, FiniteSets, FiniteSetsExt, Functions

CONSTANTS Callers,
          Limits,        \* limit_value of each plan; one is the plan's name
          Starter,       \* that of the plan the backfill gives
          Unlimited,     \* null
          NotConfigured, \* no entitlement row
          Month,         \* length of a period; the calendar makes it 28 to 31 days
          MaxTime,       \* bound of the clock
          MaxRequest,    \* bound of a requested quantity
          MaxUsed        \* bound of what is used at once of an unlimited resource

ASSUME TimeAssumption == Month \in Nat \ {0} /\ MaxTime \in Nat
ASSUME RequestAssumption == MaxRequest \in Nat
ASSUME CallersAssumption == IsFiniteSet(Callers) /\ Callers # {}
ASSUME LimitsAssumption ==
    /\ Starter \in Limits /\ Limits \subseteq Nat \cup {Unlimited, NotConfigured}
    /\ Unlimited \notin Nat \cup {NotConfigured} /\ NotConfigured \notin Nat

VARIABLES
    metered,     \* whether the resource counts by period; nobody changes it
    now,
    sub,         \* the last subscription: its status is open, start, plan
    seed,        \* when a seed found no open subscription, or NoTime
    used,        \* used[t]: quantity of the usage events that occurred at t
    accounts,    \* ad accounts that are not disconnected
    call,        \* what each caller is at
    peak,        \* the highest limit so far
    warned       \* an answer about this subscription was "approaching", or its
                 \* period counts what was used before there was one

vars == <<metered, now, sub, seed, used, accounts, call, peak, warned>>

Time == 0..MaxTime
NoTime == -1
End(s) == s.start + Month

Subscription == [open : BOOLEAN, start : Time, limit : Limits]

\* The `now` of a check, its quantity and the subscription it has found.
Call == [pc : {"idle", "asking", "found", "granted"},
         at : Time, n : 0..MaxRequest,
         from : Time, to : Month..MaxTime + Month, limit : Limits]

Asks(t, n) == [pc |-> "asking", at |-> t, n |-> n,
               from |-> 0, to |-> Month, limit |-> Starter]
Idle == [Asks(0, 0) EXCEPT !.pc = "idle"]

TypeOK ==
    /\ metered \in BOOLEAN
    /\ now \in Time
    /\ sub \in Subscription
    /\ seed \in Time \cup {NoTime}
    /\ used \in [Time -> Nat]
    /\ accounts \in Nat
    /\ call \in [Callers -> Call]
    /\ peak \in Nat \cup {Unlimited}
    /\ warned \in BOOLEAN

Higher(l) == IF Unlimited \in {l, peak} THEN Unlimited
             ELSE IF l = NotConfigured THEN peak ELSE Max({l, peak})

Init ==
    /\ metered \in BOOLEAN
    /\ now = 0
    /\ sub \in [open : {TRUE}, start : {0}, limit : Limits]
    /\ seed = NoTime
    /\ used = [t \in Time |-> 0]
    /\ accounts = 0
    /\ call = [c \in Callers |-> Idle]
    /\ peak = IF sub.limit = NotConfigured THEN 0 ELSE sub.limit
    /\ warned = FALSE

CurrentUpToEnd(t) == sub.open /\ sub.start <= t /\ t <= End(sub)

\* findCurrent at t: a period is half open.
Current(t) == sub.open /\ sub.start <= t /\ t < End(sub)

\* getCurrentUsage
Usage(from, to) ==
    IF metered THEN SumFunctionOnSet(used, {t \in Time : from <= t /\ t < to})
    ELSE accounts

FitsLoosely(usage, n, limit) == limit = Unlimited \/ usage <= limit

\* assertCanConsume's comparison of the projected usage.
Fits(usage, n, limit) == limit = Unlimited \/ usage + n <= limit

FourFifthsAndOne(limit) == (4 * limit) \div 5 + 1

\* Math.ceil(limit * 0.8), the product taken as exact.
FourFifths(limit) == (4 * limit + 4) \div 5

Approaching(usage, n, limit) ==
    /\ limit # Unlimited
    /\ usage + n <= limit
    /\ usage + n >= FourFifths(limit)

FoundSwapped(c) == [call[c] EXCEPT !.pc = "found", !.at = 0, !.limit = sub.limit,
                                   !.from = End(sub), !.to = sub.start]

\* What check keeps of the subscription and the entitlement of its plan.
Found(c) == [call[c] EXCEPT !.pc = "found", !.at = 0, !.limit = sub.limit,
                            !.from = sub.start, !.to = End(sub)]

Moves(c, to) == call' = [call EXCEPT ![c] = to]

-----------------------------------------------------------------------------
\* assertCanConsume(workspace, resource, n) begins, with its new Date().
Ask(c, n) ==
    /\ call[c].pc = "idle"
    /\ Moves(c, Asks(now, n))
    /\ UNCHANGED <<metered, now, sub, seed, used, accounts, peak, warned>>

\* requireCurrent, then the entitlement of the plan: without one of them the
\* call fails.  What a plan's version allows is a constant: the seed writes the
\* entitlements of its version again at each start, with the same limits.
Find(c) ==
    /\ call[c].pc = "asking"
    /\ Moves(c, IF Current(call[c].at) /\ sub.limit # NotConfigured
                THEN Found(c) ELSE Idle)
    /\ UNCHANGED <<metered, now, sub, seed, used, accounts, peak, warned>>

\* getCurrentUsage and the answer: granted, or the limit is exceeded.
Decide(c) ==
    LET usage == Usage(call[c].from, call[c].to)
        n == call[c].n
        limit == call[c].limit
    IN  /\ call[c].pc = "found"
        /\ Moves(c, IF Fits(usage, n, limit)
                    THEN [call[c] EXCEPT !.pc = "granted"] ELSE Idle)
        /\ warned' = (warned \/ Approaching(usage, n, limit))
        /\ UNCHANGED <<metered, now, sub, seed, used, accounts, peak>>

\* The caller uses what it was granted, perhaps later: it records the event
\* or connects the accounts, or does neither.
Use(c) ==
    /\ call[c].pc = "granted"
    /\ peak = Unlimited => used[now] + accounts < MaxUsed
    /\ IF metered
       THEN /\ used' = [used EXCEPT ![now] = @ + call[c].n]
            /\ UNCHANGED accounts
       ELSE /\ accounts' = accounts + call[c].n
            /\ UNCHANGED used
    /\ Moves(c, Idle)
    /\ UNCHANGED <<metered, now, sub, seed, peak, warned>>

GiveUp(c) ==
    /\ call[c].pc = "granted"
    /\ Moves(c, Idle)
    /\ UNCHANGED <<metered, now, sub, seed, used, accounts, peak, warned>>

\* An account is disconnected.
Disconnect ==
    /\ accounts > 0
    /\ accounts' = accounts - 1
    /\ UNCHANGED <<metered, now, sub, seed, used, call, peak, warned>>

Tick ==
    /\ now < MaxTime
    /\ now' = now + 1
    /\ UNCHANGED <<metered, sub, seed, used, accounts, call, peak, warned>>

EndSubscription ==
    /\ sub.open
    /\ sub' = [sub EXCEPT !.open = FALSE]
    /\ UNCHANGED <<metered, now, seed, used, accounts, call, peak, warned>>

\* backfillStarterSubscriptions finds no open subscription and takes the time,
SeedFinds ==
    /\ seed = NoTime
    /\ ~sub.open
    /\ seed' = now
    /\ UNCHANGED <<metered, now, sub, used, accounts, call, peak, warned>>

\* ... then inserts one and commits.  One that is open though its period is
\* over is never replaced.
SeedCommits ==
    /\ seed # NoTime
    /\ sub' = [open |-> TRUE, start |-> seed, limit |-> Starter]
    /\ seed' = NoTime
    /\ peak' = Higher(Starter)
    /\ warned' = (\E t \in seed..MaxTime : used[t] > 0)
    /\ UNCHANGED <<metered, now, used, accounts, call>>

Next ==
    \/ \E c \in Callers :
          \/ \E n \in 0..MaxRequest : Ask(c, n)
          \/ Find(c) \/ Decide(c) \/ Use(c) \/ GiveUp(c)
    \/ Disconnect \/ Tick \/ EndSubscription \/ SeedFinds \/ SeedCommits

Spec == Init /\ [][Next]_vars

-----------------------------------------------------------------------------
(* Properties *)

UsageNow == Usage(sub.start, End(sub))

Others == (Cardinality(Callers) - 1) * MaxRequest

\* Callers that check at once exceed the limit by what each but one of them
\* was granted, never by more, over ends of periods, cancellations and
\* backfills; a caller that is alone does not exceed it.
OvershootBounded == peak # Unlimited => UsageNow <= peak + Others

\* What is used while a subscription counts as current is in the usage the
\* next check reads: the two services agree on where a period ends.
UseCountsAtOnce ==
    [][\A c \in Callers : Use(c) /\ Current(now) => UsageNow' = UsageNow + call[c].n]_vars

\* A metered resource is not used up unannounced: before one unit is refused
\* an answer was "approaching", if no request is four fifths of the limit by
\* itself and the fifth above is room enough for those who ask at the same time.
WarnedFirst ==
    [][\A c \in Callers :
          /\ Decide(c) /\ call'[c].pc = "idle" /\ call[c].n = 1
          /\ metered /\ call[c].from = sub.start /\ call[c].limit = sub.limit
          /\ 5 * MaxRequest < 4 * call[c].limit
          /\ 5 * Others <= call[c].limit
          => warned]_vars
=============================================================================
