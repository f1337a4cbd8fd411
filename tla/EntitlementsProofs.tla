-------------------------- MODULE EntitlementsProofs --------------------------
(* Proofs about Entitlements, for any callers, limits and length of a period.*)
EXTENDS Entitlements, SumTheorems

USE TimeAssumption, RequestAssumption, LimitsAssumption

LEMMA AsksType ==
    ASSUME NEW t \in Time, NEW n \in 0..MaxRequest
    PROVE  Asks(t, n) \in Call /\ Asks(t, n).n = n /\ Idle \in Call
<1>1. 0 \in 0..MaxRequest /\ 0 \in Time /\ Month \in Month..MaxTime + Month
  BY DEF Time
<1>2. Asks(t, n) \in Call /\ Asks(0, 0) \in Call /\ Asks(t, n).n = n
  BY <1>1 DEF Asks, Call
<1> QED BY <1>2 DEF Idle, Call

LEMMA FoundType ==
    ASSUME TypeOK, NEW c \in Callers
    PROVE  Found(c) \in Call
<1>1. /\ call[c] \in Call /\ sub.start \in Time /\ sub.limit \in Limits
      /\ End(sub) \in Month..MaxTime + Month /\ 0 \in Time
  BY DEF TypeOK, Subscription, End, Time
<1> PICK q : q = [call[c] EXCEPT !.pc = "found", !.at = 0]
  OBVIOUS
<1> PICK r : r = [q EXCEPT !.limit = sub.limit, !.from = sub.start]
  OBVIOUS
<1>2. q \in Call
  BY <1>1 DEF Call
<1>3. r \in Call
  BY <1>1, <1>2 DEF Call
<1>4. [r EXCEPT !.to = End(sub)] \in Call
  BY <1>1, <1>3 DEF Call
<1>5. Found(c) = [r EXCEPT !.to = End(sub)]
  BY <1>1, <1>2 DEF Found, Call
<1> QED BY <1>4, <1>5

LEMMA HigherType ==
    ASSUME TypeOK, NEW l \in Limits
    PROVE  Higher(l) \in Nat \cup {Unlimited}
<1>1. ASSUME l \in Nat, peak \in Nat PROVE Max({l, peak}) \in Nat
  <2>1. \E x \in {l, peak} : \A y \in {l, peak} : x >= y
    BY <1>1
  <2> QED BY <1>1, <2>1 DEF Max
<1> QED BY <1>1 DEF Higher, TypeOK

LEMMA InitType == Init => TypeOK
<1> SUFFICES ASSUME Init PROVE TypeOK
  OBVIOUS
<1>1. 0 \in Time /\ 0 \in 0..MaxRequest
  BY DEF Time
<1>2. Idle \in Call
  BY <1>1, AsksType
<1>3. sub \in Subscription /\ sub.limit \in Limits
  BY <1>1 DEF Init, Subscription
<1>4. peak \in Nat \cup {Unlimited}
  BY <1>3 DEF Init
<1> QED BY <1>1, <1>2, <1>3, <1>4 DEF Init, TypeOK

\* A step of one caller that moves it to a state of the right type.
LEMMA CallKeeps ==
    ASSUME TypeOK, NEW c \in Callers, NEW to \in Call, Moves(c, to)
    PROVE  call' \in [Callers -> Call]
BY DEF TypeOK, Moves

LEMMA NextType == TypeOK /\ [Next]_vars => TypeOK'
<1> SUFFICES ASSUME TypeOK, [Next]_vars PROVE TypeOK'
  OBVIOUS
<1>1. Idle \in Call /\ \A t \in Time, n \in 0..MaxRequest : Asks(t, n) \in Call
  <2>1. 0 \in 0..MaxRequest /\ 0 \in Time
    BY DEF Time
  <2> QED BY <2>1, AsksType
<1>2. ASSUME NEW c \in Callers, NEW n \in 0..MaxRequest, Ask(c, n) PROVE TypeOK'
  <2>1. Asks(now, n) \in Call
    BY <1>1 DEF TypeOK
  <2>2. call' \in [Callers -> Call]
    BY <1>2, <2>1, CallKeeps DEF Ask
  <2> QED BY <1>2, <2>2 DEF TypeOK, Ask
<1>3. ASSUME NEW c \in Callers, Find(c) PROVE TypeOK'
  <2>1. call' \in [Callers -> Call]
    BY <1>1, <1>3, FoundType, CallKeeps DEF Find
  <2> QED BY <1>3, <2>1 DEF TypeOK, Find
<1>4. ASSUME NEW c \in Callers, Decide(c) PROVE TypeOK'
  <2>1. PICK usage, limit :
           /\ Moves(c, IF Fits(usage, call[c].n, limit)
                       THEN [call[c] EXCEPT !.pc = "granted"] ELSE Idle)
           /\ warned' = (warned \/ Approaching(usage, call[c].n, limit))
    BY <1>4 DEF Decide
  <2>2. [call[c] EXCEPT !.pc = "granted"] \in Call
    BY DEF TypeOK, Call
  <2>3. call' \in [Callers -> Call]
    BY <1>1, <2>1, <2>2, CallKeeps
  <2>4. warned' \in BOOLEAN
    BY <2>1
  <2> QED BY <1>4, <2>3, <2>4 DEF TypeOK, Decide
<1>5. ASSUME NEW c \in Callers, Use(c) PROVE TypeOK'
  <2>1. call[c].n \in Nat
    BY DEF TypeOK, Call
  <2>2. call' \in [Callers -> Call]
    BY <1>1, <1>5, CallKeeps DEF Use
  <2>3. used' \in [Time -> Nat] /\ accounts' \in Nat
    BY <1>5, <2>1 DEF TypeOK, Use
  <2> QED BY <1>5, <2>2, <2>3 DEF TypeOK, Use
<1>6. ASSUME NEW c \in Callers, GiveUp(c) PROVE TypeOK'
  <2>1. call' \in [Callers -> Call]
    BY <1>1, <1>6, CallKeeps DEF GiveUp
  <2> QED BY <1>6, <2>1 DEF TypeOK, GiveUp
<1>7. ASSUME Disconnect \/ Tick PROVE TypeOK'
  BY <1>7 DEF TypeOK, Disconnect, Tick, Time
<1>8. ASSUME EndSubscription PROVE TypeOK'
  BY <1>8 DEF TypeOK, EndSubscription, Subscription
<1>9. ASSUME SeedFinds PROVE TypeOK'
  BY <1>9 DEF TypeOK, SeedFinds
<1>10. ASSUME SeedCommits PROVE TypeOK'
  <2>1. sub' \in Subscription
    BY <1>10 DEF TypeOK, SeedCommits, Subscription
  <2>2. peak' \in Nat \cup {Unlimited} /\ warned' \in BOOLEAN
    BY <1>10, HigherType DEF SeedCommits
  <2> QED BY <1>10, <2>1, <2>2 DEF TypeOK, SeedCommits
<1>11. ASSUME UNCHANGED vars PROVE TypeOK'
  BY <1>11 DEF TypeOK, vars
<1> QED BY <1>2, <1>3, <1>4, <1>5, <1>6, <1>7, <1>8, <1>9, <1>10, <1>11 DEF Next

\* The variables keep their types, whatever the limits and the periods.
THEOREM TypeCorrect == Spec => []TypeOK
BY InitType, NextType, PTL DEF Spec

-----------------------------------------------------------------------------
(* What use adds to the usage that is read *)

Amounts == [c \in Callers |-> call[c].n]

LEMMA TimeFinite == IsFiniteSet(Time) /\ \A W \in SUBSET Time : IsFiniteSet(W)
<1>1. IsFiniteSet(Time)
  BY FS_Interval DEF Time
<1> QED BY <1>1, FS_Subset

LEMMA UsageType ==
    ASSUME TypeOK, NEW from, NEW to
    PROVE  Usage(from, to) \in Nat
<1> DEFINE W == {t \in Time : from <= t /\ t < to}
<1>1. IsFiniteSet(W) /\ \A t \in W : used[t] \in Nat
  BY TimeFinite DEF TypeOK
<1>2. SumFunctionOnSet(used, W) \in Nat
  BY <1>1, SumType
<1> QED BY <1>2 DEF Usage, TypeOK

LEMMA NextUsageType ==
    ASSUME TypeOK', NEW from, NEW to
    PROVE  Usage(from, to)' \in Nat
<1> DEFINE W == {t \in Time : from <= t /\ t < to}
<1>1. IsFiniteSet(W) /\ \A t \in W : used'[t] \in Nat
  BY TimeFinite DEF TypeOK
<1>2. SumFunctionOnSet(used', W) \in Nat
  BY <1>1, SumType
<1> QED BY <1>2 DEF Usage, TypeOK

\* Use adds to a sum over instants if now is one of them.
LEMMA UseAdds ==
    ASSUME TypeOK, NEW c \in Callers, Use(c), metered, NEW W \in SUBSET Time
    PROVE  SumFunctionOnSet(used', W) =
               IF now \in W THEN SumFunctionOnSet(used, W) + call[c].n
               ELSE SumFunctionOnSet(used, W)
<1>1. used \in [Time -> Nat] /\ now \in Time /\ call[c].n \in Nat
  BY DEF TypeOK, Call
<1>2. used'[now] = used[now] + call[c].n /\ \A t \in Time \ {now} : used'[t] = used[t]
  BY <1>1 DEF Use
<1> QED BY <1>1, <1>2, TimeFinite, SumAdds

LEMMA UseCounts ==
    ASSUME TypeOK, NEW c \in Callers, Use(c), NEW from, NEW to
    PROVE  Usage(from, to)' =
               IF metered => from <= now /\ now < to
               THEN Usage(from, to) + call[c].n ELSE Usage(from, to)
<1> DEFINE W == {t \in Time : from <= t /\ t < to}
<1>1. CASE metered
  <2>1. SumFunctionOnSet(used', W) = IF now \in W THEN SumFunctionOnSet(used, W) + call[c].n
                                     ELSE SumFunctionOnSet(used, W)
    BY <1>1, UseAdds
  <2> QED BY <1>1, <2>1 DEF Usage, Use, TypeOK
<1>2. CASE ~metered
  BY <1>2 DEF Usage, Use
<1> QED BY <1>1, <1>2

\* What is used while a subscription counts as current is in the usage the
\* next check reads.
THEOREM CountsAtOnce == Spec => UseCountsAtOnce
<1>1. TypeOK /\ [Next]_vars =>
      [\A c \in Callers : Use(c) /\ Current(now) => UsageNow' = UsageNow + call[c].n]_vars
  <2> SUFFICES ASSUME TypeOK, NEW c \in Callers, Use(c), Current(now)
               PROVE  UsageNow' = UsageNow + call[c].n
    OBVIOUS
  <2>1. sub' = sub
    BY DEF Use
  <2>2. Usage(sub.start, End(sub))' = Usage(sub.start, End(sub)) + call[c].n
    <3>1. \A a, b : Usage(a, b)' = IF metered => a <= now /\ now < b
                                   THEN Usage(a, b) + call[c].n ELSE Usage(a, b)
      BY UseCounts
    <3> QED BY <3>1, <2>1 DEF Current, End, Usage
  <2> QED BY <2>1, <2>2 DEF UsageNow
<1> QED BY <1>1, TypeCorrect, PTL DEF Spec, UseCountsAtOnce

-----------------------------------------------------------------------------
(* Sums over callers *)

LEMMA CallersFinite == \A S \in SUBSET Callers : IsFiniteSet(S)
BY CallersAssumption, FS_Subset

\* The other callers together ask for no more than Others.
LEMMA OthersBound ==
    ASSUME NEW g \in [Callers -> 0..MaxRequest], NEW c \in Callers,
           NEW S \in SUBSET (Callers \ {c})
    PROVE  SumFunctionOnSet(g, S) <= Others
<1> DEFINE D == Callers \ {c}
<1>1. IsFiniteSet(D) /\ (\A x \in D : g[x] \in 0..MaxRequest /\ g[x] \in Nat)
  BY CallersFinite
<1>2. SumFunctionOnSet(g, D) <= Cardinality(D) * MaxRequest
  BY <1>1, SumBound
<1>3. Cardinality(D) = Cardinality(Callers) - 1
  BY CallersAssumption, FS_RemoveElement
<1>4. SumFunctionOnSet(g, S) <= SumFunctionOnSet(g, D)
  BY <1>1, SumMonotone
<1>5. IsFiniteSet(S) /\ SumFunctionOnSet(g, S) \in Nat /\ SumFunctionOnSet(g, D) \in Nat
  BY <1>1, FS_Subset, SumType
<1>6. Others = Cardinality(D) * MaxRequest
  BY <1>3 DEF Others
<1>7. Others \in Int
  BY CallersAssumption, FS_CardinalityType DEF Others
<1> HIDE DEF D
<1> QED BY <1>2, <1>4, <1>5, <1>6, <1>7

LEMMA OthersType == Others \in Nat
<1>1. PICK c \in Callers : TRUE
  BY CallersAssumption
<1>2. Cardinality(Callers) \in Nat /\ Cardinality(Callers) # 0
  BY CallersAssumption, FS_CardinalityType, FS_EmptySet
<1>3. \A k \in Nat, m \in Nat : k * m \in Nat
  OBVIOUS
<1> QED BY <1>2, <1>3 DEF Others

\* One caller moves, and no other comes to be counted: what is asked for by
\* those who are counted grows at most by that caller.
LEMMA OneMoves ==
    ASSUME NEW f \in [Callers -> 0..MaxRequest], NEW g \in [Callers -> 0..MaxRequest],
           NEW c \in Callers, \A d \in Callers \ {c} : g[d] = f[d],
           NEW S \in SUBSET Callers, NEW R \in SUBSET Callers, R \ {c} \subseteq S
    PROVE  /\ SumFunctionOnSet(f, S) \in Nat /\ SumFunctionOnSet(g, R) \in Nat
           /\ c \notin R => SumFunctionOnSet(g, R) <= SumFunctionOnSet(f, S)
           /\ c \notin R /\ c \in S => SumFunctionOnSet(g, R) + f[c] <= SumFunctionOnSet(f, S)
           /\ g[c] = f[c] /\ (c \in R => c \in S) =>
                  SumFunctionOnSet(g, R) <= SumFunctionOnSet(f, S)
           /\ SumFunctionOnSet(g, R) <= g[c] + Others
<1> DEFINE Q == R \ {c}
           P == S \ {c}
<1>1. \A T \in SUBSET Callers : /\ IsFiniteSet(T)
                                /\ \A x \in T : f[x] \in Nat /\ g[x] \in Nat
  BY CallersFinite
<1>2. \A T \in SUBSET Callers : SumFunctionOnSet(f, T) \in Nat /\ SumFunctionOnSet(g, T) \in Nat
  BY <1>1, SumType
<1>3. SumFunctionOnSet(g, Q) <= SumFunctionOnSet(f, P)
  <2>1. SumFunctionOnSet(g, Q) = SumFunctionOnSet(f, Q)
    BY <1>1, SumAgrees
  <2>2. SumFunctionOnSet(f, Q) <= SumFunctionOnSet(f, P)
    BY <1>1, SumMonotone
  <2> QED BY <2>1, <2>2
<1>4. IF c \in S THEN SumFunctionOnSet(f, S) = f[c] + SumFunctionOnSet(f, P) ELSE P = S
  BY <1>1, SumWithout
<1>5. IF c \in R THEN SumFunctionOnSet(g, R) = g[c] + SumFunctionOnSet(g, Q) ELSE Q = R
  BY <1>1, SumWithout
<1>6. SumFunctionOnSet(g, Q) <= Others /\ Others \in Nat
  BY OthersBound, OthersType
<1>7. f[c] \in Nat /\ g[c] \in Nat
  OBVIOUS
<1>8. SumFunctionOnSet(f, P) \in Nat /\ SumFunctionOnSet(g, Q) \in Nat
      /\ SumFunctionOnSet(f, S) \in Nat /\ SumFunctionOnSet(g, R) \in Nat
  BY <1>2
<1> HIDE DEF P, Q
<1> QED BY <1>3, <1>4, <1>5, <1>6, <1>7, <1>8

\* Math.ceil(limit * 0.8): the least number that is four fifths of it.
THEOREM FourFifthsIsCeiling ==
    ASSUME NEW limit \in Nat
    PROVE  /\ FourFifths(limit) \in Nat
           /\ 4 * limit <= 5 * FourFifths(limit)
           /\ 5 * FourFifths(limit) < 4 * limit + 5
BY DEF FourFifths

\* What four fifths exceed, and what the fifth above leaves room for, it does.
LEMMA FourFifthsRounds ==
    ASSUME NEW limit \in Nat, NEW n \in Nat
    PROVE  /\ 5 * n < 4 * limit => n < FourFifths(limit)
           /\ 5 * n <= limit => limit - FourFifths(limit) >= n
BY DEF FourFifths

-----------------------------------------------------------------------------
(* The inductive invariant *)

\* A check keeps what it has found: a period, and a limit that counts.
CallsKnown ==
    \A c \in Callers :
        /\ call[c].at <= now
        /\ call[c].pc \in {"found", "granted"} =>
               /\ call[c].to = call[c].from + Month
               /\ call[c].limit # NotConfigured
               /\ peak # Unlimited => call[c].limit \in Nat /\ call[c].limit <= peak
        /\ call[c].pc = "granted" /\ peak # Unlimited => call[c].n <= peak

SubKnown ==
    /\ sub.start <= now
    /\ peak # Unlimited /\ sub.limit # NotConfigured => sub.limit \in Nat /\ sub.limit <= peak
    /\ seed # NoTime => seed <= now /\ sub.start <= seed /\ ~sub.open

NoFuture == \A t \in Time : now < t => used[t] = 0

\* The callers that may still use what they asked for without another look
\* at the limit, or whose look will find room.
Owed(c) ==
    \/ call[c].pc = "granted"
    \/ /\ call[c].pc = "found"
       /\ Fits(Usage(call[c].from, call[c].to), call[c].n, call[c].limit)

OwedCallers == {c \in Callers : Owed(c)}

\* Usage and what is owed together exceed the limit by the others' requests.
Within == peak # Unlimited =>
    UsageNow + SumFunctionOnSet(Amounts, OwedCallers) <= peak + Others

Since(x) == SumFunctionOnSet(used, {t \in Time : x <= t})

\* The same of the period a seed that has found nothing is about to begin.
WithinSeed == metered /\ seed # NoTime /\ peak # Unlimited =>
    Since(seed) + SumFunctionOnSet(Amounts, OwedCallers) <= peak + Others

\* Callers that can use nothing any more before they ask again, from x on.
Spent(x) == {c \in Callers : \/ call[c].pc = "idle"
                             \/ call[c].pc = "asking" /\ x <= call[c].at}

\* The most that one caller uses before it looks at the limit again.
Share(p) == [c \in Callers |-> IF MaxRequest <= p THEN MaxRequest ELSE p]

\* Where no period is, because the last one is over or the next is only
\* being inserted, each caller has used at most one request, and is spent.
Late == metered /\ peak # Unlimited =>
    \A x \in Time :
        End(sub) <= x \/ (seed # NoTime /\ seed < x) =>
            Since(x) <= SumFunctionOnSet(Share(peak), Spent(x))

\* Callers that look at the period or the limit of an earlier subscription.
Stale(c) == call[c].pc = "found" /\ (call[c].from # sub.start \/ call[c].limit # sub.limit)

Loose == {c \in Callers : call[c].pc = "granted" \/ Stale(c)}

\* Without a warning, usage and what is granted or will be decided by an
\* earlier subscription do not reach the threshold but for the others'
\* requests.
Unannounced ==
    metered /\ ~warned /\ sub.limit \in Nat /\ MaxRequest < FourFifths(sub.limit) =>
        UsageNow + SumFunctionOnSet(Amounts, Loose) < FourFifths(sub.limit) + Others

Facts == TypeOK /\ CallsKnown /\ SubKnown /\ NoFuture

\* The limits only become higher.
LEMMA PeakGrows ==
    ASSUME TypeOK, [Next]_vars, peak' # Unlimited
    PROVE  peak # Unlimited /\ peak \in Nat /\ peak' \in Nat /\ peak <= peak'
<1>1. peak \in Nat \cup {Unlimited}
  BY DEF TypeOK
<1>2. CASE UNCHANGED peak
  BY <1>1, <1>2
<1>3. CASE SeedCommits
  <2>1. peak' = Higher(Starter) /\ peak # Unlimited /\ Starter # Unlimited
    BY <1>3 DEF SeedCommits, Higher
  <2>2. CASE Starter = NotConfigured
    BY <1>1, <2>1, <2>2 DEF Higher
  <2>3. CASE Starter # NotConfigured
    <3>1. Starter \in Nat /\ peak \in Nat /\ peak' = Max({Starter, peak})
      BY <1>1, <2>1, <2>3 DEF Higher
    <3>2. \E x \in {Starter, peak} : \A y \in {Starter, peak} : x >= y
      BY <3>1
    <3> QED BY <2>1, <3>1, <3>2 DEF Max
  <2> QED BY <2>2, <2>3
<1>4. UNCHANGED peak \/ SeedCommits
  BY DEF Next, vars, Ask, Find, Decide, Use, GiveUp, Disconnect, Tick, EndSubscription,
         SeedFinds
<1> QED BY <1>2, <1>3, <1>4

\* After the commit of a seed the limit of its plan counts.
LEMMA StarterCounts ==
    ASSUME TypeOK, SeedCommits, peak' # Unlimited, Starter # NotConfigured
    PROVE  Starter \in Nat /\ Starter <= peak'
<1>1. peak' = Higher(Starter) /\ peak # Unlimited /\ Starter # Unlimited /\ peak \in Nat
  BY DEF SeedCommits, Higher, TypeOK
<1>2. Starter \in Nat /\ peak' = Max({Starter, peak})
  BY <1>1 DEF Higher
<1>3. \E x \in {Starter, peak} : \A y \in {Starter, peak} : x >= y
  BY <1>1, <1>2
<1> QED BY <1>2, <1>3 DEF Max

LEMMA CallType ==
    ASSUME TypeOK, NEW c \in Callers
    PROVE  /\ call[c].at \in Nat /\ call[c].n \in 0..MaxRequest /\ call[c].n \in Nat
           /\ call[c].from \in Nat /\ call[c].to \in Nat /\ call[c].limit \in Limits
<1>1. call[c] \in Call
  BY DEF TypeOK
<1>2. /\ call[c].at \in 0..MaxTime /\ call[c].n \in 0..MaxRequest
      /\ call[c].from \in 0..MaxTime /\ call[c].to \in Month..MaxTime + Month
      /\ call[c].limit \in Limits
  BY <1>1 DEF Call, Time
<1> QED BY <1>2

LEMMA MovesTo ==
    ASSUME TypeOK, NEW c \in Callers, NEW to, Moves(c, to)
    PROVE  call'[c] = to /\ \A d \in Callers \ {c} : call'[d] = call[d]
BY DEF TypeOK, Moves

LEMMA FactsInit == Init => Facts
<1> SUFFICES ASSUME Init PROVE Facts
  OBVIOUS
<1>1. TypeOK
  BY InitType
<1>2. Idle.pc = "idle" /\ Idle.at = 0
  BY DEF Idle, Asks
<1>3. CallsKnown
  BY <1>2 DEF CallsKnown, Init
<1>4. SubKnown
  BY <1>1 DEF SubKnown, Init, NoTime, TypeOK, Subscription
<1>5. NoFuture
  BY DEF NoFuture, Init
<1> QED BY <1>1, <1>3, <1>4, <1>5 DEF Facts

LEMMA FactsNext == Facts /\ [Next]_vars => Facts'
<1> SUFFICES ASSUME Facts, [Next]_vars PROVE Facts'
  OBVIOUS
<1>1. TypeOK /\ TypeOK' /\ CallsKnown /\ SubKnown /\ NoFuture
  BY NextType DEF Facts
<1>2. now \in Nat /\ now' \in Nat /\ now <= now'
  <2>1. now \in Nat
    BY <1>1 DEF TypeOK, Time
  <2>2. now' = now \/ now' = now + 1
    BY DEF Next, vars, Ask, Find, Decide, Use, GiveUp, Disconnect, Tick, EndSubscription,
           SeedFinds, SeedCommits
  <2> QED BY <2>1, <2>2
<1>3. NoFuture'
  <2>1. ASSUME NEW c \in Callers, Use(c) PROVE NoFuture'
    <3>1. now' = now /\ \A t \in Time \ {now} : used'[t] = used[t]
      BY <1>1, <2>1 DEF Use, TypeOK
    <3>2. \A t \in Time : now < t => t # now
      BY <1>2
    <3> QED BY <1>1, <3>1, <3>2 DEF NoFuture
  <2>2. CASE UNCHANGED used
    BY <1>1, <1>2, <2>2 DEF NoFuture, TypeOK, Time
  <2> QED BY <2>1, <2>2 DEF Next, vars, Ask, Find, Decide, GiveUp, Disconnect, Tick,
                            EndSubscription, SeedFinds, SeedCommits
<1>4. SubKnown'
  <2>1. CASE SeedCommits
    BY <1>1, <2>1, StarterCounts DEF SubKnown, SeedCommits, TypeOK, NoTime
  <2>2. CASE SeedFinds
    BY <1>1, <2>2 DEF SubKnown, SeedFinds, TypeOK, NoTime
  <2>3. CASE EndSubscription
    BY <1>1, <2>3 DEF SubKnown, EndSubscription, TypeOK, Subscription
  <2>4. CASE Tick
    BY <1>1, <2>4 DEF SubKnown, Tick, TypeOK, Subscription, Time, NoTime
  <2>5. CASE UNCHANGED <<now, sub, seed, peak>>
    BY <1>1, <2>5 DEF SubKnown
  <2> QED BY <2>1, <2>2, <2>3, <2>4, <2>5
          DEF Next, vars, Ask, Find, Decide, Use, GiveUp, Disconnect
<1>5. CallsKnown'
  <2> DEFINE Known(d) ==
          /\ call'[d].at <= now'
          /\ call'[d].pc \in {"found", "granted"} =>
                 /\ call'[d].to = call'[d].from + Month
                 /\ call'[d].limit # NotConfigured
                 /\ peak' # Unlimited => call'[d].limit \in Nat /\ call'[d].limit <= peak'
          /\ call'[d].pc = "granted" /\ peak' # Unlimited => call'[d].n <= peak'
  <2>1. ASSUME NEW d \in Callers, call'[d] = call[d] PROVE Known(d)
    <3>1. call[d].at \in Nat /\ call[d].n \in Nat
      BY <1>1, CallType
    <3>2. peak' # Unlimited => peak # Unlimited /\ peak \in Nat /\ peak' \in Nat /\ peak <= peak'
      BY <1>1, PeakGrows
    <3> QED BY <1>1, <1>2, <2>1, <3>1, <3>2 DEF CallsKnown
  <2>2. ASSUME NEW c \in Callers, NEW to, Moves(c, to), to.pc \in {"idle", "asking"}, to.at <= now'
        PROVE  \A d \in Callers : Known(d)
    <3>1. Known(c)
      BY <1>1, <2>2, MovesTo
    <3> QED BY <1>1, <2>1, <2>2, <3>1, MovesTo
  <2>3. Idle.pc = "idle" /\ Idle.at <= now'
    BY <1>2 DEF Idle, Asks
  <2>4. ASSUME NEW c \in Callers, NEW n \in 0..MaxRequest, Ask(c, n)
        PROVE  \A d \in Callers : Known(d)
    <3>1. Asks(now, n).pc = "asking" /\ Asks(now, n).at <= now'
      BY <1>2 DEF Asks
    <3> QED BY <2>2, <2>4, <3>1 DEF Ask
  <2>5. ASSUME NEW c \in Callers, Find(c) PROVE \A d \in Callers : Known(d)
    <3>1. CASE Moves(c, Idle)
      BY <2>2, <2>3, <3>1
    <3>2. CASE Moves(c, Found(c)) /\ sub.limit # NotConfigured
      <4>1. /\ Found(c).at = 0 /\ Found(c).pc = "found" /\ Found(c).limit = sub.limit
            /\ Found(c).from = sub.start /\ Found(c).to = sub.start + Month
        BY <1>1 DEF Found, TypeOK, Call, End
      <4>2. UNCHANGED peak
        BY <2>5 DEF Find
      <4>3. Known(c)
        BY <1>1, <1>2, <3>2, <4>1, <4>2, MovesTo DEF SubKnown
      <4> QED BY <1>1, <2>1, <3>2, <4>3, MovesTo
    <3> QED BY <2>5, <3>1, <3>2 DEF Find
  <2>6. ASSUME NEW c \in Callers, Decide(c) PROVE \A d \in Callers : Known(d)
    <3>1. CASE Moves(c, Idle)
      BY <2>2, <2>3, <3>1
    <3>2. CASE /\ Moves(c, [call[c] EXCEPT !.pc = "granted"])
               /\ Fits(Usage(call[c].from, call[c].to), call[c].n, call[c].limit)
      <4> DEFINE to == [call[c] EXCEPT !.pc = "granted"]
      <4>1. /\ to.at = call[c].at /\ to.n = call[c].n /\ to.limit = call[c].limit
            /\ to.from = call[c].from /\ to.to = call[c].to /\ to.pc = "granted"
        BY <1>1 DEF TypeOK, Call
      <4>2. call[c].pc = "found" /\ UNCHANGED peak
        BY <2>6 DEF Decide
      <4>3. Usage(call[c].from, call[c].to) \in Nat /\ call[c].n \in Nat /\ call[c].at \in Nat
        BY <1>1, UsageType, CallType
      <4>4. peak # Unlimited => call[c].n <= peak
        <5>1. ASSUME peak # Unlimited PROVE call[c].n <= peak
          <6>1. call[c].limit \in Nat /\ call[c].limit <= peak /\ peak \in Nat
            BY <1>1, <4>2, <5>1 DEF CallsKnown, TypeOK
          <6>2. Usage(call[c].from, call[c].to) + call[c].n <= call[c].limit
            BY <3>2, <6>1 DEF Fits
          <6> QED BY <4>3, <6>1, <6>2
        <5> QED BY <5>1
      <4>5. call'[c] = to
        BY <1>1, <3>2, MovesTo
      <4> HIDE DEF to
      <4>6. Known(c)
        BY <1>1, <1>2, <4>1, <4>2, <4>3, <4>4, <4>5 DEF CallsKnown
      <4> QED BY <1>1, <2>1, <3>2, <4>6, MovesTo
    <3> QED BY <2>6, <3>1, <3>2 DEF Decide
  <2>7. ASSUME NEW c \in Callers, Use(c) \/ GiveUp(c) PROVE \A d \in Callers : Known(d)
    BY <2>2, <2>3, <2>7 DEF Use, GiveUp
  <2>8. ASSUME UNCHANGED call PROVE \A d \in Callers : Known(d)
    BY <2>1, <2>8
  <2>9. \A d \in Callers : Known(d)
    BY <2>4, <2>5, <2>6, <2>7, <2>8
       DEF Next, vars, Disconnect, Tick, EndSubscription, SeedFinds, SeedCommits
  <2> QED BY <2>9 DEF CallsKnown
<1> QED BY <1>1, <1>3, <1>4, <1>5 DEF Facts

-----------------------------------------------------------------------------
(* How a step changes what is owed *)

LEMMA AmountsMove ==
    ASSUME TypeOK, TypeOK', NEW c \in Callers,
           \A d \in Callers \ {c} : call'[d] = call[d],
           NEW S \in SUBSET Callers, NEW R \in SUBSET Callers, R \ {c} \subseteq S
    PROVE  /\ SumFunctionOnSet(Amounts, S) \in Nat /\ SumFunctionOnSet(Amounts', R) \in Nat
           /\ c \notin R =>
                  SumFunctionOnSet(Amounts', R) <= SumFunctionOnSet(Amounts, S)
           /\ c \notin R /\ c \in S =>
                  SumFunctionOnSet(Amounts', R) + call[c].n <= SumFunctionOnSet(Amounts, S)
           /\ call'[c].n = call[c].n /\ (c \in R => c \in S) =>
                  SumFunctionOnSet(Amounts', R) <= SumFunctionOnSet(Amounts, S)
           /\ SumFunctionOnSet(Amounts', R) <= call'[c].n + Others
<1> DEFINE f == Amounts
           g == Amounts'
<1>1. \A d \in Callers : call[d].n \in 0..MaxRequest
  BY CallType
<1>2. \A d \in Callers : call'[d].n \in 0..MaxRequest
  BY DEF TypeOK, Call
<1>3. f \in [Callers -> 0..MaxRequest] /\ \A d \in Callers : f[d] = call[d].n
  BY <1>1 DEF Amounts
<1>4. g \in [Callers -> 0..MaxRequest] /\ \A d \in Callers : g[d] = call'[d].n
  BY <1>2 DEF Amounts
<1>5. \A d \in Callers \ {c} : g[d] = f[d]
  BY <1>3, <1>4
<1> HIDE DEF f, g
<1>6. /\ SumFunctionOnSet(f, S) \in Nat /\ SumFunctionOnSet(g, R) \in Nat
      /\ c \notin R => SumFunctionOnSet(g, R) <= SumFunctionOnSet(f, S)
      /\ c \notin R /\ c \in S => SumFunctionOnSet(g, R) + f[c] <= SumFunctionOnSet(f, S)
      /\ g[c] = f[c] /\ (c \in R => c \in S) =>
             SumFunctionOnSet(g, R) <= SumFunctionOnSet(f, S)
      /\ SumFunctionOnSet(g, R) <= g[c] + Others
  BY <1>3, <1>4, <1>5, OneMoves
<1>7. f[c] = call[c].n /\ g[c] = call'[c].n
  BY <1>3, <1>4
<1> QED BY <1>6, <1>7 DEF f, g

\* A caller that does not move comes to be owed only if usage goes down.
LEMMA OwedStays ==
    ASSUME TypeOK, TypeOK', CallsKnown, peak # Unlimited,
           NEW d \in Callers, call'[d] = call[d], Owed(d)',
           \A a, b : Usage(a, b) <= Usage(a, b)'
    PROVE  Owed(d)
<1>1. CASE call[d].pc = "granted"
  BY <1>1 DEF Owed
<1>2. CASE call[d].pc = "found"
  <2> DEFINE from == call[d].from
             to == call[d].to
             n == call[d].n
             limit == call[d].limit
  <2>1. limit \in Nat /\ n \in Nat /\ limit # Unlimited
    BY <1>2, CallType DEF CallsKnown
  <2>2. Usage(from, to) \in Nat
    BY UsageType
  <2>3. Usage(from, to)' \in Nat
    BY NextUsageType
  <2> QED BY <1>2, <2>1, <2>2, <2>3 DEF Owed, Fits
<1> QED BY <1>1, <1>2 DEF Owed

Outstanding == SumFunctionOnSet(Amounts, OwedCallers)

LEMMA OutstandingType == TypeOK => Outstanding \in Nat
<1> SUFFICES ASSUME TypeOK PROVE Outstanding \in Nat
  OBVIOUS
<1>1. IsFiniteSet(OwedCallers)
  BY CallersFinite DEF OwedCallers
<1>2. \A d \in OwedCallers : Amounts[d] \in Nat
  BY CallType DEF OwedCallers, Amounts
<1> QED BY <1>1, <1>2, SumType DEF Outstanding

LEMMA OwedShrinks ==
    ASSUME TypeOK, TypeOK', CallsKnown, peak # Unlimited,
           \A a, b : Usage(a, b) <= Usage(a, b)',
           NEW c \in Callers, \A d \in Callers \ {c} : call'[d] = call[d]
    PROVE  /\ Outstanding' \in Nat
           /\ call'[c].pc \in {"idle", "asking"} => Outstanding' <= Outstanding
           /\ call'[c].pc \in {"idle", "asking"} /\ Owed(c) =>
                  Outstanding' + call[c].n <= Outstanding
           /\ call'[c].n = call[c].n /\ (Owed(c)' => Owed(c)) => Outstanding' <= Outstanding
           /\ Outstanding' <= call'[c].n + Others
<1> DEFINE S == OwedCallers
           R == OwedCallers'
<1>1. S \in SUBSET Callers /\ R \in SUBSET Callers
  BY DEF OwedCallers
<1>2. R \ {c} \subseteq S
  BY OwedStays DEF OwedCallers
<1>3. call'[c].pc \in {"idle", "asking"} => c \notin R
  BY DEF OwedCallers, Owed
<1>4. (c \in R <=> Owed(c)') /\ (c \in S <=> Owed(c))
  BY DEF OwedCallers
<1>5. Outstanding = SumFunctionOnSet(Amounts, S) /\ Outstanding' = SumFunctionOnSet(Amounts', R)
  BY DEF Outstanding
<1> HIDE DEF S, R
<1> QED BY <1>1, <1>2, <1>3, <1>4, <1>5, AmountsMove

LEMMA UsageKeeps ==
    ASSUME UNCHANGED <<metered, used, accounts>>, NEW a, NEW b
    PROVE  Usage(a, b)' = Usage(a, b)
BY DEF Usage

LEMMA UsageNowKeeps ==
    ASSUME UNCHANGED <<metered, used, accounts>>, sub'.start = sub.start
    PROVE  UsageNow' = UsageNow
BY DEF UsageNow, Usage, End

\* Steps that neither use, disconnect nor find leave no more owed.
LEMMA OwedKept ==
    ASSUME Facts, Facts', peak # Unlimited, UNCHANGED <<metered, used, accounts>>,
           \/ \E c \in Callers : \/ \E n \in 0..MaxRequest : Ask(c, n)
                                 \/ Decide(c) \/ GiveUp(c)
                                 \/ Find(c) /\ Moves(c, Idle)
           \/ UNCHANGED call
    PROVE  Outstanding' <= Outstanding
<1>1. TypeOK /\ TypeOK' /\ CallsKnown
  BY DEF Facts
<1>2. \A a, b : Usage(a, b) <= Usage(a, b)'
  BY <1>1, UsageKeeps, UsageType
<1>3. Idle.pc = "idle" /\ \A t, n : Asks(t, n).pc = "asking"
  BY DEF Idle, Asks
<1>4. ASSUME NEW c \in Callers, NEW to, Moves(c, to), to.pc \in {"idle", "asking"}
      PROVE  Outstanding' <= Outstanding
  <2>1. call'[c] = to /\ \A d \in Callers \ {c} : call'[d] = call[d]
    BY <1>1, <1>4, MovesTo
  <2> QED BY <1>1, <1>2, <1>4, <2>1, OwedShrinks
<1>5. ASSUME NEW c \in Callers, Decide(c) PROVE Outstanding' <= Outstanding
  <2>1. CASE Moves(c, Idle)
    BY <1>3, <1>4, <2>1
  <2>2. CASE /\ Moves(c, [call[c] EXCEPT !.pc = "granted"])
             /\ Fits(Usage(call[c].from, call[c].to), call[c].n, call[c].limit)
    <3>1. /\ call'[c] = [call[c] EXCEPT !.pc = "granted"]
          /\ \A d \in Callers \ {c} : call'[d] = call[d]
      BY <1>1, <2>2, MovesTo
    <3>2. call'[c].n = call[c].n
      BY <1>1, <3>1 DEF TypeOK, Call
    <3>3. Owed(c)
      BY <1>5, <2>2 DEF Decide, Owed
    <3> QED BY <1>1, <1>2, <3>1, <3>2, <3>3, OwedShrinks
  <2> QED BY <1>5, <2>1, <2>2 DEF Decide
<1>6. ASSUME UNCHANGED call PROVE Outstanding' <= Outstanding
  <2>1. PICK c \in Callers : TRUE
    BY CallersAssumption
  <2>2. Owed(c)' => Owed(c)
    BY <1>1, <1>2, <1>6, OwedStays
  <2> QED BY <1>1, <1>2, <1>6, <2>2, OwedShrinks
<1> QED BY <1>3, <1>4, <1>5, <1>6 DEF Ask, GiveUp

LEMMA OwedUsed ==
    ASSUME Facts, Facts', peak # Unlimited, NEW c \in Callers, Use(c)
    PROVE  Outstanding' + call[c].n <= Outstanding
<1>1. TypeOK /\ TypeOK' /\ CallsKnown
  BY DEF Facts
<1>2. \A a, b : Usage(a, b) <= Usage(a, b)'
  <2>1. call[c].n \in Nat
    BY <1>1, CallType
  <2> QED BY <1>1, <2>1, UseCounts, UsageType
<1>3. call'[c] = Idle /\ (\A d \in Callers \ {c} : call'[d] = call[d]) /\ Idle.pc = "idle"
  BY <1>1, MovesTo DEF Use, Idle, Asks
<1>4. Owed(c)
  BY DEF Use, Owed
<1> QED BY <1>1, <1>2, <1>3, <1>4, OwedShrinks

-----------------------------------------------------------------------------
(* Within and WithinSeed *)

LEMMA WithinInit == Init => Within /\ WithinSeed
<1> SUFFICES ASSUME Init PROVE Within /\ WithinSeed
  OBVIOUS
<1>1. TypeOK
  BY InitType
<1>2. UsageNow = 0
  <2> DEFINE W == {t \in Time : sub.start <= t /\ t < End(sub)}
  <2>1. SumFunctionOnSet(used, W) = 0
    <3>1. IsFiniteSet(W) /\ \A t \in W : used[t] = 0
      BY TimeFinite DEF Init
    <3> QED BY <3>1, SumZero
  <2> QED BY <2>1 DEF UsageNow, Usage, Init
<1>3. OwedCallers = {}
  BY DEF OwedCallers, Owed, Init, Idle, Asks
<1>4. SumFunctionOnSet(Amounts, OwedCallers) = 0
  BY <1>3, SumEmpty
<1>5. peak # Unlimited => peak \in Nat
  BY <1>1 DEF TypeOK
<1>6. seed = NoTime
  BY DEF Init
<1> QED BY <1>2, <1>4, <1>5, <1>6, OthersType DEF Within, WithinSeed

\* A caller that has just found a subscription and would be granted.
LEMMA FoundFits ==
    ASSUME Facts, Facts', peak # Unlimited, NEW c \in Callers, Find(c), Moves(c, Found(c)),
           sub.limit # NotConfigured
    PROVE  \/ Outstanding' <= Outstanding
           \/ UsageNow + Outstanding' <= peak + Others
<1>1. TypeOK /\ TypeOK' /\ CallsKnown /\ SubKnown
  BY DEF Facts
<1>2. UNCHANGED <<metered, now, sub, seed, used, accounts, peak, warned>>
  BY DEF Find
<1>3. \A a, b : Usage(a, b) <= Usage(a, b)'
  BY <1>1, <1>2, UsageKeeps, UsageType
<1>4. call'[c] = Found(c) /\ \A d \in Callers \ {c} : call'[d] = call[d]
  BY <1>1, MovesTo
<1>5. /\ call'[c].pc = "found" /\ call'[c].n = call[c].n /\ call'[c].limit = sub.limit
      /\ call'[c].from = sub.start /\ call'[c].to = End(sub)
  BY <1>1, <1>4 DEF Found, TypeOK, Call
<1>6. CASE ~Owed(c)'
  <2>1. Outstanding' <= Outstanding
    BY <1>1, <1>3, <1>4, <1>5, <1>6, OwedShrinks
  <2> QED BY <2>1
<1>7. CASE Owed(c)'
  <2>1. Fits(Usage(sub.start, End(sub)), call[c].n, sub.limit)
    BY <1>2, <1>5, <1>7 DEF Owed, Usage, Fits
  <2>2. sub.limit \in Nat /\ sub.limit <= peak /\ peak \in Nat
    BY <1>1 DEF SubKnown, TypeOK
  <2>3. UsageNow + call[c].n <= sub.limit
    BY <2>1, <2>2 DEF Fits, UsageNow
  <2>4. Outstanding' \in Nat /\ Outstanding' <= call'[c].n + Others
    BY <1>1, <1>3, <1>4, OwedShrinks
  <2>5. UsageNow \in Nat /\ call[c].n \in Nat /\ Others \in Nat
    BY <1>1, UsageType, CallType, OthersType DEF UsageNow
  <2> QED BY <1>5, <2>2, <2>3, <2>4, <2>5
<1> QED BY <1>6, <1>7

LEMMA DisconnectFits ==
    ASSUME Facts, Facts', peak # Unlimited, Disconnect
    PROVE  \/ UsageNow' <= UsageNow /\ Outstanding' <= Outstanding
           \/ ~metered /\ UsageNow' + Outstanding' <= peak + Others
<1>1. TypeOK /\ TypeOK' /\ CallsKnown
  BY DEF Facts
<1>2. UNCHANGED <<metered, sub, used, call, peak>> /\ accounts' = accounts - 1 /\ accounts > 0
  BY DEF Disconnect
<1>3. CASE metered
  <2>1. \A a, b : Usage(a, b)' = Usage(a, b)
    BY <1>2, <1>3 DEF Usage
  <2>2. UsageNow' = UsageNow /\ UsageNow \in Nat
    BY <1>1, <1>2, <1>3, UsageType DEF UsageNow, Usage, End
  <2>3. \A c \in Callers : Owed(c)' <=> Owed(c)
    BY <1>2, <1>3 DEF Owed, Usage
  <2>4. Outstanding' = Outstanding /\ Outstanding \in Nat
    BY <1>1, <1>2, <2>3, OutstandingType DEF Outstanding, OwedCallers, Amounts
  <2> QED BY <2>2, <2>4
<1>4. CASE ~metered
  <2>1. UsageNow = accounts /\ UsageNow' = accounts - 1 /\ accounts \in Nat
    BY <1>1, <1>2, <1>4 DEF UsageNow, Usage, TypeOK
  <2>2. Outstanding = SumFunctionOnSet(Amounts, OwedCallers) /\ Amounts' = Amounts
        /\ Outstanding' = SumFunctionOnSet(Amounts, OwedCallers')
    BY <1>2 DEF Outstanding, Amounts
  <2>3. CASE OwedCallers' \subseteq OwedCallers
    <3>1. PICK c \in Callers : TRUE
      BY CallersAssumption
    <3>2. call'[c].n = call[c].n /\ (\A d \in Callers \ {c} : call'[d] = call[d])
          /\ OwedCallers \in SUBSET Callers /\ OwedCallers' \in SUBSET Callers
      BY <1>2 DEF OwedCallers
    <3>3. SumFunctionOnSet(Amounts', OwedCallers') <= SumFunctionOnSet(Amounts, OwedCallers)
      BY <1>1, <2>3, <3>2, AmountsMove
    <3> QED BY <2>1, <2>2, <3>3
  <2>4. ASSUME NEW c \in Callers, Owed(c)', ~Owed(c)
        PROVE  UsageNow' + Outstanding' <= peak + Others
    <3>1. call[c].pc = "found" /\ Fits(accounts - 1, call[c].n, call[c].limit)
      BY <1>2, <1>4, <2>4 DEF Owed, Usage, Fits
    <3>2. call[c].limit \in Nat /\ call[c].limit <= peak /\ peak \in Nat /\ call[c].n \in Nat
      BY <1>1, <3>1, CallType DEF CallsKnown, TypeOK
    <3>3. accounts - 1 + call[c].n <= peak
      BY <2>1, <3>1, <3>2 DEF Fits
    <3>4. SumFunctionOnSet(Amounts', OwedCallers') <= call[c].n + Others
          /\ SumFunctionOnSet(Amounts', OwedCallers') \in Nat
      <4>1. /\ \A d \in Callers \ {c} : call'[d] = call[d]
            /\ Callers \in SUBSET Callers /\ OwedCallers' \in SUBSET Callers
            /\ OwedCallers' \ {c} \subseteq Callers /\ call'[c].n = call[c].n
        BY <1>2 DEF OwedCallers
      <4> QED BY <1>1, <4>1, AmountsMove
    <3> QED BY <2>1, <2>2, <3>2, <3>3, <3>4, OthersType
  <2> QED BY <1>4, <2>3, <2>4 DEF OwedCallers
<1> QED BY <1>3, <1>4

LEMMA SinceType == ASSUME TypeOK, NEW x PROVE Since(x) \in Nat
<1> DEFINE W == {t \in Time : x <= t}
<1>1. IsFiniteSet(W) /\ \A t \in W : used[t] \in Nat
  BY TimeFinite DEF TypeOK
<1> QED BY <1>1, SumType DEF Since

\* A period has no more usage than there is since it began.
LEMMA PeriodInSince ==
    ASSUME TypeOK, NEW x, NEW y
    PROVE  SumFunctionOnSet(used, {t \in Time : x <= t /\ t < y}) <= Since(x)
<1> DEFINE W == {t \in Time : x <= t}
           V == {t \in Time : x <= t /\ t < y}
<1>1. IsFiniteSet(W) /\ (\A t \in W : used[t] \in Nat) /\ V \in SUBSET W
  BY TimeFinite DEF TypeOK
<1>2. SumFunctionOnSet(used, V) <= SumFunctionOnSet(used, W)
  BY <1>1, SumMonotone
<1> QED BY <1>2 DEF Since

LEMMA NextTypes ==
    ASSUME TypeOK'
    PROVE  UsageNow' \in Nat /\ Outstanding' \in Nat
<1>1. UsageNow' \in Nat
  <2>1. \A a, b : Usage(a, b)' \in Nat
    BY NextUsageType
  <2>2. PICK a, b : a = sub'.start /\ b = End(sub)'
    OBVIOUS
  <2>3. UsageNow' = Usage(a, b)'
    BY <2>2 DEF UsageNow, Usage
  <2> QED BY <2>1, <2>3
<1>2. Outstanding' \in Nat
  <2>1. PICK f, S : f = Amounts' /\ S = OwedCallers'
    OBVIOUS
  <2>2. IsFiniteSet(S) /\ \A d \in S : f[d] \in Nat
    <3>1. S \in SUBSET Callers
      BY <2>1 DEF OwedCallers
    <3>2. \A d \in Callers : f[d] \in Nat
      BY <2>1 DEF Amounts, TypeOK, Call
    <3> QED BY <3>1, <3>2, CallersFinite
  <2> QED BY <2>1, <2>2, SumType DEF Outstanding
<1> QED BY <1>1, <1>2

LEMMA WithinNext ==
    ASSUME Facts, Facts', [Next]_vars, Within, WithinSeed
    PROVE  Within'
<1>0. SUFFICES ASSUME peak' # Unlimited,
                    NEW u \in Nat, u = UsageNow', NEW o \in Nat, o = Outstanding',
                    NEW p \in Nat, p = peak'
             PROVE  u + o <= p + Others
  <2>1. ASSUME peak' # Unlimited
        PROVE  UsageNow' \in Nat /\ Outstanding' \in Nat /\ peak' \in Nat
    BY <2>1, NextTypes DEF Facts, TypeOK
  <2>2. Outstanding' = SumFunctionOnSet(Amounts', OwedCallers')
    BY DEF Outstanding
  <2>3. Others' = Others
    BY DEF Others
  <2> QED BY <2>1, <2>2, <2>3 DEF Within
<1>1. TypeOK /\ TypeOK' /\ CallsKnown /\ SubKnown
  BY DEF Facts
<1>2. /\ peak # Unlimited /\ peak \in Nat /\ peak <= p
      /\ UsageNow \in Nat /\ Others \in Nat /\ Outstanding \in Nat
      /\ u \in Nat /\ o \in Nat /\ p \in Nat
  BY <1>0, <1>1, PeakGrows, UsageType, OthersType, OutstandingType DEF UsageNow
<1>4. UsageNow + Outstanding <= peak + Others
  BY <1>2 DEF Within, Outstanding
<1>5. ASSUME u = UsageNow, o <= Outstanding
      PROVE  u + o <= p + Others
  BY <1>2, <1>4, <1>5
<1> DEFINE Looks(c) == \/ \E n \in 0..MaxRequest : Ask(c, n)
                       \/ Decide(c) \/ GiveUp(c)
                       \/ Find(c) /\ Moves(c, Idle)
<1>6. ASSUME NEW c \in Callers, Looks(c)
      PROVE  u + o <= p + Others
  <2>1. UNCHANGED <<metered, used, accounts>> /\ sub'.start = sub.start
    BY <1>6 DEF Ask, Decide, GiveUp, Find
  <2>2. u = UsageNow /\ o <= Outstanding
    BY <1>0, <1>2, <1>6, <2>1, UsageNowKeeps, OwedKept
  <2> QED BY <1>5, <2>2
<1>7. ASSUME NEW c \in Callers, Find(c), Moves(c, Found(c)), sub.limit # NotConfigured
      PROVE  u + o <= p + Others
  <2>1. u = UsageNow
    BY <1>0, <1>7, UsageNowKeeps DEF Find
  <2>2. \/ o <= Outstanding
        \/ UsageNow + o <= peak + Others
    BY <1>0, <1>2, <1>7, FoundFits
  <2> QED BY <1>2, <1>4, <2>1, <2>2
<1>8. ASSUME NEW c \in Callers, Use(c)
      PROVE  u + o <= p + Others
  <2>1. u \in {UsageNow, UsageNow + call[c].n}
    <3>1. \A a, b : Usage(a, b)' \in {Usage(a, b), Usage(a, b) + call[c].n}
      BY <1>1, <1>8, UseCounts
    <3> QED BY <1>0, <1>8, <3>1 DEF Use, UsageNow, End, Usage
  <2>2. o + call[c].n <= Outstanding /\ call[c].n \in Nat
    BY <1>0, <1>1, <1>2, <1>8, OwedUsed, CallType
  <2> QED BY <1>2, <1>4, <2>1, <2>2
<1>9. ASSUME Disconnect PROVE u + o <= p + Others
  <2>1. \/ u <= UsageNow /\ o <= Outstanding
        \/ u + o <= peak + Others
    BY <1>0, <1>2, <1>9, DisconnectFits
  <2> QED BY <1>2, <1>4, <2>1
<1>10. ASSUME Tick \/ EndSubscription \/ SeedFinds \/ UNCHANGED vars
       PROVE  u + o <= p + Others
  <2>1. UNCHANGED <<metered, used, accounts, call>> /\ sub'.start = sub.start
    BY <1>1, <1>10 DEF Tick, EndSubscription, SeedFinds, vars, TypeOK, Subscription
  <2>2. u = UsageNow /\ o <= Outstanding
    BY <1>0, <1>2, <2>1, UsageNowKeeps, OwedKept
  <2> QED BY <1>5, <2>2
<1>11. ASSUME SeedCommits PROVE u + o <= p + Others
  <2>1. UNCHANGED <<metered, used, accounts, call>> /\ sub'.start = seed /\ seed # NoTime
    BY <1>11 DEF SeedCommits
  <2>2. o <= Outstanding
    BY <1>0, <1>2, <2>1, OwedKept
  <2>3. CASE metered
    <3>1. u = SumFunctionOnSet(used, {t \in Time : seed <= t /\ t < seed + Month})
      BY <1>0, <2>1, <2>3 DEF UsageNow, Usage, End
    <3>2. u <= Since(seed) /\ Since(seed) \in Nat
      BY <1>0, <1>1, <3>1, PeriodInSince, SinceType
    <3>3. Since(seed) + Outstanding <= peak + Others
      BY <1>2, <2>1, <2>3 DEF WithinSeed, Outstanding
    <3> QED BY <1>2, <2>2, <3>2, <3>3
  <2>4. CASE ~metered
    <3>1. u = UsageNow
      BY <1>0, <2>1, <2>4 DEF UsageNow, Usage
    <3> QED BY <1>5, <2>2, <3>1
  <2> QED BY <2>3, <2>4
<1>12. \A c \in Callers : Find(c) => \/ Moves(c, Idle)
                                     \/ Moves(c, Found(c)) /\ sub.limit # NotConfigured
  BY DEF Find
<1>13. ASSUME NEW c \in Callers, \/ \E n \in 0..MaxRequest : Ask(c, n)
                                 \/ Find(c) \/ Decide(c) \/ Use(c) \/ GiveUp(c)
       PROVE  u + o <= p + Others
  <2>1. \/ Looks(c) \/ Use(c)
        \/ Find(c) /\ Moves(c, Found(c)) /\ sub.limit # NotConfigured
    BY <1>12, <1>13
  <2> HIDE DEF Looks
  <2> QED BY <1>6, <1>7, <1>8, <2>1
<1>14. CASE Next
  BY <1>9, <1>10, <1>11, <1>13, <1>14 DEF Next
<1> QED BY <1>10, <1>14
LEMMA ShareType ==
    ASSUME NEW p \in Nat
    PROVE  /\ Share(p) \in [Callers -> 0..MaxRequest]
           /\ \A c \in Callers : Share(p)[c] \in Nat /\ Share(p)[c] <= p
           /\ \A S \in SUBSET Callers : SumFunctionOnSet(Share(p), S) \in Nat
<1>1. /\ Share(p) \in [Callers -> 0..MaxRequest]
      /\ \A c \in Callers : Share(p)[c] \in Nat /\ Share(p)[c] <= p
  BY DEF Share
<1>2. ASSUME NEW S \in SUBSET Callers PROVE SumFunctionOnSet(Share(p), S) \in Nat
  BY <1>1, CallersFinite, SumType
<1> QED BY <1>1, <1>2

LEMMA SharesBound ==
    ASSUME NEW p \in Nat
    PROVE  SumFunctionOnSet(Share(p), Callers) <= p + Others
<1>1. PICK c \in Callers : TRUE
  BY CallersAssumption
<1> DEFINE D == Callers \ {c}
<1>2. SumFunctionOnSet(Share(p), Callers) = Share(p)[c] + SumFunctionOnSet(Share(p), D)
  BY ShareType, CallersFinite, SumWithout
<1>3. SumFunctionOnSet(Share(p), D) <= Others
  BY ShareType, OthersBound
<1>4. SumFunctionOnSet(Share(p), D) \in Nat /\ Share(p)[c] \in Nat /\ Share(p)[c] <= p
  BY ShareType
<1> QED BY <1>2, <1>3, <1>4, OthersType

LEMMA OwedIsShare ==
    ASSUME Facts, peak # Unlimited, NEW c \in Callers, Owed(c)
    PROVE  call[c].n \in Nat /\ call[c].n <= Share(peak)[c]
<1>1. TypeOK /\ CallsKnown /\ peak \in Nat
  BY DEF Facts, TypeOK
<1>2. call[c].n \in Nat /\ call[c].n <= MaxRequest
  BY <1>1, CallType
<1>3. call[c].n <= peak
  <2>1. CASE call[c].pc = "granted"
    BY <1>1, <2>1 DEF CallsKnown
  <2>2. CASE /\ call[c].pc = "found"
             /\ Fits(Usage(call[c].from, call[c].to), call[c].n, call[c].limit)
    <3>1. call[c].limit \in Nat /\ call[c].limit <= peak
      BY <1>1, <2>2 DEF CallsKnown
    <3>2. Usage(call[c].from, call[c].to) + call[c].n <= call[c].limit
      BY <2>2, <3>1 DEF Fits
    <3>3. Usage(call[c].from, call[c].to) \in Nat
      BY <1>1, UsageType
    <3> QED BY <1>1, <1>2, <3>1, <3>2, <3>3
  <2> QED BY <2>1, <2>2 DEF Owed
<1> QED BY <1>2, <1>3 DEF Share

\* Those that are owed are not spent.
LEMMA OwedBound ==
    ASSUME Facts, peak # Unlimited, NEW x
    PROVE  SumFunctionOnSet(Share(peak), Spent(x)) + Outstanding <= peak + Others
<1> DEFINE f == Share(peak)
           S == Spent(x)
           T == Callers \ S
           O == OwedCallers
<1>1. TypeOK /\ peak \in Nat
  BY DEF Facts, TypeOK
<1>2. S \in SUBSET Callers /\ T \in SUBSET Callers
  BY DEF Spent
<1>3. O \in SUBSET T
  BY DEF OwedCallers, Owed, Spent
<1>4. \A c \in O : Amounts[c] \in Nat /\ Amounts[c] <= f[c]
  BY OwedIsShare DEF OwedCallers, Amounts
<1>5. \A c \in Callers : f[c] \in Nat
  BY <1>1, ShareType
<1>6. IsFiniteSet(O) /\ IsFiniteSet(T) /\ IsFiniteSet(Callers)
  BY <1>2, <1>3, CallersFinite
<1>7. Outstanding = SumFunctionOnSet(Amounts, O)
  BY DEF Outstanding
<1>8. SumFunctionOnSet(f, Callers) <= peak + Others
  BY <1>1, SharesBound
<1>9. SumFunctionOnSet(f, S) \in Nat /\ SumFunctionOnSet(f, T) \in Nat
      /\ SumFunctionOnSet(f, O) \in Nat
  BY <1>1, <1>2, <1>3, ShareType
<1> HIDE DEF f, S, O
<1>10. SumFunctionOnSet(Amounts, O) <= SumFunctionOnSet(f, O)
  BY <1>2, <1>3, <1>4, <1>5, <1>6, SumPointwise
<1>11. SumFunctionOnSet(f, O) <= SumFunctionOnSet(f, T)
  BY <1>2, <1>3, <1>5, <1>6, SumMonotone
<1>12. SumFunctionOnSet(f, Callers) = SumFunctionOnSet(f, S) + SumFunctionOnSet(f, T)
  BY <1>2, <1>5, <1>6, SumSplit
<1>13. Outstanding \in Nat /\ Others \in Nat
  BY <1>1, OutstandingType, OthersType
<1> HIDE DEF T
<1> QED BY <1>1, <1>7, <1>8, <1>9, <1>10, <1>11, <1>12, <1>13 DEF f, S

\* Nothing has been used in the future.
LEMMA SinceNow ==
    ASSUME Facts, NEW x, NEW y \in Int, now < y
    PROVE  /\ Since(y) = 0
           /\ Since(x) = SumFunctionOnSet(used, {t \in Time : x <= t /\ t < y})
<1> DEFINE W == {t \in Time : x <= t}
           V == {t \in Time : x <= t /\ t < y}
           Z == {t \in Time : y <= t}
<1>1. (\A t \in Time : used[t] \in Nat) /\ \A t \in Time : y <= t => used[t] = 0
  BY DEF Facts, NoFuture, TypeOK, Time
<1>2. SumFunctionOnSet(used, Z) = 0
  BY <1>1, TimeFinite, SumZero
<1>3. SumFunctionOnSet(used, W \ V) = 0
  <2>1. \A t \in W \ V : used[t] = 0
    BY <1>1 DEF Time
  <2> QED BY <2>1, TimeFinite, SumZero
<1>4. SumFunctionOnSet(used, W) = SumFunctionOnSet(used, V) + SumFunctionOnSet(used, W \ V)
  BY <1>1, TimeFinite, SumSplit
<1>5. SumFunctionOnSet(used, V) \in Nat
  BY <1>1, TimeFinite, SumType
<1> QED BY <1>2, <1>3, <1>4, <1>5 DEF Since

LEMMA SubType ==
    ASSUME TypeOK
    PROVE  sub.start \in Nat /\ End(sub) = sub.start + Month /\ End(sub) \in Nat
<1>1. sub.start \in 0..MaxTime
  BY DEF TypeOK, Subscription, Time
<1> QED BY <1>1 DEF End

\* The period that a seed is about to begin.
LEMMA WithinSeedNext ==
    ASSUME Facts, Facts', [Next]_vars, Within, WithinSeed, Late
    PROVE  WithinSeed'
<1>0. SUFFICES ASSUME metered', seed' # NoTime, peak' # Unlimited,
                      NEW u \in Nat, u = SumFunctionOnSet(used', {t \in Time : seed' <= t}),
                      NEW o \in Nat, o = Outstanding',
                      NEW p \in Nat, p = peak'
               PROVE  u + o <= p + Others
  <2>1. ASSUME peak' # Unlimited
        PROVE  Outstanding' \in Nat /\ peak' \in Nat
    BY <2>1, NextTypes DEF Facts, TypeOK
  <2>2. Outstanding' = SumFunctionOnSet(Amounts', OwedCallers')
    BY DEF Outstanding
  <2>3. Others' = Others
    BY DEF Others
  <2>4. Since(seed)' = SumFunctionOnSet(used', {t \in Time : seed' <= t})
    BY DEF Since, Time
  <2>5. SumFunctionOnSet(used', {t \in Time : seed' <= t}) \in Nat
    <3> DEFINE W == {t \in Time : seed' <= t}
    <3>1. \A t \in W : used'[t] \in Nat
      BY DEF Facts, TypeOK
    <3> QED BY <3>1, TimeFinite, SumType
  <2> QED BY <2>1, <2>2, <2>3, <2>4, <2>5 DEF WithinSeed
<1>1. TypeOK /\ TypeOK' /\ CallsKnown /\ SubKnown /\ metered
  <2>1. metered' = metered
    BY DEF Next, vars, Ask, Find, Decide, Use, GiveUp, Disconnect, Tick, EndSubscription,
           SeedFinds, SeedCommits
  <2> QED BY <1>0, <2>1 DEF Facts
<1>2. /\ peak # Unlimited /\ peak \in Nat /\ peak <= p
      /\ Others \in Nat /\ Outstanding \in Nat
      /\ u \in Nat /\ o \in Nat /\ p \in Nat
  BY <1>0, <1>1, PeakGrows, OthersType, OutstandingType
<1>3. ASSUME UNCHANGED seed, u = Since(seed), o <= Outstanding
      PROVE  u + o <= p + Others
  <2>1. Since(seed) + Outstanding <= peak + Others
    BY <1>0, <1>1, <1>2, <1>3 DEF WithinSeed, Outstanding
  <2> QED BY <1>2, <1>3, <2>1
<1> DEFINE Looks(c) == \/ \E n \in 0..MaxRequest : Ask(c, n)
                       \/ Decide(c) \/ GiveUp(c)
                       \/ Find(c) /\ Moves(c, Idle)
<1>4. ASSUME NEW c \in Callers, Looks(c)
      PROVE  u + o <= p + Others
  <2>1. UNCHANGED <<metered, seed, used, accounts>>
    BY <1>4 DEF Ask, Decide, GiveUp, Find
  <2>2. u = Since(seed)
    BY <1>0, <2>1 DEF Since
  <2>3. o <= Outstanding
    BY <1>0, <1>2, <1>4, <2>1, OwedKept
  <2> QED BY <1>3, <2>1, <2>2, <2>3
<1>5. ASSUME NEW c \in Callers, Find(c) PROVE Moves(c, Idle)
  <2>1. seed' = seed
    BY <1>5 DEF Find
  <2>2. ~sub.open
    BY <1>0, <1>1, <2>1 DEF SubKnown
  <2> QED BY <1>5, <2>2 DEF Find, Current
<1>6. ASSUME NEW c \in Callers, Use(c)
      PROVE  u + o <= p + Others
  <2>1. UNCHANGED <<seed, now>>
    BY <1>6 DEF Use
  <2>2. u = Since(seed) + call[c].n
    <3> DEFINE W == {t \in Time : seed <= t}
    <3>1. W \in SUBSET Time /\ now \in W
      BY <1>0, <1>1, <2>1 DEF SubKnown, TypeOK
    <3>2. SumFunctionOnSet(used', W) = SumFunctionOnSet(used, W) + call[c].n
      BY <1>1, <1>6, <3>1, UseAdds
    <3> QED BY <1>0, <2>1, <3>2 DEF Since
  <2>3. Since(seed) + Outstanding <= peak + Others
    BY <1>0, <1>1, <1>2, <2>1 DEF WithinSeed, Outstanding
  <2>4. o + call[c].n <= Outstanding /\ call[c].n \in Nat /\ Since(seed) \in Nat
    BY <1>0, <1>1, <1>2, <1>6, OwedUsed, CallType, SinceType
  <2> QED BY <1>2, <2>2, <2>3, <2>4
<1>7. ASSUME Disconnect PROVE u + o <= p + Others
  <2>1. UNCHANGED <<seed, used>>
    BY <1>7 DEF Disconnect
  <2>2. u = Since(seed)
    BY <1>0, <2>1 DEF Since
  <2>3. o <= Outstanding
    BY <1>0, <1>1, <1>2, <1>7, DisconnectFits
  <2> QED BY <1>3, <2>1, <2>2, <2>3
<1>8. ASSUME Tick \/ EndSubscription \/ UNCHANGED vars PROVE u + o <= p + Others
  <2>1. UNCHANGED <<metered, seed, used, accounts, call>>
    BY <1>8 DEF Tick, EndSubscription, vars
  <2>2. u = Since(seed)
    BY <1>0, <2>1 DEF Since
  <2>3. o <= Outstanding
    BY <1>0, <1>2, <2>1, OwedKept
  <2> QED BY <1>3, <2>1, <2>2, <2>3
<1>9. ASSUME SeedFinds PROVE u + o <= p + Others
  <2>1. UNCHANGED <<metered, used, accounts, call, sub, now>> /\ seed' = now
    BY <1>9 DEF SeedFinds
  <2>2. u = Since(now)
    BY <1>0, <2>1 DEF Since
  <2>3. o <= Outstanding
    BY <1>0, <1>2, <2>1, OwedKept
  <2>4. now \in Time /\ now \in Nat /\ sub.start \in Nat /\ sub.start <= now
        /\ End(sub) \in Nat
    BY <1>1, SubType DEF SubKnown, TypeOK, Time
  <2>5. CASE now < End(sub)
    <3> DEFINE V == {t \in Time : now <= t /\ t < End(sub)}
               W == {t \in Time : sub.start <= t /\ t < End(sub)}
    <3>1. Since(now) = SumFunctionOnSet(used, V)
      BY <2>4, <2>5, SinceNow
    <3>2. V \in SUBSET W /\ \A t \in W : used[t] \in Nat
      BY <1>1, <2>4 DEF Time, TypeOK
    <3>3. SumFunctionOnSet(used, V) <= SumFunctionOnSet(used, W)
      BY <3>2, TimeFinite, SumMonotone
    <3>4. UsageNow = SumFunctionOnSet(used, W)
      BY <1>1 DEF UsageNow, Usage
    <3>5. UsageNow \in Nat /\ UsageNow + Outstanding <= peak + Others
      BY <1>1, <1>2, UsageType DEF Within, Outstanding, UsageNow
    <3> QED BY <1>2, <2>2, <2>3, <3>1, <3>3, <3>4, <3>5
  <2>6. CASE End(sub) <= now
    <3>1. Since(now) <= SumFunctionOnSet(Share(peak), Spent(now))
      BY <1>1, <1>2, <2>4, <2>6 DEF Late
    <3>2. SumFunctionOnSet(Share(peak), Spent(now)) + Outstanding <= peak + Others
      BY <1>2, OwedBound
    <3>3. SumFunctionOnSet(Share(peak), Spent(now)) \in Nat
      BY <1>2, ShareType DEF Spent
    <3> QED BY <1>2, <2>2, <2>3, <3>1, <3>2, <3>3
  <2> QED BY <2>4, <2>5, <2>6
<1>10. ~SeedCommits
  BY <1>0 DEF SeedCommits
<1>11. ASSUME NEW c \in Callers, \/ \E n \in 0..MaxRequest : Ask(c, n)
                                 \/ Find(c) \/ Decide(c) \/ Use(c) \/ GiveUp(c)
       PROVE  u + o <= p + Others
  <2>1. Looks(c) \/ Use(c)
    BY <1>5, <1>11
  <2> HIDE DEF Looks
  <2> QED BY <1>4, <1>6, <2>1
<1>12. CASE Next
  BY <1>7, <1>8, <1>9, <1>10, <1>11, <1>12 DEF Next
<1> QED BY <1>8, <1>12

LEMMA LateInit == Init => Late
<1> SUFFICES ASSUME Init, NEW x \in Time, peak # Unlimited
             PROVE  Since(x) <= SumFunctionOnSet(Share(peak), Spent(x))
  BY DEF Late
<1>1. Since(x) = 0
  BY TimeFinite, SumZero DEF Since, Init
<1>2. peak \in Nat
  BY InitType DEF TypeOK
<1>3. SumFunctionOnSet(Share(peak), Spent(x)) \in Nat
  BY <1>2, ShareType DEF Spent
<1> QED BY <1>1, <1>3

LEMMA LateNext ==
    ASSUME Facts, Facts', [Next]_vars, Late
    PROVE  Late'
<1>0. SUFFICES ASSUME metered', peak' # Unlimited, NEW x \in Time,
                      End(sub)' <= x \/ (seed' # NoTime /\ seed' < x)
               PROVE  SumFunctionOnSet(used', {t \in Time : x <= t})
                          <= SumFunctionOnSet(Share(peak'), Spent(x)')
  BY DEF Late, Since, Share, Spent, Time
<1>1. TypeOK /\ TypeOK' /\ CallsKnown /\ SubKnown /\ NoFuture /\ metered
  <2>1. metered' = metered
    BY DEF Next, vars, Ask, Find, Decide, Use, GiveUp, Disconnect, Tick, EndSubscription,
           SeedFinds, SeedCommits
  <2> QED BY <1>0, <2>1 DEF Facts
<1>2. /\ peak # Unlimited /\ peak \in Nat /\ peak' \in Nat /\ peak <= peak' /\ x \in Nat
  BY <1>0, <1>1, PeakGrows DEF Time
<1> DEFINE W == {t \in Time : x <= t}
           S == Spent(x)
           R == Spent(x)'
           Over == End(sub) <= x \/ (seed # NoTime /\ seed < x)
<1>3. S \in SUBSET Callers /\ R \in SUBSET Callers
  BY DEF Spent
<1>4. ASSUME Over PROVE SumFunctionOnSet(used, W) <= SumFunctionOnSet(Share(peak), S)
  BY <1>0, <1>1, <1>2, <1>4 DEF Late, Since
<1>5. SumFunctionOnSet(used, W) \in Nat
  BY <1>1, SinceType DEF Since
<1>6. now < x => SumFunctionOnSet(used, W) = 0
  <2> SUFFICES ASSUME now < x PROVE Since(x) = 0
    BY DEF Since
  <2>1. x \in Int
    BY <1>2
  <2> QED BY <2>1, SinceNow
<1>7. \A c \in Callers : c \in S <=> \/ call[c].pc = "idle"
                                     \/ call[c].pc = "asking" /\ x <= call[c].at
  BY DEF Spent
<1>8. \A c \in Callers : c \in R <=> \/ call'[c].pc = "idle"
                                     \/ call'[c].pc = "asking" /\ x <= call'[c].at
  BY DEF Spent
<1> DEFINE Goal == SumFunctionOnSet(used', W) <= SumFunctionOnSet(Share(peak'), R)
<1>9. SUFFICES Goal
  OBVIOUS
<1> HIDE DEF S, R, W
<1>10. /\ SumFunctionOnSet(Share(peak), S) \in Nat
       /\ SumFunctionOnSet(Share(peak), R) \in Nat
       /\ SumFunctionOnSet(Share(peak'), R) \in Nat
       /\ SumFunctionOnSet(Share(peak), R) <= SumFunctionOnSet(Share(peak'), R)
  <2>1. PICK p \in Nat : p = peak'
    BY <1>2
  <2>2. \A c \in Callers : /\ Share(peak)[c] \in Nat /\ Share(p)[c] \in Nat
                            /\ Share(peak)[c] <= Share(p)[c]
    BY <1>2, <2>1 DEF Share
  <2>3. SumFunctionOnSet(Share(peak), R) <= SumFunctionOnSet(Share(p), R)
    BY <1>3, <2>2, CallersFinite, SumPointwise
  <2> QED BY <1>2, <1>3, <2>1, <2>3, ShareType
<1>11. ASSUME UNCHANGED used, Over, S \subseteq R PROVE Goal
  <2>1. SumFunctionOnSet(Share(peak), S) <= SumFunctionOnSet(Share(peak), R)
    BY <1>2, <1>3, <1>11, ShareType, CallersFinite, SumMonotone
  <2> QED BY <1>4, <1>5, <1>10, <1>11, <2>1
<1>12. ASSUME UNCHANGED used, now < x PROVE Goal
  BY <1>6, <1>10, <1>12
<1>13. ASSUME UNCHANGED <<sub, seed>> PROVE Over
  BY <1>0, <1>13 DEF End
<1>14. ASSUME NEW c \in Callers, NEW n \in 0..MaxRequest, Ask(c, n) PROVE Goal
  <2>1. CASE now < x
    BY <1>12, <1>14, <2>1 DEF Ask
  <2>2. CASE x <= now
    <3>1. call'[c] = Asks(now, n) /\ \A d \in Callers \ {c} : call'[d] = call[d]
      BY <1>1, <1>14, MovesTo DEF Ask
    <3>2. Asks(now, n).pc = "asking" /\ Asks(now, n).at = now
      BY DEF Asks
    <3>3. S \subseteq R
      BY <1>3, <1>7, <1>8, <2>2, <3>1, <3>2
    <3> QED BY <1>11, <1>13, <1>14, <3>3 DEF Ask
  <2> QED BY <1>1, <1>2, <2>1, <2>2 DEF TypeOK, Time
<1>15. ASSUME NEW c \in Callers, NEW to, Moves(c, to), to.pc = "idle",
              UNCHANGED <<sub, seed, used>>
       PROVE  Goal
  <2>1. call'[c] = to /\ \A d \in Callers \ {c} : call'[d] = call[d]
    BY <1>1, <1>15, MovesTo
  <2>2. S \subseteq R
    BY <1>3, <1>7, <1>8, <1>15, <2>1
  <2> QED BY <1>11, <1>13, <1>15, <2>2
<1>16. Idle.pc = "idle"
  BY DEF Idle, Asks
<1>17. ASSUME NEW c \in Callers, Find(c) PROVE Goal
  <2>1. UNCHANGED <<sub, seed, used>> /\ call[c].pc = "asking"
    BY <1>17 DEF Find
  <2>2. CASE Moves(c, Idle)
    BY <1>15, <1>16, <2>1, <2>2
  <2>3. CASE Moves(c, Found(c)) /\ Current(call[c].at)
    <3>1. call'[c] = Found(c) /\ \A d \in Callers \ {c} : call'[d] = call[d]
      BY <1>1, <2>3, MovesTo
    <3>2. End(sub) <= x
      BY <1>1, <1>13, <2>1, <2>3 DEF Current, SubKnown
    <3>3. ~ x <= call[c].at
      BY <1>1, <1>2, <2>3, <3>2, CallType, SubType DEF Current
    <3>4. S \subseteq R
      BY <1>3, <1>7, <1>8, <2>1, <3>1, <3>3
    <3> QED BY <1>11, <1>13, <2>1, <3>4
  <2> QED BY <1>17, <2>2, <2>3 DEF Find
<1>18. ASSUME NEW c \in Callers, Decide(c) PROVE Goal
  <2>1. UNCHANGED <<sub, seed, used>> /\ call[c].pc = "found"
    BY <1>18 DEF Decide
  <2>2. \A d \in Callers \ {c} : call'[d] = call[d]
    BY <1>1, <1>18, MovesTo DEF Decide
  <2>3. S \subseteq R
    BY <1>3, <1>7, <1>8, <2>1, <2>2
  <2> QED BY <1>11, <1>13, <2>1, <2>3
<1>19. ASSUME NEW c \in Callers, GiveUp(c) PROVE Goal
  BY <1>15, <1>16, <1>19 DEF GiveUp
<1>20. ASSUME NEW c \in Callers, Use(c) PROVE Goal
  <2>1. UNCHANGED <<sub, seed, peak>> /\ call[c].pc = "granted" /\ Over
    BY <1>13, <1>20 DEF Use
  <2>2. call'[c] = Idle /\ \A d \in Callers \ {c} : call'[d] = call[d]
    BY <1>1, <1>20, MovesTo DEF Use
  <2>3. R = S \cup {c} /\ c \notin S
    BY <1>3, <1>7, <1>8, <1>16, <2>1, <2>2
  <2>4. SumFunctionOnSet(Share(peak), R) = Share(peak)[c] + SumFunctionOnSet(Share(peak), S)
    BY <1>2, <1>3, <2>3, ShareType, CallersFinite, SumWith
  <2>5. call[c].n \in Nat /\ call[c].n <= Share(peak)[c]
    BY <1>2, <2>1, OwedIsShare DEF Owed
  <2>6. SumFunctionOnSet(used', W) \in
            {SumFunctionOnSet(used, W), SumFunctionOnSet(used, W) + call[c].n}
    BY <1>1, <1>20, UseAdds DEF W
  <2>7. Share(peak)[c] \in Nat /\ SumFunctionOnSet(used, W) <= SumFunctionOnSet(Share(peak), S)
    BY <1>2, <1>4, <2>1, ShareType
  <2> QED BY <1>5, <1>10, <2>1, <2>4, <2>5, <2>6, <2>7
<1>21. ASSUME Disconnect \/ Tick \/ UNCHANGED vars PROVE Goal
  <2>1. UNCHANGED <<sub, seed, used, call>>
    BY <1>21 DEF Disconnect, Tick, vars
  <2>2. S \subseteq R
    BY <1>3, <1>7, <1>8, <2>1
  <2> QED BY <1>11, <1>13, <2>1, <2>2
<1>22. ASSUME EndSubscription PROVE Goal
  <2>1. UNCHANGED <<seed, used, call>> /\ sub'.start = sub.start
    BY <1>1, <1>22 DEF EndSubscription, TypeOK, Subscription
  <2>2. S \subseteq R
    BY <1>3, <1>7, <1>8, <2>1
  <2>3. Over
    BY <1>0, <2>1 DEF End
  <2> QED BY <1>11, <2>1, <2>2, <2>3
<1>23. ASSUME SeedFinds PROVE Goal
  <2>1. UNCHANGED <<sub, used, call>> /\ seed' = now
    BY <1>23 DEF SeedFinds
  <2>2. CASE now < x
    BY <1>12, <2>1, <2>2
  <2>3. CASE End(sub) <= x
    <3>1. S \subseteq R
      BY <1>3, <1>7, <1>8, <2>1
    <3> QED BY <1>11, <2>1, <2>3, <3>1
  <2> QED BY <1>0, <2>1, <2>2, <2>3 DEF End
<1>24. ASSUME SeedCommits PROVE Goal
  <2>1. UNCHANGED <<used, call>> /\ sub'.start = seed /\ seed # NoTime /\ seed' = NoTime
    BY <1>24 DEF SeedCommits
  <2>2. seed \in Nat
    BY <1>1, <2>1 DEF TypeOK, Time
  <2>3. seed + Month <= x
    BY <1>0, <2>1 DEF End
  <2>4. seed < x
    BY <1>2, <2>2, <2>3
  <2>5. S \subseteq R
    BY <1>3, <1>7, <1>8, <2>1
  <2> QED BY <1>11, <2>1, <2>4, <2>5
<1>25. ASSUME NEW c \in Callers, \/ \E n \in 0..MaxRequest : Ask(c, n)
                                 \/ Find(c) \/ Decide(c) \/ Use(c) \/ GiveUp(c)
       PROVE  Goal
  BY <1>14, <1>17, <1>18, <1>19, <1>20, <1>25
<1> HIDE DEF Goal
<1>26. CASE Next
  BY <1>21, <1>22, <1>23, <1>24, <1>25, <1>26 DEF Next
<1> QED BY <1>21, <1>26

-----------------------------------------------------------------------------
(* The limit *)

OvershootInvariant == Facts /\ Within /\ WithinSeed /\ Late

LEMMA OvershootInvariantInit == Init => OvershootInvariant
BY FactsInit, WithinInit, LateInit DEF OvershootInvariant

LEMMA OvershootInvariantNext == OvershootInvariant /\ [Next]_vars => OvershootInvariant'
BY FactsNext, WithinNext, WithinSeedNext, LateNext DEF OvershootInvariant

LEMMA OvershootInvariantUse == OvershootInvariant => OvershootBounded
<1> SUFFICES ASSUME OvershootInvariant, peak # Unlimited
             PROVE  UsageNow <= peak + Others
  BY DEF OvershootBounded
<1>1. TypeOK /\ peak \in Nat
  BY DEF OvershootInvariant, Facts, TypeOK
<1>2. UsageNow + Outstanding <= peak + Others
  BY DEF OvershootInvariant, Within, Outstanding
<1>3. UsageNow \in Nat /\ Outstanding \in Nat /\ Others \in Nat
  BY <1>1, UsageType, OutstandingType, OthersType DEF UsageNow
<1> QED BY <1>1, <1>2, <1>3

\* The usage of the period exceeds the highest limit so far by no more than
\* what all callers but one may ask for, over ends of periods, cancellations
\* and backfills, for any number of callers and any limits.
THEOREM LimitOvershoot == Spec => []OvershootBounded
BY OvershootInvariantInit, OvershootInvariantNext, OvershootInvariantUse, PTL DEF Spec

-----------------------------------------------------------------------------
(* The warning *)

LEMMA LooseType ==
    ASSUME TypeOK
    PROVE  SumFunctionOnSet(Amounts, Loose) \in Nat
<1>1. IsFiniteSet(Loose)
  BY CallersFinite DEF Loose
<1>2. \A d \in Loose : Amounts[d] \in Nat
  BY CallType DEF Loose, Amounts
<1> QED BY <1>1, <1>2, SumType

LEMMA NothingUsed ==
    ASSUME NEW from, NEW to, metered,
           \A t \in Time : from <= t /\ t < to => used[t] = 0
    PROVE  Usage(from, to) = 0
BY TimeFinite, SumZero DEF Usage

LEMMA UnannouncedInit == Init => Unannounced
<1> SUFFICES ASSUME Init, metered, sub.limit \in Nat, MaxRequest < FourFifths(sub.limit)
             PROVE  UsageNow + SumFunctionOnSet(Amounts, Loose)
                        < FourFifths(sub.limit) + Others
  BY DEF Unannounced
<1>1. UsageNow = 0
  BY NothingUsed DEF UsageNow, Init
<1>2. Loose = {}
  BY DEF Loose, Stale, Init, Idle, Asks
<1>3. SumFunctionOnSet(Amounts, Loose) = 0
  BY <1>2, SumEmpty
<1> QED BY <1>1, <1>3, OthersType, FourFifthsIsCeiling

LEMMA UnannouncedNext ==
    ASSUME Facts, Facts', [Next]_vars, Unannounced
    PROVE  Unannounced'
<1>0. SUFFICES ASSUME metered', ~warned', sub'.limit \in Nat,
                      MaxRequest < FourFifths(sub'.limit),
                      NEW u \in Nat, u = UsageNow',
                      NEW o \in Nat, o = SumFunctionOnSet(Amounts', Loose'),
                      NEW f \in Nat, f = FourFifths(sub'.limit)
               PROVE  u + o < f + Others
  <2>1. UsageNow' \in Nat
    BY NextTypes DEF Facts
  <2>2. SumFunctionOnSet(Amounts', Loose') \in Nat
    <3>1. PICK g, R : g = Amounts' /\ R = Loose'
      OBVIOUS
    <3>2. IsFiniteSet(R) /\ \A d \in R : g[d] \in Nat
      <4>1. R \in SUBSET Callers
        BY <3>1 DEF Loose
      <4>2. \A d \in Callers : g[d] \in Nat
        BY <3>1 DEF Amounts, Facts, TypeOK, Call
      <4> QED BY <4>1, <4>2, CallersFinite
    <3> QED BY <3>1, <3>2, SumType
  <2>3. ASSUME sub'.limit \in Nat PROVE FourFifths(sub'.limit) \in Nat
    BY <2>3, FourFifthsIsCeiling
  <2>4. FourFifths(sub.limit)' = FourFifths(sub'.limit) /\ Others' = Others
    BY DEF FourFifths, Others
  <2> QED BY <2>1, <2>2, <2>3, <2>4 DEF Unannounced
<1>1. TypeOK /\ TypeOK' /\ CallsKnown /\ SubKnown /\ metered
  <2>1. metered' = metered
    BY DEF Next, vars, Ask, Find, Decide, Use, GiveUp, Disconnect, Tick, EndSubscription,
           SeedFinds, SeedCommits
  <2> QED BY <1>0, <2>1 DEF Facts
<1> DEFINE s == SumFunctionOnSet(Amounts, Loose)
<1>2. /\ s \in Nat /\ UsageNow \in Nat /\ Others \in Nat
      /\ u \in Nat /\ o \in Nat /\ f \in Nat /\ MaxRequest < f
  BY <1>0, <1>1, LooseType, UsageType, OthersType DEF UsageNow
<1>3. ASSUME ~warned, sub'.limit = sub.limit PROVE UsageNow + s < f + Others
  BY <1>0, <1>1, <1>3 DEF Unannounced
<1> HIDE DEF s
<1>4. ASSUME ~warned, sub'.limit = sub.limit, u = UsageNow, o <= s
      PROVE  u + o < f + Others
  BY <1>2, <1>3, <1>4
<1>5. ASSUME NEW c \in Callers, \A d \in Callers \ {c} : call'[d] = call[d], sub' = sub
      PROVE  /\ c \notin Loose' => o <= s
             /\ c \notin Loose' /\ c \in Loose => o + call[c].n <= s
             /\ c \in Loose /\ call'[c].n = call[c].n => o <= s
             /\ o <= call'[c].n + Others
  <2> PICK S, R : S = Loose /\ R = Loose'
    OBVIOUS
  <2>1. S \in SUBSET Callers /\ R \in SUBSET Callers /\ R \ {c} \subseteq S
    BY <1>5 DEF Loose, Stale
  <2> QED BY <1>0, <1>1, <1>5, <2>1, AmountsMove DEF s
<1>6. ASSUME NEW c \in Callers, NEW to, Moves(c, to), to.pc \in {"idle", "asking"},
             UNCHANGED <<sub, used, accounts>>, ~warned
      PROVE  u + o < f + Others
  <2>1. call'[c] = to /\ \A d \in Callers \ {c} : call'[d] = call[d]
    BY <1>1, <1>6, MovesTo
  <2>2. c \notin Loose'
    BY <1>6, <2>1 DEF Loose, Stale
  <2>3. o <= s
    BY <1>5, <1>6, <2>1, <2>2
  <2>4. u = UsageNow
    BY <1>0, <1>1, <1>6, UsageNowKeeps
  <2> QED BY <1>4, <1>6, <2>3, <2>4
<1>7. Idle.pc = "idle" /\ \A t, n : Asks(t, n).pc = "asking"
  BY DEF Idle, Asks
<1>8. ASSUME NEW c \in Callers, NEW n \in 0..MaxRequest, Ask(c, n)
      PROVE  u + o < f + Others
  BY <1>0, <1>6, <1>7, <1>8 DEF Ask
<1>9. ASSUME NEW c \in Callers, Find(c) PROVE u + o < f + Others
  <2>1. UNCHANGED <<metered, sub, used, accounts>> /\ ~warned
    BY <1>0, <1>9 DEF Find
  <2>2. CASE Moves(c, Idle)
    BY <1>6, <1>7, <2>1, <2>2
  <2>3. CASE Moves(c, Found(c))
    <3>1. call'[c] = Found(c) /\ \A d \in Callers \ {c} : call'[d] = call[d]
      BY <1>1, <2>3, MovesTo
    <3>2. /\ Found(c).pc = "found" /\ Found(c).from = sub.start
          /\ Found(c).limit = sub.limit
      BY <1>1 DEF Found, TypeOK, Call
    <3>3. c \notin Loose'
      BY <2>1, <3>1, <3>2 DEF Loose, Stale
    <3>4. o <= s
      BY <1>5, <2>1, <3>1, <3>3
    <3>5. u = UsageNow
      BY <1>0, <2>1, UsageNowKeeps
    <3> QED BY <1>4, <2>1, <3>4, <3>5
  <2> QED BY <1>9, <2>2, <2>3 DEF Find
<1>10. ASSUME NEW c \in Callers, Decide(c) PROVE u + o < f + Others
  <2> DEFINE usage == Usage(call[c].from, call[c].to)
  <2>1. /\ UNCHANGED <<metered, sub, used, accounts>> /\ ~warned /\ call[c].pc = "found"
        /\ ~Approaching(usage, call[c].n, call[c].limit)
    BY <1>0, <1>10 DEF Decide
  <2>2. CASE Moves(c, Idle)
    BY <1>6, <1>7, <2>1, <2>2
  <2>3. CASE /\ Moves(c, [call[c] EXCEPT !.pc = "granted"])
             /\ Fits(usage, call[c].n, call[c].limit)
    <3>1. /\ call'[c] = [call[c] EXCEPT !.pc = "granted"]
          /\ \A d \in Callers \ {c} : call'[d] = call[d]
      BY <1>1, <2>3, MovesTo
    <3>2. call'[c].n = call[c].n /\ call[c].n \in Nat
      BY <1>1, <3>1, CallType DEF TypeOK, Call
    <3>3. u = UsageNow
      BY <1>0, <2>1, UsageNowKeeps
    <3>4. CASE Stale(c)
      <4>1. c \in Loose
        BY <3>4 DEF Loose
      <4>2. o <= s
        BY <1>5, <2>1, <3>1, <3>2, <4>1
      <4> QED BY <1>4, <2>1, <3>3, <4>2
    <3>5. CASE ~Stale(c)
      <4>1. call[c].from = sub.start /\ call[c].limit = sub.limit /\ call[c].to = End(sub)
        BY <1>1, <2>1, <3>5 DEF Stale, CallsKnown, End
      <4>2. sub.limit \in Nat /\ sub.limit # Unlimited /\ f = FourFifths(sub.limit)
        BY <1>0, <2>1
      <4>3. UsageNow + call[c].n < f
        <5>1. ~ UsageNow + call[c].n >= f
          BY <2>1, <2>3, <4>1, <4>2 DEF Approaching, Fits, UsageNow
        <5> QED BY <1>2, <3>2, <5>1
      <4>4. o <= call[c].n + Others
        BY <1>5, <2>1, <3>1, <3>2
      <4> QED BY <1>2, <3>2, <3>3, <4>3, <4>4
    <3> QED BY <3>4, <3>5
  <2> QED BY <1>10, <2>2, <2>3 DEF Decide
<1>11. ASSUME NEW c \in Callers, Use(c) PROVE u + o < f + Others
  <2>1. sub' = sub /\ ~warned /\ call[c].pc = "granted"
    BY <1>0, <1>11 DEF Use
  <2>2. call'[c] = Idle /\ \A d \in Callers \ {c} : call'[d] = call[d]
    BY <1>1, <1>11, MovesTo DEF Use
  <2>3. c \in Loose /\ c \notin Loose'
    BY <1>7, <2>1, <2>2 DEF Loose, Stale
  <2>4. o + call[c].n <= s /\ call[c].n \in Nat
    BY <1>1, <1>5, <2>1, <2>2, <2>3, CallType
  <2>5. u \in {UsageNow, UsageNow + call[c].n}
    <3>1. \A a, b : Usage(a, b)' \in {Usage(a, b), Usage(a, b) + call[c].n}
      BY <1>1, <1>11, UseCounts
    <3> QED BY <1>0, <2>1, <3>1 DEF UsageNow, End, Usage
  <2> QED BY <1>2, <1>3, <2>1, <2>4, <2>5
<1>12. ASSUME NEW c \in Callers, GiveUp(c) PROVE u + o < f + Others
  BY <1>0, <1>6, <1>7, <1>12 DEF GiveUp
<1>13. ASSUME \/ Disconnect \/ Tick \/ EndSubscription \/ SeedFinds \/ UNCHANGED vars
       PROVE  u + o < f + Others
  <2>1. /\ UNCHANGED <<metered, used, call, warned>>
        /\ sub'.start = sub.start /\ sub'.limit = sub.limit
    BY <1>1, <1>13 DEF Disconnect, Tick, EndSubscription, SeedFinds, vars, TypeOK, Subscription
  <2>2. UsageNow' = UsageNow
    BY <1>1, <2>1 DEF UsageNow, Usage, End
  <2>3. Loose' = Loose /\ Amounts' = Amounts
    BY <2>1 DEF Loose, Stale, Amounts
  <2>4. u = UsageNow /\ o = s
    BY <1>0, <2>2, <2>3 DEF s
  <2> QED BY <1>0, <1>2, <1>4, <2>1, <2>4
<1>14. ASSUME SeedCommits PROVE u + o < f + Others
  <2>1. /\ UNCHANGED <<metered, used, call>> /\ sub'.start = seed /\ seed # NoTime
        /\ ~ \E t \in seed..MaxTime : used[t] > 0
    BY <1>0, <1>14 DEF SeedCommits
  <2>2. u = 0
    <3>1. \A t \in Time : seed <= t /\ t < seed + Month => used[t] = 0
      BY <1>1, <2>1 DEF TypeOK, Time
    <3>2. Usage(seed, seed + Month) = 0
      BY <1>1, <3>1, NothingUsed
    <3> QED BY <1>0, <2>1, <3>2 DEF UsageNow, Usage, End
  <2>3. PICK c \in Callers : TRUE
    BY CallersAssumption
  <2>4. o <= call[c].n + Others
    <3> PICK R : R = Loose'
      OBVIOUS
    <3>1. R \in SUBSET Callers /\ Callers \in SUBSET Callers /\ R \ {c} \subseteq Callers
      BY DEF Loose
    <3>2. SumFunctionOnSet(Amounts', R) <= call'[c].n + Others
      BY <1>1, <2>1, <3>1, AmountsMove
    <3> QED BY <1>0, <2>1, <3>2
  <2>5. call[c].n \in Nat /\ call[c].n <= MaxRequest
    BY <1>1, CallType
  <2> QED BY <1>2, <2>2, <2>4, <2>5
<1>15. ASSUME NEW c \in Callers, \/ \E n \in 0..MaxRequest : Ask(c, n)
                                 \/ Find(c) \/ Decide(c) \/ Use(c) \/ GiveUp(c)
       PROVE  u + o < f + Others
  BY <1>8, <1>9, <1>10, <1>11, <1>12, <1>15
<1>16. CASE Next
  BY <1>13, <1>14, <1>15, <1>16 DEF Next
<1> QED BY <1>13, <1>16

LEMMA RefusedWarned ==
    ASSUME Facts, Unannounced, NEW c \in Callers,
           Decide(c), call'[c].pc = "idle", call[c].n = 1, metered,
           call[c].from = sub.start, call[c].limit = sub.limit,
           5 * MaxRequest < 4 * call[c].limit, 5 * Others <= call[c].limit
    PROVE  warned
<1> DEFINE limit == call[c].limit
<1>1. TypeOK /\ CallsKnown
  BY DEF Facts
<1>2. call[c].pc = "found" /\ ~Fits(Usage(call[c].from, call[c].to), call[c].n, limit)
  <2>1. call'[c] = IF Fits(Usage(call[c].from, call[c].to), call[c].n, limit)
                   THEN [call[c] EXCEPT !.pc = "granted"] ELSE Idle
    BY <1>1, MovesTo DEF Decide
  <2>2. [call[c] EXCEPT !.pc = "granted"].pc = "granted"
    BY <1>1 DEF TypeOK, Call
  <2> QED BY <2>1, <2>2 DEF Decide
<1>3. limit \in Nat
  <2>1. limit \in Limits /\ limit # NotConfigured /\ limit # Unlimited
    BY <1>1, <1>2, CallType DEF CallsKnown, Fits
  <2> QED BY <2>1
<1>4. UsageNow = Usage(call[c].from, call[c].to)
  BY <1>1, <1>2 DEF CallsKnown, UsageNow, End
<1>5. ~ UsageNow + 1 <= limit
  BY <1>2, <1>4 DEF Fits
<1>6. /\ UsageNow \in Nat /\ SumFunctionOnSet(Amounts, Loose) \in Nat
      /\ Others \in Nat /\ FourFifths(limit) \in Nat
  BY <1>1, <1>3, UsageType, LooseType, OthersType, FourFifthsIsCeiling DEF UsageNow
<1>7. MaxRequest < FourFifths(limit) /\ limit - FourFifths(limit) >= Others
  <2>1. MaxRequest \in Nat
    BY RequestAssumption
  <2>2. 5 * MaxRequest < 4 * limit /\ 5 * Others <= limit
    OBVIOUS
  <2> HIDE DEF limit
  <2> QED BY <2>1, <2>2, <1>3, <1>6, FourFifthsRounds
<1>8. ASSUME ~warned PROVE UsageNow + SumFunctionOnSet(Amounts, Loose) < FourFifths(limit) + Others
  BY <1>3, <1>7, <1>8 DEF Unannounced
<1> HIDE DEF limit
<1> QED BY <1>3, <1>5, <1>6, <1>7, <1>8

\* Before one unit of a metered resource is refused an answer was
\* "approaching", or the period counts what was used before there was one.
THEOREM WarnsFirst == Spec => WarnedFirst
<1>1. Facts /\ Unannounced /\ [Next]_vars =>
      [\A c \in Callers :
          /\ Decide(c) /\ call'[c].pc = "idle" /\ call[c].n = 1
          /\ metered /\ call[c].from = sub.start /\ call[c].limit = sub.limit
          /\ 5 * MaxRequest < 4 * call[c].limit
          /\ 5 * Others <= call[c].limit
          => warned]_vars
  BY RefusedWarned
<1>2. Init => Facts /\ Unannounced
  BY FactsInit, UnannouncedInit
<1>3. Facts /\ Unannounced /\ [Next]_vars => (Facts /\ Unannounced)'
  BY FactsNext, UnannouncedNext
<1> QED BY <1>1, <1>2, <1>3, PTL DEF Spec, WarnedFirst
=============================================================================
