--------------------------- MODULE RtTimerProofs ---------------------------
(***************************************************************************)
(* The timers, for every number of timers, every width of the tick and     *)
(* every delay that stays below half its range.                            *)
(***************************************************************************)
EXTENDS RtTimer, SequenceTheorems, TLAPS

Lists == INSTANCE RtIpcListProofs WITH Threads <- Timers, FlagPrio <- TRUE

K == TickMax + 1

\* tick is d ticks after now, on the clock that wraps.
Apart(tick, now, d) == tick = now + d \/ tick = now + d + K \/ tick = now + d - K

\* A timer of a list, whose timeout is d ticks away: the tick tells it, and it is
\* near enough to be compared with any other.
Near(tick, now, d) == Apart(tick, now, d) /\ -MaxDelay - 1 <= d /\ d + MaxDelay < Half

Sorted(list, d) ==
    /\ IsInjective(list)
    /\ \A i, j \in 1..Len(list) : i < j => d[list[i]] <= d[list[j]]

Listed == ToSet(rt_timer_list) \cup ToSet(rt_soft_timer_list)

\* The lists.
ListsInv ==
    /\ Sorted(rt_timer_list, due) /\ Sorted(rt_soft_timer_list, due)
    /\ \A t \in Listed : Near(timeout_tick[t], rt_tick, due[t])
    /\ \A t \in ToSet(rt_soft_timer_list) : -MaxDelay <= due[t]
    /\ ~checking => \A t \in ToSet(rt_timer_list) : -MaxDelay <= due[t]

\* A timer that is about to be inserted.
StartInv ==
    \A t \in Timers : pc[t] = "computed" =>
        /\ Apart(timeout_tick[t], rt_tick, due[t])
        /\ init_tick[t] - MaxDelay <= due[t] /\ due[t] <= init_tick[t]

\* The values rt_timer_control sets.
SettingsInv ==
    /\ \A t \in User : init_tick[t] \in Times
    /\ ThreadTimer \notin periodic /\ pc[ThreadTimer] = "idle"

\* The flag, and the stretches in which the timer is in no list.
FlagInv ==
    \A t \in Timers :
        /\ pc[t] \in {"removed", "computed", "stopped"} => t \notin Listed
        /\ pc[t] \in {"idle", "inserted", "stopping"} /\ t \notin Restarts =>
              (t \in activated <=> t \in Listed)

\* The timer thread.
ThreadInv ==
    /\ stat = "delay" <=> ThreadTimer \in ToSet(rt_timer_list)
    /\ stat = "sleep" => /\ rt_soft_timer_list # <<>>
                         /\ next_timeout - MaxDelay <= due[Head(rt_soft_timer_list)]
                         /\ next_timeout + MaxDelay < Half
    /\ stat = "delay" /\ (\A t \in Timers : pc[t] # "inserted") /\ rt_soft_timer_list # <<>> =>
          due[ThreadTimer] <= due[Head(rt_soft_timer_list)] + MaxDelay

\* The timers the timer thread looks at with a tick read e ticks ago.
StaleInv ==
    stat = "check" /\ rt_soft_timer_list # <<>> =>
        \E e \in Nat :
            /\ Apart(current_tick, rt_tick, -e)
            /\ \A t \in ToSet(rt_soft_timer_list) : due[t] + e + MaxDelay < Half

TimerInv == TypeOK /\ ListsInv /\ StartInv /\ SettingsInv /\ FlagInv /\ ThreadInv /\ StaleInv
-----------------------------------------------------------------------------
(* Ticks *)

\* The sizes of the clock and of the delays.
LEMMA Sizes ==
    /\ TickMax \in Nat /\ K \in Nat \ {0} /\ K = TickMax + 1
    /\ Half \in Nat /\ 2 * Half < K
    /\ MaxDelay \in Nat /\ MaxDelay + 1 < Half
  <1>1. TickMax \in Nat /\ MaxDelay \in Nat
    BY TickAssumption
  <1>2. Half \in Nat /\ 2 * Half <= TickMax
    BY <1>1 DEF Half
  <1>3. PICK n \in Times : n \in Nat \ {0} /\ n + MaxDelay < Half
    BY TimesAssumption
  <1>4. MaxDelay + 1 < Half
    BY <1>1, <1>2, <1>3
  <1>. QED  BY <1>1, <1>2, <1>4 DEF K

\* The remainder of a number within one turn of the clock from 0..TickMax.
LEMMA Remainder ==
    ASSUME NEW k \in Nat \ {0}, NEW x \in Int
    PROVE  /\ 0 <= x /\ x < k => x % k = x
           /\ -k <= x /\ x < 0 => x % k = x + k
           /\ k <= x /\ x < 2 * k => x % k = x - k
  OBVIOUS

\* The unsigned difference of two ticks.
LEMMA MinusIs ==
    ASSUME NEW a \in 0..TickMax, NEW b \in 0..TickMax
    PROVE  /\ Minus(a, b) \in Int
           /\ Minus(a, b) = IF b <= a THEN a - b ELSE a - b + K
  <1>1. a - b \in Int /\ -K <= a - b /\ a - b < K
    BY Sizes
  <1>2. /\ 0 <= a - b => (a - b) % K = a - b
        /\ a - b < 0 => (a - b) % K = a - b + K
    BY <1>1, Sizes, Remainder
  <1>3. Minus(a, b) = (a - b) % K
    BY DEF Minus, K
  <1>. QED  BY <1>1, <1>2, <1>3, Sizes

\* Adding a delay to a tick.
LEMMA TickPlus ==
    ASSUME NEW now \in 0..TickMax, NEW n \in Nat, n < Half
    PROVE  /\ (now + n) % (TickMax + 1) \in 0..TickMax
           /\ Apart((now + n) % (TickMax + 1), now, n)
  <1>1. PICK x \in Int : x = now + n
    BY Sizes
  <1>2. /\ 0 <= x /\ x < K => x % K = x
        /\ K <= x /\ x < 2 * K => x % K = x - K
    <2>1. K \in Nat \ {0}
      BY Sizes
    <2>. QED  BY ONLY <2>1, x \in Int, Remainder
  <1>3. (now + n) % (TickMax + 1) = x % K
    BY <1>1, Sizes
  <1>. QED  BY <1>1, <1>2, <1>3, Sizes DEF Apart

\* A check loop with the current tick calls a timer exactly if it is due.
LEMMA ExpiredIffDue ==
    ASSUME NEW now \in 0..TickMax, NEW tick \in 0..TickMax, NEW d \in Int,
           Near(tick, now, d)
    PROVE  Expired(now, tick) <=> d <= 0
  <1>1. PICK m \in Int : m = Minus(now, tick) /\ m = IF tick <= now THEN now - tick ELSE now - tick + K
    BY MinusIs
  <1>2. Expired(now, tick) <=> m < Half
    BY <1>1 DEF Expired
  <1>. QED  BY <1>1, <1>2, Sizes DEF Near, Apart

\* With a tick read e ticks ago it calls no timer early.
LEMMA ExpiredIsDue ==
    ASSUME NEW now \in 0..TickMax, NEW old \in 0..TickMax, NEW tick \in 0..TickMax,
           NEW d \in Int, NEW e \in Nat,
           Near(tick, now, d), Apart(old, now, -e), d + e + MaxDelay < Half,
           Expired(old, tick)
    PROVE  d <= 0
  <1>1. PICK m \in Int : m = Minus(old, tick) /\ m = IF tick <= old THEN old - tick ELSE old - tick + K
    BY MinusIs
  <1>2. m < Half
    BY <1>1 DEF Expired
  <1>. QED  BY <1>1, <1>2, Sizes DEF Near, Apart

\* The comparison of rt_timer_start finds the timers with a later timeout.
LEMMA LaterIffDueLater ==
    ASSUME NEW now \in 0..TickMax, NEW a \in 0..TickMax, NEW b \in 0..TickMax,
           NEW da \in Int, NEW db \in Int,
           Near(a, now, da), Near(b, now, db), -MaxDelay <= db
    PROVE  Minus(a, b) \in 1..(Half - 1) <=> db < da
  <1>1. PICK m \in Int : m = Minus(a, b) /\ m = IF b <= a THEN a - b ELSE a - b + K
    BY MinusIs
  <1>2. Half \in Nat /\ (m \in 1..(Half - 1) <=> 1 <= m /\ m < Half)
    BY <1>1, Sizes
  <1>. QED  BY <1>1, <1>2, Sizes DEF Near, Apart

\* A tick later everything is one tick nearer.
LEMMA TickNearer ==
    ASSUME NEW now \in 0..TickMax, NEW tick \in 0..TickMax, NEW d \in Int,
           Apart(tick, now, d), -Half <= d, d < Half
    PROVE  /\ (now + 1) % (TickMax + 1) \in 0..TickMax
           /\ Apart(tick, (now + 1) % (TickMax + 1), d - 1)
  <1>1. PICK x \in Int : x = now + 1
    BY Sizes
  <1>2. /\ 0 <= x /\ x < K => x % K = x
        /\ K <= x /\ x < 2 * K => x % K = x - K
    <2>1. K \in Nat \ {0}
      BY Sizes
    <2>. QED  BY ONLY <2>1, x \in Int, Remainder
  <1>3. (now + 1) % (TickMax + 1) = x % K
    BY <1>1, Sizes
  <1>. QED  BY <1>1, <1>2, <1>3, Sizes DEF Apart

\* The real distance and the one the ticks tell agree.
LEMMA ApartMinus ==
    ASSUME NEW now \in 0..TickMax, NEW tick \in 0..TickMax, NEW d \in Int,
           Apart(tick, now, d), -K <= d, d < K
    PROVE  Minus(tick, now) = d % (TickMax + 1)
  <1>1. /\ 0 <= d => d % K = d
        /\ d < 0 => d % K = d + K
    BY Sizes, Remainder
  <1>. QED  BY <1>1, MinusIs, Sizes DEF Apart, K

-----------------------------------------------------------------------------
(* Lists *)

\* Taking a timer off a list leaves the others in order.
LEMMA UnlinkProperties ==
    ASSUME NEW list \in Seq(Timers), NEW d, Sorted(list, d), NEW t \in Timers
    PROVE  /\ Unlink(list, t) \in Seq(Timers)
           /\ ToSet(Unlink(list, t)) = ToSet(list) \ {t}
           /\ Sorted(Unlink(list, t), d)
  <1> USE DEF Lists!ToSet, Lists!IsInjective, ToSet, IsInjective
  <1>1. Lists!IsInjective(list) /\ Lists!Ordered(list, d)
    BY DEF Sorted, Lists!Ordered
  <1>2. Unlink(list, t) = Lists!ListRemove(list, t)
    BY DEF Unlink, Lists!ListRemove, RemoveAt, Lists!RemoveAt
  <1>3. /\ Lists!ListRemove(list, t) \in Seq(Timers)
        /\ Lists!ToSet(Lists!ListRemove(list, t)) = Lists!ToSet(list) \ {t}
        /\ Lists!IsInjective(Lists!ListRemove(list, t))
        /\ Lists!Ordered(Lists!ListRemove(list, t), d)
    BY <1>1, Lists!ListRemoveProperties
  <1>. QED  BY <1>2, <1>3 DEF Sorted, Lists!Ordered

\* A list over a set of timers, seen as a list over all of them and back.
LEMMA SeqWiden ==
    ASSUME NEW S, S \subseteq Timers, NEW list \in Seq(S)
    PROVE  list \in Seq(Timers) /\ ToSet(list) \subseteq S
  <1>1. Len(list) \in Nat /\ list \in [1..Len(list) -> S] /\ DOMAIN list = 1..Len(list)
    OBVIOUS
  <1>2. list \in [1..Len(list) -> Timers]
    BY <1>1
  <1>. QED  BY <1>1, <1>2, SeqDef DEF ToSet

\* The converse.
LEMMA SeqNarrow ==
    ASSUME NEW S, NEW list \in Seq(Timers), ToSet(list) \subseteq S
    PROVE  list \in Seq(S)
  <1>1. Len(list) \in Nat /\ list \in [1..Len(list) -> Timers] /\ DOMAIN list = 1..Len(list)
    OBVIOUS
  <1>2. list \in [1..Len(list) -> S]
    BY <1>1 DEF ToSet
  <1>. QED  BY <1>1, <1>2, SeqDef

\* The first timer of a list is the first that is due.
LEMMA HeadIsFirst ==
    ASSUME NEW list \in Seq(Timers), NEW d \in [Timers -> Int], Sorted(list, d), list # <<>>
    PROVE  /\ Head(list) \in ToSet(list)
           /\ \A t \in ToSet(list) : d[Head(list)] <= d[t]
  <1>1. 1 \in 1..Len(list) /\ Head(list) = list[1]
    OBVIOUS
  <1>2. Head(list) \in ToSet(list)
    BY <1>1 DEF ToSet
  <1>3. ASSUME NEW t \in ToSet(list) PROVE d[Head(list)] <= d[t]
    <2>1. PICK i \in 1..Len(list) : list[i] = t
      BY DEF ToSet
    <2>2. i = 1 \/ 1 < i
      OBVIOUS
    <2>3. d[list[1]] \in Int
      BY <1>1
    <2>. QED  BY <1>1, <2>1, <2>2, <2>3 DEF Sorted
  <1>. QED  BY <1>2, <1>3

\* Calling the first timer takes it off the list.
LEMMA TailSorted ==
    ASSUME NEW list \in Seq(Timers), NEW d, Sorted(list, d), list # <<>>
    PROVE  /\ Tail(list) \in Seq(Timers)
           /\ ToSet(Tail(list)) = ToSet(list) \ {Head(list)}
           /\ Sorted(Tail(list), d)
  <1> USE DEF Lists!ToSet, Lists!IsInjective, ToSet, IsInjective
  <1>1. Lists!IsInjective(list) /\ Lists!Ordered(list, d)
    BY DEF Sorted, Lists!Ordered
  <1>2. /\ Tail(list) \in Seq(Timers)
        /\ Lists!ToSet(Tail(list)) = Lists!ToSet(list) \ {Head(list)}
        /\ Lists!IsInjective(Tail(list))
        /\ Lists!Ordered(Tail(list), d)
    BY <1>1, Lists!TailProperties
  <1>. QED  BY <1>2 DEF Sorted, Lists!Ordered

\* Only the distances of the listed timers matter, and only their differences.
LEMMA SortedShift ==
    ASSUME NEW list \in Seq(Timers), NEW d \in [Timers -> Int], NEW d2 \in [Timers -> Int],
           NEW c \in Int, Sorted(list, d), \A t \in ToSet(list) : d2[t] = d[t] - c
    PROVE  Sorted(list, d2)
  <1>1. \A i \in 1..Len(list) : d2[list[i]] = d[list[i]] - c /\ d[list[i]] \in Int
    BY DEF ToSet
  <1>. QED  BY <1>1 DEF Sorted

\* The search of rt_timer_start keeps a list in the order of the timeouts.
LEMMA InsertProperties ==
    ASSUME NEW list \in Seq(Timers), NEW t \in Timers, t \notin ToSet(list),
           NEW tick \in [Timers -> 0..TickMax], NEW d \in [Timers -> Int], NEW now \in 0..TickMax,
           Sorted(list, d), \A u \in ToSet(list) : Near(tick[u], now, d[u]),
           Near(tick[t], now, d[t]), -MaxDelay <= d[t]
    PROVE  /\ Insert(list, t, tick) \in Seq(Timers)
           /\ ToSet(Insert(list, t, tick)) = ToSet(list) \cup {t}
           /\ Sorted(Insert(list, t, tick), d)
  <1>1. ASSUME NEW i \in 1..Len(list)
        PROVE  Minus(tick[list[i]], tick[t]) \in 1..(Half - 1) <=> d[t] < d[list[i]]
    <2>1. list[i] \in ToSet(list) /\ list[i] \in Timers
      BY DEF ToSet
    <2>2. /\ tick[list[i]] \in 0..TickMax /\ tick[t] \in 0..TickMax
          /\ d[list[i]] \in Int /\ d[t] \in Int
          /\ Near(tick[list[i]], now, d[list[i]])
      BY <2>1
    <2>. QED  BY <2>2, LaterIffDueLater
  <1>2. Insert(list, t, tick) = Lists!ListSuspend(list, t, d)
    <2>1. {i \in 1..Len(list) : Minus(tick[list[i]], tick[t]) \in 1..(Half - 1)} \cup {Len(list) + 1}
            = Lists!InsertPositions(list, t, d)
      BY <1>1 DEF Lists!InsertPositions
    <2>. QED
      BY <2>1 DEF Insert, FirstOf, Lists!ListSuspend, InsertAt, Lists!InsertAt, Min, Lists!Min
  <1>3. /\ Lists!IsInjective(list) /\ Lists!Ordered(list, d) /\ t \notin Lists!ToSet(list)
    BY DEF Sorted, Lists!Ordered, Lists!ToSet, Lists!IsInjective, ToSet, IsInjective
  <1>4. /\ Lists!ListSuspend(list, t, d) \in Seq(Timers)
        /\ Lists!ToSet(Lists!ListSuspend(list, t, d)) = Lists!ToSet(list) \cup {t}
        /\ Lists!IsInjective(Lists!ListSuspend(list, t, d))
        /\ Lists!Ordered(Lists!ListSuspend(list, t, d), d)
    BY <1>3, Lists!ListSuspendProperties
  <1>5. PICK new : new = Insert(list, t, tick)
    OBVIOUS
  <1>6. ToSet(new) = ToSet(list) \cup {t}
    BY <1>2, <1>4, <1>5 DEF Lists!ToSet, ToSet
  <1>7. Sorted(new, d)
    BY <1>2, <1>4, <1>5 DEF Sorted, Lists!Ordered, Lists!IsInjective, IsInjective
  <1>. QED  BY <1>2, <1>4, <1>5, <1>6, <1>7

-----------------------------------------------------------------------------
(* What the parts of the actions do to the invariant *)

\* The lists, in a form for the lemmas above.
LEMMA ListTypes ==
    ASSUME TimerInv
    PROVE  /\ Hard \subseteq Timers /\ Soft \subseteq Timers /\ Hard \cap Soft = {}
           /\ rt_timer_list \in Seq(Timers) /\ ToSet(rt_timer_list) \subseteq Hard
           /\ rt_soft_timer_list \in Seq(Timers) /\ ToSet(rt_soft_timer_list) \subseteq Soft
           /\ ThreadTimer \in Hard /\ ThreadTimer \notin Restarts
  <1>1. /\ Hard \subseteq Timers /\ Soft \subseteq Timers /\ Hard \cap Soft = {}
        /\ ThreadTimer \in Hard /\ ThreadTimer \notin Restarts
    BY TimersAssumption DEF Hard
  <1>2. rt_timer_list \in Seq(Hard) /\ rt_soft_timer_list \in Seq(Soft)
    BY DEF TimerInv, TypeOK
  <1>. QED  BY <1>1, <1>2, SeqWiden

\* An empty list has no timer.
LEMMA EmptyList == ToSet(<<>>) = {}
  BY DEF ToSet

\* What is left when one timer is taken off its list, and nothing else changes.
Without(t) ==
    /\ rt_timer_list' \in Seq(Hard) /\ rt_soft_timer_list' \in Seq(Soft)
    /\ timeout_tick' \in [Timers -> 0..TickMax] /\ due' \in [Timers -> Int]
    /\ ToSet(rt_timer_list') = ToSet(rt_timer_list) \ {t}
    /\ ToSet(rt_soft_timer_list') = ToSet(rt_soft_timer_list) \ {t}
    /\ \A u \in Timers : u # t => due'[u] = due[u] /\ timeout_tick'[u] = timeout_tick[u]
    /\ ListsInv'
    /\ rt_soft_timer_list' # <<>> =>
          /\ rt_soft_timer_list # <<>>
          /\ due[Head(rt_soft_timer_list)] <= due'[Head(rt_soft_timer_list')]
          /\ due'[Head(rt_soft_timer_list')] \in Int /\ due[Head(rt_soft_timer_list)] \in Int

\* _rt_timer_remove takes one timer off its list and nothing else.
LEMMA Removed ==
    ASSUME TimerInv, NEW t \in Timers, _rt_timer_remove(t), UNCHANGED <<rt_tick, checking>>
    PROVE  Without(t)
  <1>1. PICK hard, soft : hard = Unlink(rt_timer_list, t) /\ soft = Unlink(rt_soft_timer_list, t)
    OBVIOUS
  <1>2. rt_timer_list' = hard /\ rt_soft_timer_list' = soft
    BY <1>1 DEF _rt_timer_remove
  <1>3. /\ timeout_tick \in [Timers -> 0..TickMax] /\ due \in [Timers -> Int]
        /\ Sorted(rt_timer_list, due) /\ Sorted(rt_soft_timer_list, due)
    BY DEF TimerInv, TypeOK, ListsInv
  <1>4. /\ hard \in Seq(Timers) /\ ToSet(hard) = ToSet(rt_timer_list) \ {t} /\ Sorted(hard, due)
        /\ soft \in Seq(Timers) /\ ToSet(soft) = ToSet(rt_soft_timer_list) \ {t} /\ Sorted(soft, due)
    BY <1>1, <1>3, ListTypes, UnlinkProperties
  <1>5. hard \in Seq(Hard) /\ soft \in Seq(Soft)
    BY <1>4, ListTypes, SeqNarrow
  <1>6. /\ timeout_tick' \in [Timers -> 0..TickMax] /\ due' \in [Timers -> Int]
        /\ \A u \in Timers : u # t => due'[u] = due[u] /\ timeout_tick'[u] = timeout_tick[u]
    BY <1>3, Sizes DEF _rt_timer_remove
  <1>7. Sorted(hard, due') /\ Sorted(soft, due')
    <2>1. \A u \in ToSet(hard) \cup ToSet(soft) : due'[u] = due[u] - 0
      BY <1>3, <1>4, <1>6, ListTypes
    <2>2. PICK d : d = due'
      OBVIOUS
    <2>3. /\ d \in [Timers -> Int] /\ 0 \in Int
          /\ \A u \in ToSet(hard) : d[u] = due[u] - 0
          /\ \A u \in ToSet(soft) : d[u] = due[u] - 0
      BY <1>6, <2>1, <2>2
    <2>4. Sorted(hard, d)
      BY <1>3, <1>4, <2>3, SortedShift
    <2>5. Sorted(soft, d)
      BY <1>3, <1>4, <2>3, SortedShift
    <2>. QED  BY <2>2, <2>4, <2>5
  <1>8. \A u \in ToSet(hard) \cup ToSet(soft) :
           u \in Listed /\ u \in Timers /\ due'[u] = due[u] /\ timeout_tick'[u] = timeout_tick[u]
    BY <1>4, <1>6, ListTypes DEF Listed
  <1>9. ListsInv'
    <2>1. \A u \in Listed' : Near(timeout_tick[u], rt_tick, due[u])'
      BY <1>2, <1>8 DEF TimerInv, ListsInv, Listed, Near, Apart
    <2>2. \A u \in ToSet(soft) : -MaxDelay <= due'[u]
      BY <1>4, <1>8 DEF TimerInv, ListsInv
    <2>3. ~checking => \A u \in ToSet(hard) : -MaxDelay <= due'[u]
      BY <1>4, <1>8 DEF TimerInv, ListsInv
    <2>. QED  BY <1>2, <1>7, <2>1, <2>2, <2>3 DEF ListsInv
  <1>10. ASSUME soft # <<>>
         PROVE  /\ rt_soft_timer_list # <<>>
                /\ due[Head(rt_soft_timer_list)] <= due'[Head(soft)]
                /\ due'[Head(soft)] \in Int /\ due[Head(rt_soft_timer_list)] \in Int
    <2>1. Head(soft) \in ToSet(soft)
      BY <1>3, <1>4, <1>10, HeadIsFirst
    <2>2. /\ Head(soft) \in ToSet(rt_soft_timer_list) /\ due'[Head(soft)] = due[Head(soft)]
          /\ Head(soft) \in Timers
      BY <1>4, <1>8, <2>1
    <2>3. rt_soft_timer_list # <<>>
      BY <2>2, EmptyList
    <2>4. /\ Head(rt_soft_timer_list) \in ToSet(rt_soft_timer_list)
          /\ due[Head(rt_soft_timer_list)] <= due[Head(soft)]
      BY <1>3, <2>2, <2>3, ListTypes, HeadIsFirst
    <2>5. Head(rt_soft_timer_list) \in Timers
      BY <2>4, ListTypes
    <2>. QED  BY <1>3, <2>2, <2>3, <2>4, <2>5
  <1>. QED  BY <1>2, <1>4, <1>5, <1>6, <1>9, <1>10 DEF Without

\* Where the caller of a timer may be.
Places == {"idle", "removed", "computed", "inserted", "stopping", "stopped"}

\* A call moves the place of its own timer only.
LEMMA Moved ==
    ASSUME TypeOK, NEW t \in Timers, NEW to \in Places, pc' = [pc EXCEPT ![t] = to]
    PROVE  /\ pc' \in [Timers -> Places] /\ pc'[t] = to
           /\ \A u \in Timers : u # t => pc'[u] = pc[u]
  BY DEF TypeOK, Places

\* rt_timer_start and rt_timer_stop take the timer off its list.
LEMMA UnlinkStep ==
    ASSUME TimerInv, NEW t \in User, rt_timer_start(t) \/ StopRemove(t)
    PROVE  TimerInv'
  <1>1. t \in Timers /\ t # ThreadTimer /\ ThreadTimer \in Timers
    BY TimersAssumption DEF User
  <1>2. /\ _rt_timer_remove(t) /\ ThreadsRun /\ called' = {}
        /\ UNCHANGED <<rt_tick, checking, periodic, init_tick, stat, current_tick, next_timeout>>
        /\ activated' \subseteq activated /\ activated' \cup {t} = activated \cup {t}
    BY DEF rt_timer_start, StopRemove, At, thread, settings
  <1>3. /\ pc' \in [Timers -> Places] /\ pc'[t] \in {"removed", "stopped"}
        /\ \A u \in Timers : u # t => pc'[u] = pc[u]
    <2>1. pc' = [pc EXCEPT ![t] = "removed"] \/ pc' = [pc EXCEPT ![t] = "stopped"]
      BY DEF rt_timer_start, StopRemove, At
    <2>2. TypeOK /\ "removed" \in Places /\ "stopped" \in Places
      BY DEF TimerInv, Places
    <2>. QED  BY <1>1, <2>1, <2>2, Moved
  <1>4. Without(t)
    BY <1>1, <1>2, Removed
  <1>5. TypeOK'
    BY <1>2, <1>3, <1>4 DEF TimerInv, TypeOK, Without, Places
  <1>6. StartInv'
    <2>1. \A u \in Timers : pc'[u] = "computed" =>
             u # t /\ pc[u] = "computed" /\ due'[u] = due[u] /\ timeout_tick'[u] = timeout_tick[u]
      BY <1>3, <1>4 DEF Without
    <2>. QED  BY <1>2, <2>1 DEF TimerInv, StartInv, Apart
  <1>7. SettingsInv'
    BY <1>1, <1>2, <1>3 DEF TimerInv, SettingsInv
  <1>8. FlagInv'
    BY <1>1, <1>2, <1>3, <1>4 DEF TimerInv, FlagInv, Listed, Without
  <1>9. ThreadInv'
    <2>1. due'[ThreadTimer] = due[ThreadTimer] /\ due[ThreadTimer] \in Int /\ MaxDelay \in Nat
      BY <1>1, <1>4, Sizes DEF Without, TimerInv, TypeOK
    <2>2. (stat' = "delay" <=> ThreadTimer \in ToSet(rt_timer_list')) /\ stat' # "sleep"
      BY <1>1, <1>2, <1>4 DEF Without, TimerInv, ThreadInv, ThreadsRun
    <2>3. (\A u \in Timers : pc'[u] # "inserted") => \A u \in Timers : pc[u] # "inserted"
      <3>1. pc[t] # "inserted"
        BY DEF rt_timer_start, StopRemove, At
      <3>. QED  BY <1>3, <3>1
    <2>. QED  BY <1>2, <1>4, <2>1, <2>2, <2>3 DEF Without, TimerInv, ThreadInv
  <1>10. StaleInv'
    BY <1>2 DEF StaleInv, ThreadsRun
  <1>. QED  BY <1>4, <1>5, <1>6, <1>7, <1>8, <1>9, <1>10 DEF TimerInv, Without

\* After a soft timer rt_timer_start resumes the timer thread.
LEMMA ResumeStep ==
    ASSUME TimerInv, NEW t \in User, StartResume(t)
    PROVE  TimerInv'
  <1>1. t \in Timers /\ t # ThreadTimer /\ ThreadTimer \in Timers
    BY TimersAssumption DEF User
  <1>2. /\ _rt_timer_remove(ThreadTimer) /\ called' = {} /\ stat' = "enter"
        /\ UNCHANGED <<rt_tick, checking, periodic, init_tick, current_tick, next_timeout>>
        /\ activated' = activated \ {ThreadTimer}
    BY DEF StartResume, At, settings
  <1>3. /\ pc' \in [Timers -> Places] /\ pc'[t] = "idle" /\ pc[t] = "inserted"
        /\ \A u \in Timers : u # t => pc'[u] = pc[u]
    BY <1>1, Moved DEF StartResume, At, TimerInv, Places
  <1>4. Without(ThreadTimer)
    BY <1>1, <1>2, Removed
  <1>5. TypeOK'
    BY <1>2, <1>3, <1>4 DEF TimerInv, TypeOK, Without, Places
  <1>6. StartInv'
    <2>1. \A u \in Timers : pc'[u] = "computed" =>
             u # ThreadTimer /\ pc[u] = "computed"
      BY <1>3 DEF TimerInv, SettingsInv
    <2>2. \A u \in Timers : pc'[u] = "computed" =>
             due'[u] = due[u] /\ timeout_tick'[u] = timeout_tick[u]
      BY <1>4, <2>1 DEF Without
    <2>. QED  BY <1>2, <2>1, <2>2 DEF TimerInv, StartInv, Apart
  <1>7. SettingsInv'
    BY <1>1, <1>2, <1>3 DEF TimerInv, SettingsInv
  <1>8. FlagInv'
    <2>1. Listed' = Listed \ {ThreadTimer}
      BY <1>4 DEF Without, Listed
    <2>. QED  BY <1>1, <1>2, <1>3, <2>1 DEF TimerInv, FlagInv
  <1>9. ThreadInv'
    BY <1>2, <1>4 DEF Without, ThreadInv
  <1>10. StaleInv'
    BY <1>2 DEF StaleInv
  <1>. QED  BY <1>4, <1>5, <1>6, <1>7, <1>8, <1>9, <1>10 DEF TimerInv, Without

\* rt_timer_start computes the timeout of a timer that is in no list.
LEMMA ComputeStep ==
    ASSUME TimerInv, NEW t \in User, StartCompute(t)
    PROVE  TimerInv'
  <1>1. t \in Timers /\ t # ThreadTimer /\ ThreadTimer \in Timers
    BY TimersAssumption DEF User
  <1>2. /\ ThreadsRun /\ called' = {} /\ pc[t] = "removed"
        /\ timeout_tick' = [timeout_tick EXCEPT ![t] = (rt_tick + init_tick[t]) % (TickMax + 1)]
        /\ due' = [due EXCEPT ![t] = init_tick[t]]
        /\ UNCHANGED <<rt_tick, rt_timer_list, rt_soft_timer_list, checking, activated, periodic,
                       init_tick, stat, current_tick, next_timeout>>
    BY DEF StartCompute, At, settings, thread, lists
  <1>3. /\ pc' \in [Timers -> Places] /\ pc'[t] = "computed"
        /\ \A u \in Timers : u # t => pc'[u] = pc[u]
    BY <1>1, Moved DEF StartCompute, At, TimerInv, Places
  <1>4. init_tick[t] \in Nat /\ init_tick[t] < Half /\ rt_tick \in 0..TickMax
    <2>1. init_tick[t] \in Times /\ rt_tick \in 0..TickMax
      BY DEF TimerInv, TypeOK, SettingsInv
    <2>2. init_tick[t] \in Nat /\ init_tick[t] + MaxDelay < Half
      BY <2>1, TimesAssumption
    <2>. QED  BY <2>1, <2>2, Sizes
  <1>5. /\ (rt_tick + init_tick[t]) % (TickMax + 1) \in 0..TickMax
        /\ Apart((rt_tick + init_tick[t]) % (TickMax + 1), rt_tick, init_tick[t])
    BY <1>4, TickPlus
  <1>6. /\ timeout_tick' \in [Timers -> 0..TickMax] /\ due' \in [Timers -> Int]
        /\ timeout_tick'[t] = (rt_tick + init_tick[t]) % (TickMax + 1) /\ due'[t] = init_tick[t]
        /\ \A u \in Timers : u # t => due'[u] = due[u] /\ timeout_tick'[u] = timeout_tick[u]
    BY <1>1, <1>2, <1>4, <1>5 DEF TimerInv, TypeOK
  <1>7. TypeOK'
    BY <1>2, <1>3, <1>6 DEF TimerInv, TypeOK, Places
  <1>8. t \notin Listed /\ Listed' = Listed /\ Listed \subseteq Timers
    BY <1>1, <1>2, ListTypes DEF TimerInv, FlagInv, Listed
  <1>9. ListsInv'
    <2>1. \A u \in Listed : u \in Timers /\ due'[u] = due[u] /\ timeout_tick'[u] = timeout_tick[u]
      BY <1>6, <1>8
    <2>2. PICK d : d = due' /\ d \in [Timers -> Int] /\ 0 \in Int /\ due \in [Timers -> Int]
      BY <1>6 DEF TimerInv, TypeOK
    <2>3. /\ \A u \in ToSet(rt_timer_list) : d[u] = due[u] - 0
          /\ \A u \in ToSet(rt_soft_timer_list) : d[u] = due[u] - 0
      BY <2>1, <2>2 DEF Listed
    <2>4. Sorted(rt_timer_list, due) /\ Sorted(rt_soft_timer_list, due)
      BY DEF TimerInv, ListsInv
    <2>5. Sorted(rt_timer_list, d)
      BY <2>2, <2>3, <2>4, ListTypes, SortedShift
    <2>6. Sorted(rt_soft_timer_list, d)
      BY <2>2, <2>3, <2>4, ListTypes, SortedShift
    <2>7. \A u \in Listed' : Near(timeout_tick[u], rt_tick, due[u])'
      BY <1>2, <1>8, <2>1 DEF TimerInv, ListsInv, Near, Apart
    <2>8. /\ \A u \in ToSet(rt_soft_timer_list) : -MaxDelay <= due'[u]
          /\ ~checking => \A u \in ToSet(rt_timer_list) : -MaxDelay <= due'[u]
      BY <2>1 DEF TimerInv, ListsInv, Listed
    <2>. QED  BY <1>2, <2>2, <2>5, <2>6, <2>7, <2>8 DEF ListsInv
  <1>10. StartInv'
    <2>1. ASSUME NEW u \in Timers, pc'[u] = "computed", u # t
          PROVE  /\ Apart(timeout_tick'[u], rt_tick', due'[u])
                 /\ init_tick'[u] - MaxDelay <= due'[u] /\ due'[u] <= init_tick'[u]
      BY <1>2, <1>3, <1>6, <2>1 DEF TimerInv, StartInv
    <2>2. /\ Apart(timeout_tick'[t], rt_tick', due'[t])
          /\ init_tick'[t] - MaxDelay <= due'[t] /\ due'[t] <= init_tick'[t]
      BY <1>2, <1>4, <1>5, <1>6, Sizes
    <2>. QED  BY <2>1, <2>2 DEF StartInv, Apart
  <1>11. SettingsInv'
    BY <1>1, <1>2, <1>3 DEF TimerInv, SettingsInv
  <1>12. FlagInv'
    BY <1>1, <1>2, <1>3, <1>8 DEF TimerInv, FlagInv
  <1>13. ThreadInv'
    <2>1. stat' # "sleep" /\ due'[ThreadTimer] = due[ThreadTimer]
      BY <1>1, <1>2, <1>6 DEF ThreadsRun
    <2>2. rt_soft_timer_list # <<>> => due'[Head(rt_soft_timer_list)] = due[Head(rt_soft_timer_list)]
      <3>1. Sorted(rt_soft_timer_list, due) /\ due \in [Timers -> Int]
        BY DEF TimerInv, ListsInv, TypeOK
      <3>2. rt_soft_timer_list # <<>> => Head(rt_soft_timer_list) \in Listed
        BY <3>1, ListTypes, HeadIsFirst DEF Listed
      <3>. QED  BY <1>6, <1>8, <3>2
    <2>3. (\A u \in Timers : pc'[u] # "inserted") => \A u \in Timers : pc[u] # "inserted"
      BY <1>1, <1>2, <1>3
    <2>. QED  BY <1>2, <2>1, <2>2, <2>3 DEF TimerInv, ThreadInv
  <1>14. StaleInv'
    BY <1>2 DEF StaleInv, ThreadsRun
  <1>. QED  BY <1>7, <1>9, <1>10, <1>11, <1>12, <1>13, <1>14 DEF TimerInv

\* rt_timer_start inserts the timer, however many ticks after it computed the
\* timeout.
LEMMA InsertStep ==
    ASSUME TimerInv, NEW t \in User, StartInsert(t)
    PROVE  TimerInv'
  <1>1. t \in Timers /\ t # ThreadTimer /\ ThreadTimer \in Timers
    BY TimersAssumption DEF User
  <1>2. /\ ThreadsRun /\ called' = {} /\ pc[t] = "computed"
        /\ activated' = activated \cup {t}
        /\ UNCHANGED <<rt_tick, checking, periodic, init_tick, stat, current_tick, next_timeout,
                       timeout_tick, due>>
    BY DEF StartInsert, At, settings, thread
  <1>3. /\ pc' \in [Timers -> Places] /\ pc'[t] = (IF t \in Soft THEN "inserted" ELSE "idle")
        /\ \A u \in Timers : u # t => pc'[u] = pc[u]
    <2>1. "inserted" \in Places /\ "idle" \in Places
      BY DEF Places
    <2>2. pc' = [pc EXCEPT ![t] = IF t \in Soft THEN "inserted" ELSE "idle"]
      BY DEF StartInsert, At
    <2>3. TypeOK
      BY DEF TimerInv
    <2>4. CASE t \in Soft
      BY <1>1, <2>1, <2>2, <2>3, <2>4, Moved
    <2>5. CASE t \notin Soft
      BY <1>1, <2>1, <2>2, <2>3, <2>5, Moved
    <2>. QED  BY <2>4, <2>5
  <1>4. t \notin Listed /\ Listed \subseteq Timers
    BY <1>1, <1>2, ListTypes DEF TimerInv, FlagInv, Listed
  <1>5. /\ timeout_tick \in [Timers -> 0..TickMax] /\ due \in [Timers -> Int]
        /\ rt_tick \in 0..TickMax
        /\ Sorted(rt_timer_list, due) /\ Sorted(rt_soft_timer_list, due)
        /\ \A u \in Listed : Near(timeout_tick[u], rt_tick, due[u])
    BY DEF TimerInv, TypeOK, ListsInv
  <1>6. Near(timeout_tick[t], rt_tick, due[t]) /\ -MaxDelay <= due[t]
    <2>1. init_tick[t] \in Times
      BY DEF TimerInv, SettingsInv
    <2>2. init_tick[t] \in Nat \ {0} /\ init_tick[t] + MaxDelay < Half
      BY <2>1, TimesAssumption
    <2>3. /\ Apart(timeout_tick[t], rt_tick, due[t])
          /\ init_tick[t] - MaxDelay <= due[t] /\ due[t] <= init_tick[t] /\ due[t] \in Int
      BY <1>1, <1>2, <1>5 DEF TimerInv, StartInv
    <2>. QED  BY <2>2, <2>3, Sizes DEF Near
  <1>7. CASE t \in Soft
    <2>1. PICK new : new = Insert(rt_soft_timer_list, t, timeout_tick)
      OBVIOUS
    <2>2. rt_soft_timer_list' = new /\ rt_timer_list' = rt_timer_list
      BY <1>7, <2>1 DEF StartInsert
    <2>3. /\ new \in Seq(Timers) /\ ToSet(new) = ToSet(rt_soft_timer_list) \cup {t}
          /\ Sorted(new, due)
      <3>1. t \notin ToSet(rt_soft_timer_list)
        BY <1>4 DEF Listed
      <3>2. \A u \in ToSet(rt_soft_timer_list) : Near(timeout_tick[u], rt_tick, due[u])
        BY <1>5 DEF Listed
      <3>. QED  BY <1>1, <1>5, <1>6, <2>1, <3>1, <3>2, ListTypes, InsertProperties
    <2>4. new \in Seq(Soft) /\ Listed' = Listed \cup {t}
      BY <1>7, <2>2, <2>3, ListTypes, SeqNarrow DEF Listed
    <2>5. TypeOK'
      BY <1>1, <1>2, <1>3, <2>2, <2>4 DEF TimerInv, TypeOK, Places
    <2>6. ListsInv'
      <3>1. \A u \in Listed' : Near(timeout_tick[u], rt_tick, due[u])'
        BY <1>2, <1>5, <1>6, <2>4 DEF Near, Apart
      <3>2. \A u \in ToSet(new) : -MaxDelay <= due[u]
        BY <1>6, <2>3 DEF TimerInv, ListsInv
      <3>. QED  BY <1>2, <1>5, <2>2, <2>3, <3>1, <3>2 DEF TimerInv, ListsInv
    <2>7. StartInv'
      BY <1>2, <1>3, <1>7 DEF TimerInv, StartInv, Apart
    <2>8. SettingsInv'
      BY <1>1, <1>2, <1>3 DEF TimerInv, SettingsInv
    <2>9. FlagInv'
      BY <1>1, <1>2, <1>3, <1>7, <2>4 DEF TimerInv, FlagInv
    <2>10. ThreadInv'
      <3>1. pc'[t] = "inserted"
        BY <1>3, <1>7
      <3>. QED  BY <1>1, <1>2, <2>2, <3>1 DEF TimerInv, ThreadInv, ThreadsRun
    <2>11. StaleInv'
      BY <1>2 DEF StaleInv, ThreadsRun
    <2>. QED  BY <2>5, <2>6, <2>7, <2>8, <2>9, <2>10, <2>11 DEF TimerInv
  <1>8. CASE t \notin Soft
    <2>1. PICK new : new = Insert(rt_timer_list, t, timeout_tick)
      OBVIOUS
    <2>2. rt_timer_list' = new /\ rt_soft_timer_list' = rt_soft_timer_list
      BY <1>8, <2>1 DEF StartInsert
    <2>3. /\ new \in Seq(Timers) /\ ToSet(new) = ToSet(rt_timer_list) \cup {t}
          /\ Sorted(new, due)
      <3>1. t \notin ToSet(rt_timer_list)
        BY <1>4 DEF Listed
      <3>2. \A u \in ToSet(rt_timer_list) : Near(timeout_tick[u], rt_tick, due[u])
        BY <1>5 DEF Listed
      <3>. QED  BY <1>1, <1>5, <1>6, <2>1, <3>1, <3>2, ListTypes, InsertProperties
    <2>4. new \in Seq(Hard) /\ Listed' = Listed \cup {t}
      <3>1. t \in Hard
        BY <1>1, <1>8 DEF Hard
      <3>. QED  BY <2>2, <2>3, <3>1, ListTypes, SeqNarrow DEF Listed
    <2>5. TypeOK'
      BY <1>1, <1>2, <1>3, <2>2, <2>4 DEF TimerInv, TypeOK, Places
    <2>6. ListsInv'
      <3>1. \A u \in Listed' : Near(timeout_tick[u], rt_tick, due[u])'
        BY <1>2, <1>5, <1>6, <2>4 DEF Near, Apart
      <3>2. ~checking => \A u \in ToSet(new) : -MaxDelay <= due[u]
        BY <1>6, <2>3 DEF TimerInv, ListsInv
      <3>. QED  BY <1>2, <1>5, <2>2, <2>3, <3>1, <3>2 DEF TimerInv, ListsInv
    <2>7. StartInv'
      BY <1>2, <1>3, <1>8 DEF TimerInv, StartInv, Apart
    <2>8. SettingsInv'
      BY <1>1, <1>2, <1>3 DEF TimerInv, SettingsInv
    <2>9. FlagInv'
      BY <1>1, <1>2, <1>3, <1>8, <2>4 DEF TimerInv, FlagInv
    <2>10. ThreadInv'
      <3>1. (\A u \in Timers : pc'[u] # "inserted") => \A u \in Timers : pc[u] # "inserted"
        BY <1>1, <1>2, <1>3
      <3>2. ThreadTimer \in ToSet(new) <=> ThreadTimer \in ToSet(rt_timer_list)
        BY <1>1, <2>3
      <3>. QED  BY <1>2, <2>2, <3>1, <3>2 DEF TimerInv, ThreadInv, ThreadsRun
    <2>11. StaleInv'
      BY <1>2 DEF StaleInv, ThreadsRun
    <2>. QED  BY <2>5, <2>6, <2>7, <2>8, <2>9, <2>10, <2>11 DEF TimerInv
  <1>. QED  BY <1>7, <1>8

\* rt_thread_delay: the timer thread starts its own timer and is suspended.
LEMMA SleepStep ==
    ASSUME TimerInv, rt_thread_sleep
    PROVE  TimerInv'
  <1>1. ThreadTimer \in Timers /\ ThreadTimer \in Hard
    BY ListTypes, TimersAssumption
  <1>2. PICK tick, d :
          /\ tick = [timeout_tick EXCEPT ![ThreadTimer] = (rt_tick + next_timeout) % (TickMax + 1)]
          /\ d = [due EXCEPT ![ThreadTimer] = next_timeout]
    OBVIOUS
  <1>3. /\ stat = "sleep" /\ stat' = "delay" /\ ~checking
        /\ init_tick' = [init_tick EXCEPT ![ThreadTimer] = next_timeout]
        /\ timeout_tick' = tick /\ due' = d
        /\ rt_timer_list' = Insert(rt_timer_list, ThreadTimer, tick)
        /\ activated' = activated \cup {ThreadTimer}
        /\ next_timeout' = 0 /\ called' = {}
        /\ UNCHANGED <<rt_tick, rt_soft_timer_list, checking, periodic, pc, current_tick>>
    BY <1>2 DEF rt_thread_sleep
  <1>4. /\ next_timeout \in Nat /\ next_timeout < Half /\ next_timeout + MaxDelay < Half
        /\ rt_tick \in 0..TickMax
        /\ rt_soft_timer_list # <<>>
        /\ next_timeout - MaxDelay <= due[Head(rt_soft_timer_list)]
    BY <1>3, Sizes DEF TimerInv, TypeOK, ThreadInv
  <1>5. /\ (rt_tick + next_timeout) % (TickMax + 1) \in 0..TickMax
        /\ Apart((rt_tick + next_timeout) % (TickMax + 1), rt_tick, next_timeout)
    BY <1>4, TickPlus
  <1>6. /\ tick \in [Timers -> 0..TickMax] /\ d \in [Timers -> Int]
        /\ tick[ThreadTimer] = (rt_tick + next_timeout) % (TickMax + 1) /\ d[ThreadTimer] = next_timeout
        /\ \A u \in Timers : u # ThreadTimer => d[u] = due[u] /\ tick[u] = timeout_tick[u]
    BY <1>1, <1>2, <1>4, <1>5 DEF TimerInv, TypeOK
  <1>7. /\ ThreadTimer \notin Listed /\ Listed \subseteq Timers
        /\ ThreadTimer \notin ToSet(rt_timer_list) /\ ThreadTimer \notin ToSet(rt_soft_timer_list)
    BY <1>1, <1>3, ListTypes DEF TimerInv, ThreadInv, Listed
  <1>8. /\ due \in [Timers -> Int] /\ 0 \in Int
        /\ Sorted(rt_timer_list, due) /\ Sorted(rt_soft_timer_list, due)
        /\ \A u \in Listed : u \in Timers /\ d[u] = due[u] /\ tick[u] = timeout_tick[u]
        /\ \A u \in Listed : Near(tick[u], rt_tick, d[u])
    <2>1. /\ due \in [Timers -> Int] /\ 0 \in Int
          /\ Sorted(rt_timer_list, due) /\ Sorted(rt_soft_timer_list, due)
          /\ \A u \in Listed : Near(timeout_tick[u], rt_tick, due[u])
      BY DEF TimerInv, TypeOK, ListsInv
    <2>2. \A u \in Listed : u \in Timers /\ d[u] = due[u] /\ tick[u] = timeout_tick[u]
      BY <1>6, <1>7
    <2>. QED  BY <2>1, <2>2
  <1>9. /\ \A u \in ToSet(rt_timer_list) : d[u] = due[u] - 0
        /\ \A u \in ToSet(rt_soft_timer_list) : d[u] = due[u] - 0
    BY <1>8 DEF Listed
  <1>10. Sorted(rt_timer_list, d)
    BY <1>6, <1>8, <1>9, ListTypes, SortedShift
  <1>11. Sorted(rt_soft_timer_list, d)
    BY <1>6, <1>8, <1>9, ListTypes, SortedShift
  <1>12. Near(tick[ThreadTimer], rt_tick, d[ThreadTimer]) /\ -MaxDelay <= d[ThreadTimer]
    BY <1>4, <1>5, <1>6, Sizes DEF Near
  <1>13. PICK new : new = Insert(rt_timer_list, ThreadTimer, tick)
    OBVIOUS
  <1>14. /\ new \in Seq(Timers) /\ ToSet(new) = ToSet(rt_timer_list) \cup {ThreadTimer}
         /\ Sorted(new, d)
    <2>1. \A u \in ToSet(rt_timer_list) : Near(tick[u], rt_tick, d[u])
      BY <1>8 DEF Listed
    <2>. QED  BY <1>1, <1>4, <1>6, <1>7, <1>10, <1>12, <1>13, <2>1, ListTypes, InsertProperties
  <1>15. new \in Seq(Hard) /\ rt_timer_list' = new /\ Listed' = Listed \cup {ThreadTimer}
    BY <1>1, <1>3, <1>13, <1>14, ListTypes, SeqNarrow DEF Listed
  <1>16. TypeOK'
    <2>1. init_tick' \in [Timers -> Nat]
      BY <1>3, <1>4 DEF TimerInv, TypeOK
    <2>. QED  BY <1>1, <1>3, <1>6, <1>15, <2>1, Sizes DEF TimerInv, TypeOK
  <1>17. ListsInv'
    <2>1. \A u \in Listed' : Near(timeout_tick[u], rt_tick, due[u])'
      BY <1>3, <1>8, <1>12, <1>15 DEF Near, Apart
    <2>2. \A u \in ToSet(new) : -MaxDelay <= d[u]
      BY <1>3, <1>8, <1>12, <1>14 DEF TimerInv, ListsInv, Listed
    <2>3. \A u \in ToSet(rt_soft_timer_list) : -MaxDelay <= d[u]
      BY <1>8 DEF TimerInv, ListsInv, Listed
    <2>. QED  BY <1>3, <1>11, <1>14, <1>15, <2>1, <2>2, <2>3 DEF ListsInv
  <1>18. StartInv'
    <2>1. \A u \in Timers : pc[u] = "computed" =>
             /\ u # ThreadTimer /\ d[u] = due[u] /\ tick[u] = timeout_tick[u]
             /\ init_tick'[u] = init_tick[u]
      BY <1>3, <1>6 DEF TimerInv, SettingsInv, TypeOK
    <2>. QED  BY <1>3, <2>1 DEF TimerInv, StartInv, Apart
  <1>19. SettingsInv'
    BY <1>3 DEF TimerInv, SettingsInv, User, TypeOK
  <1>20. FlagInv'
    BY <1>1, <1>3, <1>15 DEF TimerInv, FlagInv, SettingsInv
  <1>21. ThreadInv'
    <2>1. Head(rt_soft_timer_list) \in Listed
      BY <1>4, <1>8, ListTypes, HeadIsFirst DEF Listed
    <2>2. d[Head(rt_soft_timer_list)] = due[Head(rt_soft_timer_list)] /\ due[Head(rt_soft_timer_list)] \in Int
      BY <1>8, <2>1
    <2>3. d[ThreadTimer] <= d[Head(rt_soft_timer_list)] + MaxDelay
      BY <1>4, <1>6, <2>2, Sizes
    <2>4. ThreadTimer \in ToSet(new)
      BY <1>14
    <2>. QED  BY <1>3, <1>15, <2>3, <2>4 DEF ThreadInv
  <1>22. StaleInv'
    BY <1>3 DEF StaleInv
  <1>. QED  BY <1>16, <1>17, <1>18, <1>19, <1>20, <1>21, <1>22 DEF TimerInv

\* What a call of the first timer t of list leaves, where new is the list after it.
AfterCallIs(list, new, t) ==
    /\ timeout_tick' \in [Timers -> 0..TickMax] /\ due' \in [Timers -> Int]
    /\ \A u \in Timers : u # t => due'[u] = due[u] /\ timeout_tick'[u] = timeout_tick[u]
    /\ new \in Seq(Timers) /\ Sorted(new, due')
    /\ ToSet(new) = IF Again(t) THEN ToSet(list) ELSE ToSet(list) \ {t}
    /\ Again(t) => /\ Near(timeout_tick'[t], rt_tick, due'[t])
                   /\ 0 < due'[t] /\ t # ThreadTimer
    /\ activated' \subseteq Timers /\ called' \subseteq Timers
    /\ activated' \cup {t} = activated \cup {t}
    /\ t \notin Restarts => (t \in activated' <=> Again(t))

\* A check loop calls the first timer of its list, and starts it again if the
\* timer is periodic or its function starts it.
LEMMA Called ==
    ASSUME TimerInv, NEW list \in Seq(Timers), list # <<>>, Sorted(list, due),
           \A u \in ToSet(list) : Near(timeout_tick[u], rt_tick, due[u]),
           list = rt_timer_list \/ list = rt_soft_timer_list,
           NEW t, t = Head(list), Call(t)
    PROVE  t \in ToSet(list) /\ t \in Timers /\ AfterCallIs(list, AfterCall(list, TickAfter(t)), t)
  <1>1. /\ timeout_tick \in [Timers -> 0..TickMax] /\ due \in [Timers -> Int] /\ 0 \in Int
        /\ rt_tick \in 0..TickMax /\ init_tick \in [Timers -> Nat]
        /\ activated \subseteq Timers
    BY DEF TimerInv, TypeOK
  <1>2. t \in ToSet(list) /\ t \in Timers
    <2>1. t \in ToSet(list)
      BY <1>1, HeadIsFirst
    <2>. QED  BY <2>1, ListTypes
  <1>3. PICK tick, d : tick = TickAfter(t) /\ d = due'
    OBVIOUS
  <1>4. timeout_tick' = tick /\ d = [due EXCEPT ![t] = IF Again(t) THEN init_tick[t] ELSE 0]
    BY <1>3 DEF Call
  <1>5. Again(t) => /\ t # ThreadTimer /\ init_tick[t] \in Nat \ {0}
                    /\ init_tick[t] + MaxDelay < Half /\ init_tick[t] < Half
    <2>1. Again(t) => t \in User
      BY <1>2, TimersAssumption DEF Again, User, TimerInv, SettingsInv
    <2>2. Again(t) => init_tick[t] \in Times
      BY <2>1 DEF TimerInv, SettingsInv
    <2>3. Again(t) => init_tick[t] \in Nat \ {0} /\ init_tick[t] + MaxDelay < Half
      BY <2>2, TimesAssumption
    <2>. QED  BY <2>1, <2>3, Sizes DEF User
  <1>6. Again(t) => /\ (rt_tick + init_tick[t]) % (TickMax + 1) \in 0..TickMax
                    /\ Apart((rt_tick + init_tick[t]) % (TickMax + 1), rt_tick, init_tick[t])
    BY <1>1, <1>5, TickPlus
  <1>7. /\ tick \in [Timers -> 0..TickMax]
        /\ Again(t) => tick[t] = (rt_tick + init_tick[t]) % (TickMax + 1)
        /\ \A u \in Timers : u # t => tick[u] = timeout_tick[u]
    BY <1>1, <1>2, <1>3, <1>6, Sizes DEF TickAfter
  <1>8. /\ d \in [Timers -> Int]
        /\ Again(t) => d[t] = init_tick[t]
        /\ \A u \in Timers : u # t => d[u] = due[u]
    BY <1>1, <1>2, <1>4
  <1>9. Again(t) => Near(tick[t], rt_tick, d[t]) /\ 0 < d[t] /\ -MaxDelay <= d[t]
    <2>1. Again(t) => d[t] \in Nat \ {0} /\ d[t] + MaxDelay < Half
      BY <1>5, <1>8
    <2>2. Again(t) => Apart(tick[t], rt_tick, d[t])
      BY <1>6, <1>7, <1>8
    <2>. QED  BY <2>1, <2>2, Sizes DEF Near
  <1>10. PICK rest : rest = Tail(list)
    OBVIOUS
  <1>11. rest \in Seq(Timers) /\ ToSet(rest) = ToSet(list) \ {t} /\ Sorted(rest, d)
    <2>1. rest \in Seq(Timers) /\ ToSet(rest) = ToSet(list) \ {t} /\ Sorted(rest, due)
      BY <1>10, TailSorted
    <2>2. \A u \in ToSet(rest) : u \in Timers /\ u # t
      BY <2>1, ListTypes
    <2>3. \A u \in ToSet(rest) : d[u] = due[u] - 0
      BY <1>1, <1>8, <2>2
    <2>4. Sorted(rest, d)
      BY <1>1, <1>8, <2>1, <2>3, SortedShift
    <2>. QED  BY <2>1, <2>4
  <1>12. PICK new : new = AfterCall(list, tick)
    OBVIOUS
  <1>13. /\ new \in Seq(Timers) /\ Sorted(new, d)
         /\ ToSet(new) = IF Again(t) THEN ToSet(list) ELSE ToSet(list) \ {t}
    <2>1. CASE Again(t)
      <3>1. new = Insert(rest, t, tick)
        BY <1>10, <1>12, <2>1 DEF AfterCall
      <3>2. t \notin ToSet(rest) /\ \A u \in ToSet(rest) : Near(tick[u], rt_tick, d[u])
        <4>1. \A u \in ToSet(rest) : u \in ToSet(list) /\ u \in Timers /\ u # t
          BY <1>11, ListTypes
        <4>. QED  BY <1>7, <1>8, <1>11, <4>1
      <3>3. /\ new \in Seq(Timers) /\ ToSet(new) = ToSet(rest) \cup {t} /\ Sorted(new, d)
        BY <1>1, <1>2, <1>7, <1>8, <1>9, <1>11, <2>1, <3>1, <3>2, InsertProperties
      <3>. QED  BY <1>2, <1>11, <2>1, <3>3
    <2>2. CASE ~Again(t)
      <3>1. new = rest
        BY <1>10, <1>12, <2>2 DEF AfterCall
      <3>. QED  BY <1>11, <2>2, <3>1
    <2>. QED  BY <2>1, <2>2
  <1>14. /\ activated' \subseteq Timers /\ called' \subseteq Timers
         /\ activated' \cup {t} = activated \cup {t}
         /\ t \notin Restarts => (t \in activated' <=> Again(t))
    BY <1>1, <1>2 DEF Call, StaysActivated, Again
  <1>. QED  BY <1>2, <1>3, <1>4, <1>5, <1>7, <1>8, <1>9, <1>12, <1>13, <1>14 DEF AfterCallIs

\* One turn of the loop of the clock interrupt.
LEMMA CheckCallStep ==
    ASSUME TimerInv, CheckCall
    PROVE  TimerInv' /\ \A t \in called' : due[t] <= 0
  <1>1. PICK t, new : t = Head(rt_timer_list) /\ new = AfterCall(rt_timer_list, TickAfter(t))
    OBVIOUS
  <1>2. /\ checking /\ rt_timer_list # <<>> /\ Expired(rt_tick, timeout_tick[t]) /\ Call(t)
        /\ rt_timer_list' = new
        /\ stat' = IF t = ThreadTimer THEN "enter" ELSE stat
        /\ UNCHANGED <<rt_tick, rt_soft_timer_list, checking, periodic, init_tick, pc, current_tick,
                       next_timeout>>
    BY <1>1 DEF CheckCall, FirstExpired, settings
  <1>3. /\ rt_tick \in 0..TickMax /\ timeout_tick \in [Timers -> 0..TickMax] /\ due \in [Timers -> Int]
        /\ Sorted(rt_timer_list, due) /\ Sorted(rt_soft_timer_list, due)
        /\ \A u \in Listed : Near(timeout_tick[u], rt_tick, due[u])
        /\ \A u \in ToSet(rt_timer_list) : Near(timeout_tick[u], rt_tick, due[u])
    BY DEF TimerInv, TypeOK, ListsInv, Listed
  <1>4. t \in ToSet(rt_timer_list) /\ t \in Timers /\ AfterCallIs(rt_timer_list, new, t)
    BY <1>1, <1>2, <1>3, ListTypes, Called
  <1>5. t \in Hard /\ t \notin Soft /\ t \notin ToSet(rt_soft_timer_list)
    BY <1>4, ListTypes
  <1>6. due[t] <= 0
    BY <1>2, <1>3, <1>4, ExpiredIffDue
  <1>7. new \in Seq(Hard) /\ ToSet(new) \subseteq ToSet(rt_timer_list)
        /\ Listed' = IF Again(t) THEN Listed ELSE Listed \ {t}
    <2>1. new \in Seq(Timers) /\ ToSet(new) = IF Again(t) THEN ToSet(rt_timer_list) ELSE ToSet(rt_timer_list) \ {t}
      BY <1>4 DEF AfterCallIs
    <2>2. ToSet(new) \subseteq ToSet(rt_timer_list)
      BY <2>1
    <2>3. new \in Seq(Hard)
      BY <2>1, <2>2, ListTypes, SeqNarrow
    <2>. QED  BY <1>2, <1>4, <1>5, <2>1, <2>2, <2>3 DEF Listed
  <1>8. TypeOK'
    BY <1>2, <1>4, <1>7 DEF TimerInv, TypeOK, AfterCallIs
  <1>9. ListsInv'
    <2>1. PICK d : d = due' /\ d \in [Timers -> Int] /\ 0 \in Int
      BY <1>4 DEF AfterCallIs
    <2>2. \A u \in ToSet(rt_soft_timer_list) : u \in Timers /\ d[u] = due[u] - 0 /\ d[u] = due[u]
      BY <1>3, <1>4, <1>5, <2>1, ListTypes DEF AfterCallIs
    <2>3. Sorted(rt_soft_timer_list, d)
      BY <1>3, <2>1, <2>2, ListTypes, SortedShift
    <2>4. ASSUME NEW u \in Listed' PROVE Near(timeout_tick'[u], rt_tick, due'[u])
      <3>1. u \in Listed /\ u \in Timers
        BY <1>7, ListTypes DEF Listed
      <3>2. CASE u = t
        BY <1>4, <1>7, <3>2 DEF AfterCallIs
      <3>3. CASE u # t
        BY <1>3, <1>4, <3>1, <3>3 DEF AfterCallIs
      <3>. QED  BY <3>2, <3>3
    <2>5. \A u \in ToSet(rt_soft_timer_list) : -MaxDelay <= due'[u]
      BY <2>1, <2>2 DEF TimerInv, ListsInv
    <2>6. Sorted(new, due')
      BY <1>4 DEF AfterCallIs
    <2>. QED  BY <1>2, <2>1, <2>3, <2>4, <2>5, <2>6 DEF ListsInv, Near, Apart
  <1>10. StartInv'
    <2>1. \A u \in Timers : pc[u] = "computed" => u # t
      BY <1>4 DEF TimerInv, FlagInv, Listed
    <2>. QED  BY <1>2, <1>4, <2>1 DEF TimerInv, StartInv, AfterCallIs, Apart
  <1>11. SettingsInv'
    BY <1>2 DEF TimerInv, SettingsInv
  <1>12. FlagInv'
    <2>1. \A u \in Timers : u # t => (u \in activated' <=> u \in activated)
      BY <1>4 DEF AfterCallIs
    <2>2. t \notin Restarts => (t \in activated' <=> t \in Listed')
      BY <1>4, <1>7 DEF AfterCallIs, Listed
    <2>3. t \in Listed /\ Listed' \subseteq Listed /\ Listed \ {t} \subseteq Listed'
      BY <1>4, <1>7 DEF Listed
    <2>. QED  BY <1>2, <2>1, <2>2, <2>3 DEF TimerInv, FlagInv
  <1>13. ThreadInv'
    <2>1. CASE t = ThreadTimer
      <3>1. ThreadTimer \notin ToSet(new)
        BY <1>4, <2>1 DEF AfterCallIs
      <3>. QED  BY <1>2, <2>1, <3>1 DEF ThreadInv
    <2>2. CASE t # ThreadTimer
      <3>1. ThreadTimer \in Timers /\ due'[ThreadTimer] = due[ThreadTimer]
        BY <1>4, <2>2, TimersAssumption DEF AfterCallIs
      <3>2. rt_soft_timer_list # <<>> => due'[Head(rt_soft_timer_list)] = due[Head(rt_soft_timer_list)]
        <4>1. rt_soft_timer_list # <<>> => Head(rt_soft_timer_list) \in ToSet(rt_soft_timer_list)
          BY <1>3, ListTypes, HeadIsFirst
        <4>. QED  BY <1>4, <1>5, <4>1, ListTypes DEF AfterCallIs
      <3>3. ThreadTimer \in ToSet(new) <=> ThreadTimer \in ToSet(rt_timer_list)
        BY <1>4, <2>2 DEF AfterCallIs
      <3>. QED  BY <1>2, <2>2, <3>1, <3>2, <3>3 DEF TimerInv, ThreadInv
    <2>. QED  BY <2>1, <2>2
  <1>14. StaleInv'
    <2>1. \A u \in ToSet(rt_soft_timer_list) : due'[u] = due[u]
      BY <1>4, <1>5, ListTypes DEF AfterCallIs
    <2>2. stat' = "check" => stat = "check"
      BY <1>2
    <2>. QED  BY <1>2, <2>1, <2>2 DEF TimerInv, StaleInv, Apart
  <1>15. called' = {t}
    BY <1>2 DEF Call
  <1>. QED  BY <1>6, <1>8, <1>9, <1>10, <1>11, <1>12, <1>13, <1>14, <1>15 DEF TimerInv

\* One turn of the loop of the timer thread, with a tick that may be stale.
LEMMA SoftCallStep ==
    ASSUME TimerInv, SoftCall
    PROVE  TimerInv' /\ \A t \in called' : due[t] <= 0
  <1>1. PICK t, new : t = Head(rt_soft_timer_list) /\ new = AfterCall(rt_soft_timer_list, TickAfter(t))
    OBVIOUS
  <1>2. /\ stat = "check" /\ ~checking
        /\ rt_soft_timer_list # <<>> /\ Expired(current_tick, timeout_tick[t]) /\ Call(t)
        /\ rt_soft_timer_list' = new /\ current_tick' = rt_tick
        /\ UNCHANGED <<rt_tick, rt_timer_list, checking, periodic, init_tick, pc, stat, next_timeout>>
    BY <1>1 DEF SoftCall, FirstExpired, settings
  <1>3. /\ rt_tick \in 0..TickMax /\ current_tick \in 0..TickMax
        /\ timeout_tick \in [Timers -> 0..TickMax] /\ due \in [Timers -> Int]
        /\ Sorted(rt_timer_list, due) /\ Sorted(rt_soft_timer_list, due)
        /\ \A u \in Listed : Near(timeout_tick[u], rt_tick, due[u])
        /\ \A u \in ToSet(rt_soft_timer_list) : Near(timeout_tick[u], rt_tick, due[u])
    BY DEF TimerInv, TypeOK, ListsInv, Listed
  <1>4. t \in ToSet(rt_soft_timer_list) /\ t \in Timers /\ AfterCallIs(rt_soft_timer_list, new, t)
    BY <1>1, <1>2, <1>3, ListTypes, Called
  <1>5. t \in Soft /\ t \notin Hard /\ t \notin ToSet(rt_timer_list) /\ t # ThreadTimer
    BY <1>4, ListTypes
  <1>6. due[t] <= 0
    <2>1. PICK e \in Nat :
            /\ Apart(current_tick, rt_tick, -e)
            /\ \A u \in ToSet(rt_soft_timer_list) : due[u] + e + MaxDelay < Half
      BY <1>2 DEF TimerInv, StaleInv
    <2>2. /\ timeout_tick[t] \in 0..TickMax /\ due[t] \in Int
          /\ Near(timeout_tick[t], rt_tick, due[t]) /\ due[t] + e + MaxDelay < Half
      BY <1>3, <1>4, <2>1
    <2>. QED  BY <1>2, <1>3, <2>1, <2>2, ExpiredIsDue
  <1>7. /\ new \in Seq(Soft) /\ ToSet(new) \subseteq ToSet(rt_soft_timer_list)
        /\ Listed' = IF Again(t) THEN Listed ELSE Listed \ {t}
        /\ ToSet(new) = IF Again(t) THEN ToSet(rt_soft_timer_list) ELSE ToSet(rt_soft_timer_list) \ {t}
    <2>1. /\ new \in Seq(Timers)
          /\ ToSet(new) = IF Again(t) THEN ToSet(rt_soft_timer_list) ELSE ToSet(rt_soft_timer_list) \ {t}
      BY <1>4 DEF AfterCallIs
    <2>2. ToSet(new) \subseteq ToSet(rt_soft_timer_list)
      BY <2>1
    <2>3. new \in Seq(Soft)
      BY <2>1, <2>2, ListTypes, SeqNarrow
    <2>. QED  BY <1>2, <1>4, <1>5, <2>1, <2>2, <2>3 DEF Listed
  <1>8. TypeOK'
    BY <1>2, <1>3, <1>4, <1>7 DEF TimerInv, TypeOK, AfterCallIs
  <1>9. \A u \in Listed' : Near(timeout_tick'[u], rt_tick, due'[u])
    <2> TAKE u \in Listed'
    <2>1. u \in Listed /\ u \in Timers
      BY <1>7, ListTypes DEF Listed
    <2>2. CASE u = t
      BY <1>4, <1>7, <2>2 DEF AfterCallIs
    <2>3. CASE u # t
      BY <1>3, <1>4, <2>1, <2>3 DEF AfterCallIs
    <2>. QED  BY <2>2, <2>3
  <1>10. ListsInv'
    <2>1. PICK d : d = due' /\ d \in [Timers -> Int] /\ 0 \in Int
      BY <1>4 DEF AfterCallIs
    <2>2. \A u \in ToSet(rt_timer_list) : u \in Timers /\ d[u] = due[u] - 0 /\ d[u] = due[u]
      BY <1>3, <1>4, <1>5, <2>1, ListTypes DEF AfterCallIs
    <2>3. Sorted(rt_timer_list, d)
      BY <1>3, <2>1, <2>2, ListTypes, SortedShift
    <2>4. \A u \in ToSet(rt_timer_list) : -MaxDelay <= due'[u]
      BY <1>2, <2>1, <2>2 DEF TimerInv, ListsInv
    <2>5. ASSUME NEW u \in ToSet(new) PROVE -MaxDelay <= due'[u]
      <3>1. u \in ToSet(rt_soft_timer_list) /\ u \in Timers
        BY <1>7, ListTypes
      <3>2. CASE u = t
        <4>1. 0 < due'[t] /\ due'[t] \in Int
          BY <1>4, <1>7, <3>2 DEF AfterCallIs
        <4>. QED  BY <3>2, <4>1, Sizes
      <3>3. CASE u # t
        BY <1>4, <3>1, <3>3 DEF AfterCallIs, TimerInv, ListsInv
      <3>. QED  BY <3>2, <3>3
    <2>6. Sorted(new, due')
      BY <1>4 DEF AfterCallIs
    <2>. QED  BY <1>2, <1>9, <2>1, <2>3, <2>4, <2>5, <2>6 DEF ListsInv, Near, Apart
  <1>11. StartInv'
    <2>1. \A u \in Timers : pc[u] = "computed" => u # t
      BY <1>4 DEF TimerInv, FlagInv, Listed
    <2>. QED  BY <1>2, <1>4, <2>1 DEF TimerInv, StartInv, AfterCallIs, Apart
  <1>12. SettingsInv'
    BY <1>2 DEF TimerInv, SettingsInv
  <1>13. FlagInv'
    <2>1. \A u \in Timers : u # t => (u \in activated' <=> u \in activated)
      BY <1>4 DEF AfterCallIs
    <2>2. t \notin Restarts => (t \in activated' <=> t \in Listed')
      BY <1>4, <1>7 DEF AfterCallIs, Listed
    <2>3. t \in Listed /\ Listed' \subseteq Listed /\ Listed \ {t} \subseteq Listed'
      BY <1>4, <1>7 DEF Listed
    <2>. QED  BY <1>2, <2>1, <2>2, <2>3 DEF TimerInv, FlagInv
  <1>14. ThreadInv'
    BY <1>2 DEF TimerInv, ThreadInv
  <1>15. StaleInv'
    <2>1. \A u \in ToSet(new) : due'[u] + 0 + MaxDelay < Half
      <3>1. \A u \in ToSet(new) : due'[u] \in Int /\ Near(timeout_tick'[u], rt_tick, due'[u])
        BY <1>2, <1>4, <1>7, <1>9, ListTypes DEF AfterCallIs, Listed
      <3>. QED  BY <3>1, Sizes DEF Near
    <2>2. Apart(current_tick', rt_tick', -0)
      BY <1>2, <1>3 DEF Apart
    <2>. QED  BY <1>2, <2>1, <2>2 DEF StaleInv, Apart
  <1>16. called' = {t}
    BY <1>2 DEF Call
  <1>. QED  BY <1>6, <1>8, <1>10, <1>11, <1>12, <1>13, <1>14, <1>15, <1>16 DEF TimerInv

\* A tick brings every timeout one tick nearer.
LEMMA TickStep ==
    ASSUME TimerInv, rt_tick_increase
    PROVE  TimerInv'
  <1>1. PICK now, d : /\ now = (rt_tick + 1) % (TickMax + 1)
                      /\ d = [t \in Timers |-> IF t \in Running THEN due[t] - 1 ELSE due[t]]
    OBVIOUS
  <1>2. /\ ~checking /\ checking' = TRUE /\ TickBound /\ rt_tick' = now /\ due' = d /\ called' = {}
        /\ UNCHANGED <<rt_timer_list, rt_soft_timer_list, activated, periodic, init_tick, timeout_tick,
                       pc, stat, current_tick, next_timeout>>
    BY <1>1 DEF rt_tick_increase, lists, settings, thread
  <1>3. /\ rt_tick \in 0..TickMax /\ timeout_tick \in [Timers -> 0..TickMax] /\ due \in [Timers -> Int]
        /\ current_tick \in 0..TickMax /\ init_tick \in [Timers -> Nat] /\ next_timeout \in 0..TickMax
        /\ Sorted(rt_timer_list, due) /\ Sorted(rt_soft_timer_list, due)
        /\ \A u \in Listed : Near(timeout_tick[u], rt_tick, due[u])
        /\ Listed' = Listed /\ Listed \subseteq Timers
    BY <1>2, ListTypes DEF TimerInv, TypeOK, ListsInv, Listed
  <1>4. /\ d \in [Timers -> Int] /\ 1 \in Int
        /\ \A u \in Timers : u \in Listed \/ pc[u] = "computed" => d[u] = due[u] - 1
    BY <1>1, <1>3 DEF Running, Listed
  <1>5. now \in 0..TickMax
    <2>1. 0 \in Int /\ Apart(rt_tick, rt_tick, 0)
      BY <1>3 DEF Apart
    <2>. QED  BY <1>1, <1>3, <2>1, Sizes, TickNearer
  <1>6. ASSUME NEW u \in Listed PROVE Near(timeout_tick[u], now, d[u])
    <2>1. /\ u \in Timers /\ timeout_tick[u] \in 0..TickMax /\ due[u] \in Int /\ d[u] = due[u] - 1
          /\ Near(timeout_tick[u], rt_tick, due[u]) /\ -MaxDelay <= due[u]
      BY <1>2, <1>3, <1>4 DEF TimerInv, ListsInv, Listed
    <2>2. -Half <= due[u] /\ due[u] < Half /\ Apart(timeout_tick[u], rt_tick, due[u])
      BY <2>1, Sizes DEF Near
    <2>3. Apart(timeout_tick[u], now, due[u] - 1)
      BY <1>1, <1>3, <2>1, <2>2, TickNearer
    <2>. QED  BY <2>1, <2>3, Sizes DEF Near
  <1>7. TypeOK'
    BY <1>2, <1>4, <1>5 DEF TimerInv, TypeOK
  <1>8. ListsInv'
    <2>1. \A u \in Listed : d[u] = due[u] - 1
      BY <1>3, <1>4
    <2>2. Sorted(rt_timer_list, d)
      <3>1. \A u \in ToSet(rt_timer_list) : d[u] = due[u] - 1
        BY <2>1 DEF Listed
      <3>. QED  BY <1>3, <1>4, <3>1, ListTypes, SortedShift
    <2>3. Sorted(rt_soft_timer_list, d)
      <3>1. \A u \in ToSet(rt_soft_timer_list) : d[u] = due[u] - 1
        BY <2>1 DEF Listed
      <3>. QED  BY <1>3, <1>4, <3>1, ListTypes, SortedShift
    <2>4. \A u \in ToSet(rt_soft_timer_list) : -MaxDelay <= d[u]
      <3> TAKE u \in ToSet(rt_soft_timer_list)
      <3>1. u \in Listed /\ due[u] \in Int /\ due[u] > -MaxDelay
        BY <1>2, <1>3 DEF TickBound, Listed
      <3>. QED  BY <2>1, <3>1, Sizes
    <2>. QED  BY <1>2, <1>3, <1>6, <2>2, <2>3, <2>4 DEF ListsInv, Near, Apart
  <1>9. StartInv'
    <2> SUFFICES ASSUME NEW u \in Timers, pc[u] = "computed"
                 PROVE  /\ Apart(timeout_tick[u], now, d[u])
                        /\ init_tick[u] - MaxDelay <= d[u] /\ d[u] <= init_tick[u]
      BY <1>2 DEF StartInv, Apart
    <2>1. /\ u \in Timers /\ timeout_tick[u] \in 0..TickMax /\ due[u] \in Int /\ d[u] = due[u] - 1
          /\ Apart(timeout_tick[u], rt_tick, due[u]) /\ init_tick[u] \in Nat
          /\ due[u] <= init_tick[u] /\ due[u] > init_tick[u] - MaxDelay
      BY <1>2, <1>3, <1>4 DEF TimerInv, StartInv, TickBound
    <2>2. init_tick[u] < Half
      <3>1. u \in User
        BY DEF TimerInv, SettingsInv, User
      <3>2. init_tick[u] \in Times
        BY <3>1 DEF TimerInv, SettingsInv
      <3>3. init_tick[u] + MaxDelay < Half
        BY <3>2, TimesAssumption
      <3>. QED  BY <2>1, <3>3, Sizes
    <2>3. -Half <= due[u] /\ due[u] < Half
      BY <2>1, <2>2, Sizes
    <2>4. Apart(timeout_tick[u], now, due[u] - 1)
      BY <1>1, <1>3, <2>1, <2>3, TickNearer
    <2>. QED  BY <2>1, <2>4, Sizes
  <1>10. SettingsInv' /\ FlagInv'
    BY <1>2, <1>3 DEF TimerInv, SettingsInv, FlagInv
  <1>11. ThreadInv'
    <2>1. rt_soft_timer_list # <<>> =>
             /\ Head(rt_soft_timer_list) \in Listed
             /\ due[Head(rt_soft_timer_list)] \in Int
             /\ d[Head(rt_soft_timer_list)] = due[Head(rt_soft_timer_list)] - 1
      <3>1. rt_soft_timer_list # <<>> => Head(rt_soft_timer_list) \in Listed
        BY <1>3, ListTypes, HeadIsFirst DEF Listed
      <3>. QED  BY <1>3, <1>4, <3>1
    <2>2. ThreadTimer \in Timers /\ due[ThreadTimer] \in Int
      BY <1>3, TimersAssumption
    <2>3. stat = "delay" => d[ThreadTimer] = due[ThreadTimer] - 1
      BY <1>4, <2>2 DEF TimerInv, ThreadInv, Listed
    <2>4. stat = "sleep" => /\ rt_soft_timer_list # <<>>
                            /\ next_timeout - MaxDelay <= d[Head(rt_soft_timer_list)]
                            /\ next_timeout + MaxDelay < Half
      BY <1>2, <1>3, <2>1, Sizes DEF TimerInv, ThreadInv, TickBound
    <2>5. stat = "delay" /\ (\A u \in Timers : pc[u] # "inserted") /\ rt_soft_timer_list # <<>> =>
             d[ThreadTimer] <= d[Head(rt_soft_timer_list)] + MaxDelay
      BY <2>1, <2>2, <2>3, Sizes DEF TimerInv, ThreadInv
    <2>. QED  BY <1>2, <2>4, <2>5 DEF TimerInv, ThreadInv
  <1>12. StaleInv'
    <2> SUFFICES ASSUME stat = "check", rt_soft_timer_list # <<>>
                 PROVE  \E e \in Nat :
                           /\ Apart(current_tick, now, -e)
                           /\ \A u \in ToSet(rt_soft_timer_list) : d[u] + e + MaxDelay < Half
      BY <1>2 DEF StaleInv, Apart
    <2>1. PICK e \in Nat :
            /\ Apart(current_tick, rt_tick, -e)
            /\ \A u \in ToSet(rt_soft_timer_list) : due[u] + e + MaxDelay < Half
      BY DEF TimerInv, StaleInv
    <2>2. PICK h \in ToSet(rt_soft_timer_list) : TRUE
      BY <1>3, ListTypes, HeadIsFirst
    <2>3. due[h] \in Int /\ -MaxDelay <= due[h] /\ due[h] + e + MaxDelay < Half
      BY <1>3, <2>1, <2>2 DEF TimerInv, ListsInv, Listed
    <2>4. -e \in Int /\ -Half <= -e /\ -e < Half
      BY <2>3, Sizes
    <2>5. Apart(current_tick, now, (-e) - 1)
      BY <1>1, <1>3, <2>1, <2>4, TickNearer
    <2>6. PICK f \in Nat : f = e + 1 /\ -f = (-e) - 1
      OBVIOUS
    <2>7. Apart(current_tick, now, -f)
      BY <2>5, <2>6
    <2>8. \A u \in ToSet(rt_soft_timer_list) : d[u] + f + MaxDelay < Half
      <3> TAKE u \in ToSet(rt_soft_timer_list)
      <3>1. d[u] = due[u] - 1 /\ due[u] \in Int /\ due[u] + e + MaxDelay < Half
        BY <1>3, <1>4, <2>1 DEF Listed
      <3>. QED  BY <2>6, <3>1, Sizes
    <2>. QED  BY <2>7, <2>8
  <1>. QED  BY <1>7, <1>8, <1>9, <1>10, <1>11, <1>12 DEF TimerInv

\* The end of the loop of the clock interrupt: no hard timer is left that is due.
LEMMA CheckEndStep ==
    ASSUME TimerInv, CheckEnd
    PROVE  TimerInv' /\ called' = {} /\ \A t \in ToSet(rt_timer_list) : due[t] > 0
  <1>1. /\ checking' = FALSE /\ called' = {} /\ ~FirstExpired(rt_timer_list, rt_tick)
        /\ UNCHANGED <<rt_tick, rt_timer_list, rt_soft_timer_list, activated, periodic, init_tick,
                       timeout_tick, pc, stat, current_tick, next_timeout, due>>
    BY DEF CheckEnd, lists, settings, thread
  <1>2. /\ rt_tick \in 0..TickMax /\ timeout_tick \in [Timers -> 0..TickMax] /\ due \in [Timers -> Int]
        /\ Sorted(rt_timer_list, due)
        /\ \A u \in ToSet(rt_timer_list) : Near(timeout_tick[u], rt_tick, due[u])
    BY DEF TimerInv, TypeOK, ListsInv, Listed
  <1>3. \A t \in ToSet(rt_timer_list) : due[t] > 0
    <2>1. CASE rt_timer_list = <<>>
      BY <2>1, EmptyList
    <2>2. CASE rt_timer_list # <<>>
      <3>1. PICK h : h = Head(rt_timer_list)
        OBVIOUS
      <3>2. h \in ToSet(rt_timer_list) /\ \A t \in ToSet(rt_timer_list) : due[h] <= due[t]
        BY <1>2, <2>2, <3>1, ListTypes, HeadIsFirst
      <3>3. ~Expired(rt_tick, timeout_tick[h])
        BY <1>1, <2>2, <3>1 DEF FirstExpired
      <3>4. h \in Timers /\ due[h] \in Int /\ due[h] > 0
        BY <1>2, <3>2, <3>3, ListTypes, ExpiredIffDue
      <3>5. \A t \in ToSet(rt_timer_list) : due[t] \in Int
        BY <1>2, ListTypes
      <3>. QED  BY <3>2, <3>4, <3>5
    <2>. QED  BY <2>1, <2>2
  <1>4. TypeOK'
    BY <1>1 DEF TimerInv, TypeOK
  <1>5. ListsInv'
    <2>1. \A u \in ToSet(rt_timer_list) : -MaxDelay <= due[u]
      <3>1. \A u \in ToSet(rt_timer_list) : due[u] \in Int /\ due[u] > 0
        BY <1>2, <1>3, ListTypes
      <3>. QED  BY <3>1, Sizes
    <2>. QED  BY <1>1, <2>1 DEF TimerInv, ListsInv, Listed, Near, Apart
  <1>6. StartInv' /\ SettingsInv' /\ FlagInv' /\ ThreadInv' /\ StaleInv'
    BY <1>1 DEF TimerInv, StartInv, SettingsInv, FlagInv, ThreadInv, StaleInv, Listed, Apart
  <1>. QED  BY <1>1, <1>3, <1>4, <1>5, <1>6 DEF TimerInv

\* rt_timer_stop before and after it takes the timer off its list.
LEMMA StopStep ==
    ASSUME TimerInv, NEW t \in User, rt_timer_stop(t) \/ StopClear(t)
    PROVE  TimerInv'
  <1>1. t \in Timers /\ t # ThreadTimer
    BY DEF User
  <1>2. /\ ThreadsRun /\ called' = {}
        /\ UNCHANGED <<rt_tick, rt_timer_list, rt_soft_timer_list, checking, periodic, init_tick,
                       timeout_tick, stat, current_tick, next_timeout, due>>
    BY DEF rt_timer_stop, StopClear, At, lists, settings, thread
  <1>3. \/ pc[t] = "idle" /\ pc' = [pc EXCEPT ![t] = "stopping"] /\ activated' = activated
        \/ pc[t] = "stopped" /\ pc' = [pc EXCEPT ![t] = "idle"] /\ activated' = activated \ {t}
    BY DEF rt_timer_stop, StopClear, At
  <1>4. /\ pc' \in [Timers -> Places] /\ \A u \in Timers : u # t => pc'[u] = pc[u]
        /\ \/ pc[t] = "idle" /\ pc'[t] = "stopping" /\ activated' = activated
           \/ pc[t] = "stopped" /\ pc'[t] = "idle" /\ activated' = activated \ {t}
    <2>1. TypeOK /\ "stopping" \in Places /\ "idle" \in Places
      BY DEF TimerInv, Places
    <2>. QED  BY <1>1, <1>3, <2>1, Moved
  <1>5. TypeOK'
    BY <1>2, <1>4 DEF TimerInv, TypeOK, Places
  <1>6. ListsInv' /\ StaleInv' /\ Listed' = Listed
    BY <1>2 DEF TimerInv, ListsInv, StaleInv, Listed, Near, Apart
  <1>7. StartInv' /\ SettingsInv'
    <2>1. ThreadTimer \in Timers
      BY TimersAssumption
    <2>2. \A u \in Timers : pc'[u] = "computed" => pc[u] = "computed"
      BY <1>4
    <2>. QED  BY <1>1, <1>2, <1>4, <2>1, <2>2 DEF TimerInv, StartInv, SettingsInv, Apart
  <1>8. FlagInv'
    BY <1>1, <1>4, <1>6 DEF TimerInv, FlagInv
  <1>9. ThreadInv'
    BY <1>2, <1>4 DEF TimerInv, ThreadInv
  <1>. QED  BY <1>5, <1>6, <1>7, <1>8, <1>9 DEF TimerInv

\* rt_timer_control changes the settings, also of a timer that runs.
LEMMA ControlStep ==
    ASSUME TimerInv, NEW t \in User, rt_timer_control(t)
    PROVE  TimerInv'
  <1>1. t \in Timers /\ t # ThreadTimer
    BY DEF User
  <1>2. /\ ThreadsRun /\ called' = {} /\ pc[t] = "idle"
        /\ UNCHANGED <<rt_tick, rt_timer_list, rt_soft_timer_list, checking, activated,
                       timeout_tick, stat, current_tick, next_timeout, due>>
    BY DEF rt_timer_control, At, lists, thread
  <1>3. pc' \in [Timers -> Places] /\ \A u \in Timers : pc'[u] = pc[u]
    BY <1>1, <1>2, Moved DEF rt_timer_control, At, Places, TimerInv
  <1>4. /\ periodic' \subseteq Timers /\ ThreadTimer \notin periodic'
        /\ init_tick' \in [Timers -> Nat] /\ (\A u \in User : init_tick'[u] \in Times)
        /\ \A u \in Timers : u # t => init_tick'[u] = init_tick[u]
    <2>1. /\ periodic \subseteq Timers /\ ThreadTimer \notin periodic
          /\ init_tick \in [Timers -> Nat] /\ \A u \in User : init_tick[u] \in Times
      BY DEF TimerInv, TypeOK, SettingsInv
    <2>2. CASE periodic' \in {periodic \cup {t}, periodic \ {t}} /\ UNCHANGED init_tick
      BY <1>1, <2>1, <2>2
    <2>3. ASSUME NEW n \in Times, init_tick' = [init_tick EXCEPT ![t] = n], UNCHANGED periodic
          PROVE  /\ periodic' \subseteq Timers /\ ThreadTimer \notin periodic'
                 /\ init_tick' \in [Timers -> Nat] /\ (\A u \in User : init_tick'[u] \in Times)
                 /\ \A u \in Timers : u # t => init_tick'[u] = init_tick[u]
      <3>1. n \in Nat /\ User \subseteq Timers
        BY TimesAssumption DEF User
      <3>. QED  BY <1>1, <2>1, <2>3, <3>1
    <2>. QED  BY <2>2, <2>3 DEF rt_timer_control
  <1>5. TypeOK'
    BY <1>2, <1>3, <1>4 DEF TimerInv, TypeOK, Places
  <1>6. ListsInv' /\ StaleInv' /\ Listed' = Listed
    BY <1>2 DEF TimerInv, ListsInv, StaleInv, Listed, Near, Apart
  <1>7. StartInv'
    BY <1>2, <1>3, <1>4 DEF TimerInv, StartInv, Apart
  <1>8. SettingsInv'
    <2>1. ThreadTimer \in Timers
      BY TimersAssumption
    <2>. QED  BY <1>3, <1>4, <2>1 DEF TimerInv, SettingsInv
  <1>9. FlagInv'
    BY <1>2, <1>3, <1>6 DEF TimerInv, FlagInv
  <1>10. ThreadInv'
    BY <1>2, <1>3 DEF TimerInv, ThreadInv
  <1>. QED  BY <1>5, <1>6, <1>7, <1>8, <1>9, <1>10 DEF TimerInv

\* The timer thread enters and leaves rt_soft_timer_check.
LEMMA SoftEdgeStep ==
    ASSUME TimerInv, SoftEnter \/ SoftEnd
    PROVE  TimerInv'
  <1>1. /\ called' = {}
        /\ UNCHANGED <<rt_tick, rt_timer_list, rt_soft_timer_list, checking, activated, periodic,
                       init_tick, timeout_tick, pc, next_timeout, due>>
        /\ \/ stat = "enter" /\ stat' = "check" /\ current_tick' = rt_tick
           \/ stat = "check" /\ stat' = "read" /\ current_tick' = 0
    BY DEF SoftEnter, SoftEnd, lists, settings
  <1>2. TypeOK'
    BY <1>1, Sizes DEF TimerInv, TypeOK
  <1>3. ListsInv' /\ StartInv' /\ SettingsInv' /\ FlagInv'
    BY <1>1 DEF TimerInv, ListsInv, StartInv, SettingsInv, FlagInv, Listed, Near, Apart
  <1>4. ThreadInv'
    BY <1>1 DEF TimerInv, ThreadInv
  <1>5. StaleInv'
    <2> SUFFICES ASSUME current_tick' = rt_tick
                 PROVE  \E e \in Nat :
                           /\ Apart(rt_tick, rt_tick, -e)
                           /\ \A u \in ToSet(rt_soft_timer_list) : due[u] + e + MaxDelay < Half
      BY <1>1 DEF StaleInv, Apart
    <2>1. \A u \in ToSet(rt_soft_timer_list) : due[u] + 0 + MaxDelay < Half
      <3>1. \A u \in ToSet(rt_soft_timer_list) : due[u] \in Int /\ Near(timeout_tick[u], rt_tick, due[u])
        BY ListTypes DEF TimerInv, TypeOK, ListsInv, Listed
      <3>. QED  BY <3>1, Sizes DEF Near
    <2>2. Apart(rt_tick, rt_tick, -0)
      BY DEF Apart, TimerInv, TypeOK
    <2>. QED  BY <2>1, <2>2
  <1>. QED  BY <1>2, <1>3, <1>4, <1>5 DEF TimerInv

\* The timer thread reads the first timeout and decides to sleep, or not to.
LEMMA EntryStep ==
    ASSUME TimerInv, rt_thread_timer_entry
    PROVE  TimerInv'
  <1>1. /\ called' = {} /\ stat = "read"
        /\ UNCHANGED <<rt_tick, rt_timer_list, rt_soft_timer_list, checking, activated, periodic,
                       init_tick, timeout_tick, pc, current_tick, due>>
    BY DEF rt_thread_timer_entry, lists, settings
  <1>2. \/ stat' \in {"suspend", "enter"} /\ next_timeout' = next_timeout
        \/ /\ stat' = "sleep" /\ rt_soft_timer_list # <<>>
           /\ next_timeout' \in 0..TickMax
           /\ next_timeout' - MaxDelay <= due[Head(rt_soft_timer_list)]
           /\ next_timeout' + MaxDelay < Half
    <2>1. CASE rt_timer_list_next_timeout = TickMax
      BY <2>1 DEF rt_thread_timer_entry
    <2>2. CASE rt_timer_list_next_timeout # TickMax
      <3>1. rt_soft_timer_list # <<>> /\ rt_timer_list_next_timeout = timeout_tick[Head(rt_soft_timer_list)]
        BY <2>2 DEF rt_timer_list_next_timeout
      <3>2. PICK h : h = Head(rt_soft_timer_list)
        OBVIOUS
      <3>3. Sorted(rt_soft_timer_list, due) /\ due \in [Timers -> Int]
        BY DEF TimerInv, ListsInv, TypeOK
      <3>4. h \in ToSet(rt_soft_timer_list)
        BY <3>1, <3>2, <3>3, ListTypes, HeadIsFirst
      <3>5. /\ timeout_tick[h] \in 0..TickMax /\ due[h] \in Int /\ rt_tick \in 0..TickMax
            /\ Near(timeout_tick[h], rt_tick, due[h])
        BY <3>4, ListTypes DEF TimerInv, TypeOK, ListsInv, Listed
      <3>6. PICK n \in Int : /\ n = Minus(timeout_tick[h], rt_tick)
                             /\ n = IF rt_tick <= timeout_tick[h] THEN timeout_tick[h] - rt_tick
                                    ELSE timeout_tick[h] - rt_tick + K
        BY <3>5, MinusIs
      <3>7. n < Half => n = due[h] /\ 0 <= n
        BY <3>5, <3>6, Sizes DEF Near, Apart
      <3>8. \/ n < Half /\ stat' = "sleep" /\ next_timeout' = n
            \/ stat' = "enter" /\ next_timeout' = next_timeout
        BY <2>2, <3>1, <3>2, <3>6 DEF rt_thread_timer_entry
      <3>9. n < Half => n \in 0..TickMax /\ n - MaxDelay <= due[h] /\ n + MaxDelay < Half
        BY <3>5, <3>7, Sizes DEF Near
      <3>. QED  BY <3>1, <3>2, <3>8, <3>9
    <2>. QED  BY <2>1, <2>2
  <1>3. TypeOK'
    BY <1>1, <1>2 DEF TimerInv, TypeOK
  <1>4. ListsInv' /\ StartInv' /\ SettingsInv' /\ FlagInv'
    BY <1>1 DEF TimerInv, ListsInv, StartInv, SettingsInv, FlagInv, Listed, Near, Apart
  <1>5. ThreadInv'
    BY <1>1, <1>2 DEF TimerInv, ThreadInv
  <1>6. StaleInv'
    BY <1>2 DEF StaleInv
  <1>. QED  BY <1>3, <1>4, <1>5, <1>6 DEF TimerInv

-----------------------------------------------------------------------------
(* The theorems *)

\* No timer runs at first.
LEMMA TimerInit == Init => TimerInv
  <1> SUFFICES ASSUME Init PROVE TimerInv
    OBVIOUS
  <1>1. \A n \in Times : n \in Nat
    BY TimesAssumption
  <1>2. (CHOOSE n \in Times : TRUE) \in Times
    BY TimesAssumption
  <1>3. init_tick \in [Timers -> Times]
    BY <1>2 DEF Init
  <1>4. TypeOK
    <2>1. init_tick \in [Timers -> Nat]
      BY <1>1, <1>3
    <2>2. checking \in BOOLEAN
      BY Zenon DEF Init
    <2>3. rt_timer_list \in Seq(Hard) /\ rt_soft_timer_list \in Seq(Soft)
      BY DEF Init
    <2>. QED  BY <2>1, <2>2, <2>3, Sizes DEF Init, TypeOK
  <1>5. Listed = {} /\ ToSet(rt_timer_list) = {} /\ ToSet(rt_soft_timer_list) = {}
    BY EmptyList DEF Init, Listed
  <1>6. Sorted(<<>>, due)
    BY DEF Sorted, IsInjective
  <1>7. ListsInv
    BY <1>5, <1>6 DEF Init, ListsInv
  <1>8. StartInv /\ FlagInv
    BY <1>5 DEF Init, StartInv, FlagInv
  <1>9. SettingsInv
    BY <1>3, TimersAssumption DEF Init, SettingsInv, User
  <1>10. ThreadInv /\ StaleInv
    BY <1>5 DEF Init, ThreadInv, StaleInv
  <1>. QED  BY <1>4, <1>7, <1>8, <1>9, <1>10 DEF TimerInv

\* What a step may do: who is called, and how the loop of the interrupt ends.
OnTime ==
    /\ \A t \in called' : due[t] <= 0
    /\ checking /\ ~checking' => \A t \in ToSet(rt_timer_list) : due[t] > 0

\* Every step keeps the invariant and calls the timers that are due.
LEMMA TimerStep == TimerInv /\ [Next]_vars => TimerInv' /\ [OnTime]_vars
  <1> SUFFICES ASSUME TimerInv, [Next]_vars PROVE TimerInv' /\ [OnTime]_vars
    OBVIOUS
  <1>1. ASSUME NEW t \in User,
               \/ rt_timer_start(t) \/ StartCompute(t) \/ StartInsert(t) \/ StartResume(t)
               \/ rt_timer_stop(t) \/ StopRemove(t) \/ StopClear(t) \/ rt_timer_control(t)
        PROVE  TimerInv' /\ OnTime
    <2>1. TimerInv'
      BY <1>1, UnlinkStep, ComputeStep, InsertStep, ResumeStep, StopStep, ControlStep
    <2>2. called' = {} /\ UNCHANGED checking
      BY <1>1 DEF rt_timer_start, StartCompute, StartInsert, StartResume, rt_timer_stop, StopRemove,
                  StopClear, rt_timer_control, At
    <2>. QED  BY <2>1, <2>2 DEF OnTime
  <1>2. CASE rt_tick_increase
    BY <1>2, TickStep DEF OnTime, rt_tick_increase
  <1>3. CASE CheckCall
    BY <1>3, CheckCallStep DEF OnTime, CheckCall
  <1>4. CASE CheckEnd
    BY <1>4, CheckEndStep DEF OnTime
  <1>5. CASE SoftEnter \/ SoftEnd
    BY <1>5, SoftEdgeStep DEF OnTime, SoftEnter, SoftEnd
  <1>6. CASE SoftCall
    BY <1>6, SoftCallStep DEF OnTime, SoftCall
  <1>7. CASE rt_thread_timer_entry
    BY <1>7, EntryStep DEF OnTime, rt_thread_timer_entry
  <1>8. CASE rt_thread_sleep
    BY <1>8, SleepStep DEF OnTime, rt_thread_sleep
  <1>9. CASE UNCHANGED vars
    <2>1. UNCHANGED <<rt_tick, rt_timer_list, rt_soft_timer_list, checking, activated, periodic,
                      init_tick, timeout_tick, pc, stat, current_tick, next_timeout, due, called>>
      BY <1>9 DEF vars, lists, settings, thread
    <2>2. TypeOK' /\ ListsInv' /\ StartInv' /\ SettingsInv'
      BY <2>1 DEF TimerInv, TypeOK, ListsInv, StartInv, SettingsInv, Listed, Near, Apart
    <2>3. FlagInv' /\ ThreadInv' /\ StaleInv'
      BY <2>1 DEF TimerInv, FlagInv, ThreadInv, StaleInv, Listed, Apart
    <2>. QED  BY <1>9, <2>2, <2>3 DEF TimerInv
  <1>. QED
    BY <1>1, <1>2, <1>3, <1>4, <1>5, <1>6, <1>7, <1>8, <1>9 DEF Next, rt_timer_check, rt_soft_timer_check

\* The invariant holds in every reachable state.
LEMMA TimerInvariance == Spec => []TimerInv
  BY TimerInit, TimerStep, PTL DEF Spec

\* For every number of timers and every width of the tick, both lists stay in the
\* order of the real timeouts: across every wrap, and however rt_timer_start is
\* preempted between the computation of timeout_tick and the insertion, as long
\* as no timer is compared over more than half the range of the tick.
THEOREM TimersStayOrdered == Spec => []TimersOrdered
  <1>1. TimerInv => TimersOrdered
    <2> SUFFICES ASSUME TimerInv PROVE TimersOrdered
      OBVIOUS
    <2>1. ASSUME NEW u \in Listed
          PROVE  Minus(timeout_tick[u], rt_tick) = due[u] % (TickMax + 1)
      <3>1. /\ timeout_tick[u] \in 0..TickMax /\ due[u] \in Int /\ rt_tick \in 0..TickMax
            /\ Near(timeout_tick[u], rt_tick, due[u])
        BY ListTypes DEF TimerInv, TypeOK, ListsInv, Listed
      <3>2. -K <= due[u] /\ due[u] < K /\ Apart(timeout_tick[u], rt_tick, due[u])
        BY <3>1, Sizes DEF Near
      <3>. QED  BY <3>1, <3>2, ApartMinus
    <2>2. /\ \A i \in 1..Len(rt_timer_list) : rt_timer_list[i] \in Listed
          /\ \A i \in 1..Len(rt_soft_timer_list) : rt_soft_timer_list[i] \in Listed
      BY ListTypes DEF Listed, ToSet
    <2>3. TypeOK /\ Sorted(rt_timer_list, due) /\ Sorted(rt_soft_timer_list, due)
      BY DEF TimerInv, ListsInv
    <2>. QED  BY <2>1, <2>2, <2>3 DEF TimersOrdered, Ordered, Sorted
  <1>. QED  BY <1>1, TimerInvariance, PTL

\* The timer thread never sleeps past the first soft timer by more than the ticks
\* it was delayed before it slept, whatever is started and stopped meanwhile.
THEOREM ThreadSleepsNotTooLong == Spec => []SleepsNotTooLong
  <1>1. TimerInv => SleepsNotTooLong
    BY DEF TimerInv, ThreadInv, SleepsNotTooLong
  <1>. QED  BY <1>1, TimerInvariance, PTL

\* Outside the calls on it, a timer that does not start itself has its flag exactly
\* while it is in a list, so that rt_timer_stop finds every timer that runs.
THEOREM FlagIsListed == Spec => []FlagTellsListed
  <1>1. TimerInv => FlagTellsListed
    BY DEF TimerInv, FlagInv, FlagTellsListed, Listed
  <1>. QED  BY <1>1, TimerInvariance, PTL

\* No timeout function is called early, also with the stale tick of the timer
\* thread, and the clock interrupt leaves no hard timer that is due.
THEOREM TimersAreCalledOnTime == Spec => CalledOnTime
  BY TimerInvariance, TimerStep, PTL DEF Spec, CalledOnTime, OnTime
=============================================================================
