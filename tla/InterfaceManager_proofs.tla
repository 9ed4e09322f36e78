----------------------- MODULE InterfaceManager_proofs -----------------------
(***************************************************************************)
(* The interface manager, for every length of the day, every timeout and   *)
(* all sets of modules and variables: what the scheduler does to its list, *)
(* the watchdog, in which the scheduler plays no part, and who owns the    *)
(* variables scheduled.                                                    *)
(***************************************************************************)
EXTENDS InterfaceManager, FiniteSetTheorems, SequenceTheorems, TLAPS

-----------------------------------------------------------------------------
(* What the operations of the scheduler do to its list.                     *)
\* The elements kept of a list are those that are not gone, each as often as
\* it was.
LEMMA WithoutKeeps ==
    ASSUME NEW S, NEW list \in Seq(S), NEW gone
    PROVE  /\ Without(list, gone) \in Seq(S)
           /\ Range(Without(list, gone)) = Range(list) \ gone
           /\ IsInjective(list) => IsInjective(Without(list, gone))
<1> DEFINE kept    == {n \in DOMAIN list : list[n] \notin gone}
           Below(n) == {k \in kept : k <= n}
           Upto(n) == Cardinality(Below(n))
           count   == Cardinality(kept)
           At(k)   == CHOOSE n \in kept : Upto(n) = k
           Left    == [k \in 1..count |-> list[At(k)]]
<1>1. Without(list, gone) = Left
  BY DEF Without
<1>2. kept \subseteq 1..Len(list) /\ Len(list) \in Nat
  OBVIOUS
<1>3. IsFiniteSet(kept) /\ count \in Nat
  <2>1. IsFiniteSet(1..Len(list))
    BY <1>2, FS_Interval
  <2>2. IsFiniteSet(kept)
    BY <1>2, <2>1, FS_Subset
  <2>3. QED
    BY <2>2, FS_CardinalityType
<1>4. ASSUME NEW n \in kept
      PROVE  IsFiniteSet(Below(n)) /\ Upto(n) \in 1..count
  <2>1. IsFiniteSet(Below(n)) /\ Upto(n) <= count
    BY <1>3, FS_Subset
  <2>2. Upto(n) \in Nat
    BY <2>1, FS_CardinalityType
  <2>3. n \in Below(n)
    BY <1>2
  <2>4. Upto(n) # 0
    BY <2>1, <2>3, FS_EmptySet
  <2>5. QED
    BY <1>3, <2>1, <2>2, <2>4
<1>5. ASSUME NEW m \in kept, NEW n \in kept, Upto(m) = Upto(n)
      PROVE  m = n
  <2>1. ASSUME NEW i \in kept, NEW j \in kept, i < j
        PROVE  Upto(i) # Upto(j)
    <3>1. i \in Nat /\ j \in Nat
      BY <1>2
    <3>2. Below(i) \subseteq Below(j)
      BY <1>2, <2>1, <3>1
    <3>3. j \in Below(j) /\ j \notin Below(i)
      BY <2>1, <3>1
    <3>4. QED
      BY <1>4, <3>2, <3>3, FS_Subset
  <2>2. m \in Nat /\ n \in Nat
    BY <1>2
  <2>3. ~(m < n) /\ ~(n < m)
    BY <1>5, <2>1
  <2>4. QED
    BY <2>2, <2>3
<1>6. ASSUME NEW k \in 1..count
      PROVE  At(k) \in kept /\ Upto(At(k)) = k
  <2> DEFINE f == [n \in kept |-> Upto(n)]
  <2>1. f \in Injection(kept, 1..count)
    <3>1. f \in [kept -> 1..count]
      BY <1>4
    <3>2. \A m, n \in kept : f[m] = f[n] => m = n
      BY <1>5
    <3>3. QED
      BY <3>1, <3>2 DEF Injection, IsInjective
  <2>2. IsFiniteSet(1..count) /\ Cardinality(1..count) = count
    BY <1>3, FS_Interval
  <2>3. f \in Surjection(kept, 1..count)
    <3> HIDE DEF f
    <3>1. QED
      BY <2>1, <2>2, FS_Injection
  <2>4. \E n \in kept : f[n] = k
    BY <2>3 DEF Surjection
  <2>5. \E n \in kept : Upto(n) = k
    BY <2>4
  <2>6. QED
    BY <2>5
<1>7. \A k \in 1..count : Left[k] = list[At(k)]
  OBVIOUS
<1> HIDE DEF At
<1>8. ASSUME NEW k \in 1..count
      PROVE  list[At(k)] \in S
  <2>1. At(k) \in 1..Len(list)
    BY <1>2, <1>6
  <2> HIDE DEF count
  <2>2. QED
    BY <2>1
<1>9. Left \in Seq(S) /\ Len(Left) = count /\ DOMAIN Left = 1..count
  <2> HIDE DEF count
  <2>1. Left \in [1..count -> S]
    BY <1>8
  <2> HIDE DEF Left
  <2>2. Left \in Seq(S)
    BY <1>3, <2>1, SeqDef
  <2>3. QED
    BY <1>3, <2>1, <2>2
<1> HIDE DEF Left
<1>10. Range(Left) = Range(list) \ gone
  <2>1. ASSUME NEW k \in 1..count
        PROVE  Left[k] \in Range(list) \ gone
    BY <1>6, <1>7 DEF Range
  <2>2. ASSUME NEW n \in kept
        PROVE  \E k \in 1..count : Left[k] = list[n]
    <3>1. Upto(n) \in 1..count
      BY <1>4
    <3>2. At(Upto(n)) = n
      BY <1>5, <1>6, <3>1
    <3>3. QED
      BY <1>7, <3>1, <3>2
  <2>3. QED
    BY <1>9, <2>1, <2>2 DEF Range
<1>11. ASSUME IsInjective(list)
       PROVE  IsInjective(Left)
  <2>1. ASSUME NEW i \in 1..count, NEW j \in 1..count, Left[i] = Left[j]
        PROVE  i = j
    <3>1. At(i) = At(j)
      BY <1>6, <1>7, <1>11, <2>1 DEF IsInjective
    <3>2. QED
      BY <1>6, <3>1
  <2>2. QED
    BY <1>9, <2>1 DEF IsInjective
<1>12. QED
  BY <1>1, <1>9, <1>10, <1>11

\* A list that names no variable twice and only connected ones.
Sound(s) ==
    /\ s \in Schedulers
    /\ IsInjective(s.list)
    /\ Range(s.list) \subseteq s.connected

(* Two lists without a common element, one after the other.                 *)
LEMMA ConcatKeeps ==
    ASSUME NEW S, NEW a \in Seq(S), NEW b \in Seq(S)
    PROVE  /\ a \o b \in Seq(S)
           /\ Range(a \o b) = Range(a) \cup Range(b)
           /\ IsInjective(a) /\ IsInjective(b) /\ Range(a) \cap Range(b) = {}
                => IsInjective(a \o b)
<1>1. /\ a \o b \in Seq(S) /\ Len(a \o b) = Len(a) + Len(b)
      /\ \A i \in 1..Len(a)+Len(b) :
            (a \o b)[i] = IF i <= Len(a) THEN a[i] ELSE b[i - Len(a)]
  BY ConcatProperties
<1> DEFINE c == a \o b
<1>2. /\ DOMAIN a = 1..Len(a) /\ DOMAIN b = 1..Len(b) /\ DOMAIN c = 1..Len(a)+Len(b)
      /\ Len(a) \in Nat /\ Len(b) \in Nat
  BY <1>1
<1>3. ASSUME NEW i \in DOMAIN c
      PROVE  \/ i \in DOMAIN a /\ c[i] = a[i]
             \/ i - Len(a) \in DOMAIN b /\ c[i] = b[i - Len(a)]
  BY <1>1, <1>2
<1>4. ASSUME NEW i \in DOMAIN a
      PROVE  i \in DOMAIN c /\ c[i] = a[i]
  BY <1>1, <1>2
<1>5. ASSUME NEW i \in DOMAIN b
      PROVE  i + Len(a) \in DOMAIN c /\ c[i + Len(a)] = b[i]
  BY <1>1, <1>2
<1> HIDE DEF c
<1>6. Range(c) = Range(a) \cup Range(b)
  BY <1>3, <1>4, <1>5 DEF Range
<1>7. ASSUME IsInjective(a), IsInjective(b), Range(a) \cap Range(b) = {},
             NEW i \in DOMAIN c, NEW j \in DOMAIN c, c[i] = c[j]
      PROVE  i = j
  <2>1. CASE i \in DOMAIN a /\ c[i] = a[i] /\ j \in DOMAIN a /\ c[j] = a[j]
    BY <1>7, <2>1 DEF IsInjective
  <2>2. CASE /\ i - Len(a) \in DOMAIN b /\ c[i] = b[i - Len(a)]
             /\ j - Len(a) \in DOMAIN b /\ c[j] = b[j - Len(a)]
    <3>1. i - Len(a) = j - Len(a)
      BY <1>7, <2>2 DEF IsInjective
    <3>2. QED
      BY <1>2, <3>1
  <2>3. CASE i \in DOMAIN a /\ c[i] = a[i] /\ j - Len(a) \in DOMAIN b /\ c[j] = b[j - Len(a)]
    BY <1>7, <2>3 DEF Range
  <2>4. CASE j \in DOMAIN a /\ c[j] = a[j] /\ i - Len(a) \in DOMAIN b /\ c[i] = b[i - Len(a)]
    BY <1>7, <2>4 DEF Range
  <2>5. QED
    BY <1>3, <2>1, <2>2, <2>3, <2>4
<1>8. QED
  BY <1>1, <1>6, <1>7 DEF IsInjective, c

(* Adding variables schedules and connects those in the memory of a module. *)
LEMMA AddScheduledKeeps ==
    ASSUME NEW s, Sound(s), NEW variables \in Seq(Variables), IsInjective(variables)
    PROVE  LET t == AddScheduled(s, variables)
           IN  /\ Sound(t) /\ t.modules = s.modules
               /\ Range(t.list) = Range(s.list) \cup (Range(variables) \cap Schedulable)
               /\ t.connected = s.connected \cup (Range(variables) \cap Schedulable)
<1> DEFINE new == Without(variables, Range(s.list) \cup (Variables \ Schedulable))
           t == AddScheduled(s, variables)
<1>1. s \in Schedulers /\ s.list \in Seq(Schedulable)
  BY DEF Sound, Schedulers
<1>2. /\ new \in Seq(Variables) /\ IsInjective(new)
      /\ Range(new) = Range(variables) \ (Range(s.list) \cup (Variables \ Schedulable))
  BY WithoutKeeps
<1>3. Range(variables) \subseteq Variables /\ Range(s.list) \subseteq Schedulable
  BY <1>1, ElementOfSeq DEF Range
<1>4. Range(new) \subseteq Schedulable
  BY <1>2, <1>3
<1>5. t = [s EXCEPT !.list = s.list \o new, !.connected = @ \cup Range(new)]
  BY DEF AddScheduled
<1> HIDE DEF new
<1>6. new \in Seq(Schedulable)
  <2>1. Len(new) \in Nat /\ new \in [1..Len(new) -> Schedulable]
    BY <1>2, <1>4, LenProperties DEF Range
  <2>2. QED
    BY <2>1, SeqDef
<1>7. /\ s.list \o new \in Seq(Schedulable) /\ IsInjective(s.list \o new)
      /\ Range(s.list \o new) = Range(s.list) \cup Range(new)
  BY <1>1, <1>2, <1>6, ConcatKeeps DEF Sound
<1>8. /\ t \in Schedulers /\ t.modules = s.modules /\ t.list = s.list \o new
      /\ t.connected = s.connected \cup Range(new)
  BY <1>1, <1>4, <1>5, <1>7 DEF Schedulers
<1> HIDE DEF t
<1>9. QED
  BY <1>2, <1>3, <1>7, <1>8 DEF Sound, t

(* A module new to the scheduler brings its variables.                      *)
LEMMA AddModuleKeeps ==
    ASSUME NEW s, Sound(s), NEW m \in Modules, m \notin s.modules,
           NEW configuration \in Seq(Variables), IsInjective(configuration)
    PROVE  LET t   == AddModule(s, m, configuration)
               new == Range(configuration) \cap Schedulable
           IN  /\ Sound(t) /\ t.modules = s.modules \cup {m}
               /\ Range(t.list) = Range(s.list) \cup new
               /\ t.connected = s.connected \cup new
<1> DEFINE u == [s EXCEPT !.modules = @ \cup {m}]
<1>1. /\ Sound(u) /\ u.modules = s.modules \cup {m}
      /\ u.list = s.list /\ u.connected = s.connected
  BY DEF Sound, Schedulers
<1>2. AddModule(s, m, configuration) = AddScheduled(u, configuration)
  BY DEF AddModule
<1> HIDE DEF u
<1>3. QED
  BY <1>1, <1>2, AddScheduledKeeps

(* Variables added to a module count if the scheduler serves it.            *)
LEMMA AddedKeeps ==
    ASSUME NEW s, Sound(s), NEW m,
           NEW configuration \in Seq(Variables), IsInjective(configuration)
    PROVE  LET t   == Added(s, m, configuration)
               new == IF m \in s.modules THEN Range(configuration) \cap Schedulable ELSE {}
           IN  /\ Sound(t) /\ t.modules = s.modules
               /\ Range(t.list) = Range(s.list) \cup new
               /\ t.connected = s.connected \cup new
BY AddScheduledKeeps DEF Added

(* Dropping variables from the list.                                        *)
LEMMA DropKeeps ==
    ASSUME NEW s, Sound(s), NEW gone, NEW t,
           t.list = Without(s.list, gone),
           t.modules \in SUBSET Modules, t.connected \in SUBSET Schedulable,
           Range(s.list) \ gone \subseteq t.connected,
           t.list \in Seq(Schedulable) => t \in Schedulers
    PROVE  Sound(t) /\ Range(t.list) = Range(s.list) \ gone
<1>1. s.list \in Seq(Schedulable) /\ IsInjective(s.list)
  BY DEF Sound, Schedulers
<1>2. /\ t.list \in Seq(Schedulable) /\ IsInjective(t.list)
      /\ Range(t.list) = Range(s.list) \ gone
  BY <1>1, WithoutKeeps
<1>3. QED
  BY <1>2 DEF Sound

(* The modules removed are served no longer, their variables not requested. *)
LEMMA RemoveModulesKeeps ==
    ASSUME NEW s, Sound(s), NEW gone, NEW variables
    PROVE  LET t == RemoveModules(s, gone, variables)
           IN  /\ Sound(t) /\ t.modules = s.modules \ gone
               /\ Range(t.list) = Range(s.list) \ variables
               /\ t.connected = s.connected \ (variables \cap Range(s.list))
<1> DEFINE t == RemoveModules(s, gone, variables)
           connected == s.connected \ (variables \cap Range(s.list))
<1>1. /\ s.modules \in SUBSET Modules /\ s.connected \in SUBSET Schedulable
      /\ Range(s.list) \subseteq s.connected
  BY DEF Sound, Schedulers
<1>2. /\ t.list = Without(s.list, variables)
      /\ t.modules = s.modules \ gone /\ t.connected = connected
      /\ t.list \in Seq(Schedulable) => t \in Schedulers
  BY <1>1 DEF RemoveModules, Schedulers
<1> HIDE DEF t
<1>3. QED
  BY <1>1, <1>2, DropKeeps DEF t

(* Variables deleted are forgotten, since every one scheduled is connected. *)
LEMMA RemovedKeeps ==
    ASSUME NEW s, Sound(s), NEW m, NEW variables
    PROVE  LET t == Removed(s, m, variables)
           IN  /\ Sound(t) /\ t.modules = s.modules
               /\ Range(t.list) = Range(s.list) \ variables
               /\ t.connected = s.connected \ variables
<1> DEFINE t == Removed(s, m, variables)
           gone == {v \in variables : m \in s.modules \/ v \in s.connected}
<1>1. /\ s.modules \in SUBSET Modules /\ s.connected \in SUBSET Schedulable
      /\ Range(s.list) \subseteq s.connected /\ s \in Schedulers
  BY DEF Sound, Schedulers
<1>2. /\ t.list = Without(s.list, gone)
      /\ t.modules = s.modules /\ t.connected = s.connected \ variables
      /\ t.list \in Seq(Schedulable) => t \in Schedulers
  BY <1>1 DEF Removed, Schedulers
<1>3. Range(s.list) \ gone = Range(s.list) \ variables
  BY <1>1
<1> HIDE DEF t, gone
<1>4. QED
  BY <1>1, <1>2, <1>3, DropKeeps DEF t

(* Switching a variable on or off only moves itself.                        *)
LEMMA ActivatedKeeps ==
    ASSUME NEW s, Sound(s), NEW v \in Variables, NEW on \in BOOLEAN
    PROVE  LET t == Activated(s, v, on)
           IN  /\ Sound(t) /\ t.modules = s.modules /\ t.connected = s.connected
               /\ Range(s.list) \ {v} \subseteq Range(t.list)
               /\ on /\ v \in s.connected => v \in Range(t.list)
<1> DEFINE t == Activated(s, v, on)
<1>1. /\ s.modules \in SUBSET Modules /\ s.connected \in SUBSET Schedulable
      /\ Range(s.list) \subseteq s.connected /\ s \in Schedulers
  BY DEF Sound, Schedulers
<1>2. CASE v \notin s.connected
  BY <1>2 DEF Activated
<1>3. CASE v \in s.connected /\ on
  <2>1. t = AddScheduled(s, <<v>>)
    BY <1>3 DEF Activated
  <2>2. <<v>> \in Seq(Variables) /\ IsInjective(<<v>>) /\ Range(<<v>>) = {v}
    BY DEF IsInjective, Range
  <2>3. /\ Sound(t) /\ t.modules = s.modules
        /\ Range(t.list) = Range(s.list) \cup ({v} \cap Schedulable)
        /\ t.connected = s.connected \cup ({v} \cap Schedulable)
    BY <2>1, <2>2, AddScheduledKeeps, ZenonT(30)
  <2> HIDE DEF t
  <2>4. QED
    BY <1>1, <1>3, <2>3 DEF t
<1>4. CASE v \in s.connected /\ ~on
  <2>1. /\ t.list = Without(s.list, {v})
        /\ t.modules = s.modules /\ t.connected = s.connected
        /\ t.list \in Seq(Schedulable) => t \in Schedulers
    BY <1>1, <1>4 DEF Activated, RemoveScheduled, Schedulers
  <2> HIDE DEF t
  <2>2. QED
    BY <1>1, <1>4, <2>1, DropKeeps DEF t
<1>5. QED
  BY <1>2, <1>3, <1>4

(* The head of the list goes to its end if it is activated.                 *)
LEMMA RotatedKeeps ==
    ASSUME NEW s, Sound(s), s.list # <<>>, NEW on
    PROVE  LET t == Rotated(s, on)
           IN  /\ Sound(t) /\ t.modules = s.modules /\ t.connected = s.connected
               /\ \A v \in Range(s.list) : on[v] => v \in Range(t.list)
<1> DEFINE t == Rotated(s, on)
           v == Head(s.list)
           rest == Tail(s.list)
           one == <<v>>
<1>1. s \in Schedulers /\ s.list \in Seq(Schedulable) /\ IsInjective(s.list)
  BY DEF Sound, Schedulers
<1>2. /\ v \in Schedulable /\ rest \in Seq(Schedulable) /\ Len(rest) = Len(s.list) - 1
      /\ v = s.list[1] /\ \A i \in 1..Len(rest) : rest[i] = s.list[i + 1]
      /\ Len(s.list) \in Nat \ {0} /\ DOMAIN s.list = 1..Len(s.list)
      /\ DOMAIN rest = 1..Len(rest)
  BY <1>1, HeadTailProperties, EmptySeq, LenProperties
<1> HIDE DEF v, rest
<1> DEFINE n == Len(s.list)
<1>3. /\ n \in Nat \ {0} /\ DOMAIN s.list = 1..n /\ DOMAIN rest = 1..n-1
       /\ \A i \in 1..n-1 : rest[i] = s.list[i + 1]
  BY <1>2
<1>4. \A i, j \in 1..n : s.list[i] = s.list[j] => i = j
  BY <1>1, <1>3 DEF IsInjective
<1> HIDE DEF n
<1>5. \A i \in 1..n-1 : i + 1 \in 1..n /\ i + 1 # 1
  BY <1>3
<1>6. IsInjective(rest)
  <2>1. ASSUME NEW i \in 1..n-1, NEW j \in 1..n-1, rest[i] = rest[j]
        PROVE  i = j
    <3>1. i + 1 = j + 1
      BY <1>3, <1>4, <1>5, <2>1
    <3>2. QED
      BY <3>1
  <2>2. QED
    BY <1>3, <2>1 DEF IsInjective
<1>7. v \notin Range(rest)
  <2>1. 1 \in 1..n
    BY <1>3
  <2>2. ASSUME NEW i \in 1..n-1
        PROVE  rest[i] # v
    BY <1>2, <1>3, <1>4, <1>5, <2>1
  <2>3. QED
    BY <1>3, <2>2 DEF Range
<1>8. Range(s.list) = {v} \cup Range(rest)
  <2>1. ASSUME NEW i \in DOMAIN s.list, i # 1
        PROVE  i - 1 \in DOMAIN rest /\ rest[i - 1] = s.list[i]
    BY <1>2, <2>1
  <2>2. ASSUME NEW i \in DOMAIN rest
        PROVE  i + 1 \in DOMAIN s.list /\ s.list[i + 1] = rest[i]
    BY <1>2
  <2>3. 1 \in DOMAIN s.list
    BY <1>2
  <2>4. QED
    BY <1>2, <2>1, <2>2, <2>3 DEF Range
<1>9. one \in Seq(Schedulable) /\ IsInjective(one) /\ Range(one) = {v}
  BY <1>2 DEF IsInjective, Range
<1>10. CASE on[v]
  <2>1. Append(rest, v) = rest \o one
    BY <1>2, AppendIsConcat
  <2>2. /\ t.list = rest \o one /\ t.modules = s.modules /\ t.connected = s.connected
        /\ t.list \in Seq(Schedulable) => t \in Schedulers
    BY <1>1, <1>10, <2>1 DEF Rotated, Schedulers, v, rest
  <2> HIDE DEF t, one
  <2>3. t.list \in Seq(Schedulable) /\ IsInjective(t.list) /\ Range(t.list) = Range(s.list)
    BY <1>2, <1>6, <1>7, <1>8, <1>9, <2>2, ConcatKeeps
  <2>4. QED
    BY <1>1, <2>2, <2>3 DEF Sound, Schedulers, t
<1>11. CASE ~on[v]
  <2>1. /\ t.list = rest /\ t.modules = s.modules /\ t.connected = s.connected
        /\ t.list \in Seq(Schedulable) => t \in Schedulers
    BY <1>1, <1>11 DEF Rotated, Schedulers, v, rest
  <2> HIDE DEF t
  <2>2. QED
    BY <1>1, <1>2, <1>6, <1>8, <1>11, <2>1 DEF Sound, Schedulers, t
<1>12. QED
  BY <1>10, <1>11

-----------------------------------------------------------------------------
(* The watchdog.                                                            *)

TimesTyped ==
    /\ clock \in Times
    /\ known \subseteq Modules /\ active \subseteq known
    /\ heard \in [Modules -> Times]
    /\ silence \in [Modules -> 0..Timeout+1]

(* The time of day is never further from the last answer of a module than   *)
(* its silence, ...                                                         *)
NotAhead ==
    \A m \in known : silence[m] <= Timeout => clock - heard[m] <= silence[m]

(* ... and exactly as far when the answer came early enough in the day.     *)
SameDay ==
    \A m \in known :
        silence[m] <= Timeout /\ heard[m] + Timeout + 1 < Day =>
            clock = heard[m] + silence[m]

Watched == TimesTyped /\ NotAhead /\ SameDay /\ DetectedWithinDay

(* The clock advances by one second and starts again at midnight.           *)
LEMMA NextSecond ==
    ASSUME NEW c \in Times
    PROVE  (c + 1) % Day = IF c + 1 = Day THEN 0 ELSE c + 1
<1> USE ManagerAssumption DEF Times
<1>1. CASE c + 1 = Day
    BY <1>1
<1>2. CASE c + 1 # Day
    <2>1. c + 1 \in 0..Day-1
        BY <1>2
    <2>. QED BY <2>1, <1>2
<1>. QED BY <1>1, <1>2

(* No module is known at first.                                             *)
LEMMA InitWatched == Init => Watched
BY ManagerAssumption
   DEF Init, Watched, TimesTyped, NotAhead, SameDay, DetectedWithinDay, Times

(* A module that answers is heard now.                                      *)
LEMMA HearWatched ==
    ASSUME Watched, NEW m \in Modules, Hear(m),
           known' = known \cup {m}, active' = active \cup {m}
    PROVE  Watched'
<1> USE ManagerAssumption DEF Watched, Times, TimesTyped
<1>1. TimesTyped'
    BY DEF Hear
<1>2. \A k \in known' :
          \/ k = m /\ heard'[k] = clock' /\ silence'[k] = 0
          \/ k # m /\ k \in known /\ heard'[k] = heard[k] /\ silence'[k] = silence[k]
                   /\ (k \in active' => k \in active)
    BY DEF Hear
<1>3. clock' = clock
    BY DEF Hear
<1>4. NotAhead' /\ SameDay'
    BY <1>1, <1>2, <1>3 DEF NotAhead, SameDay
<1>5. DetectedWithinDay'
    BY <1>1, <1>2, <1>3 DEF DetectedWithinDay
<1>. QED BY <1>1, <1>4, <1>5

(* A second passes, and the watchdog looks at every module.                 *)
LEMMA TickWatched ==
    ASSUME Watched, WatchdogTimeout
    PROVE  /\ Watched'
           /\ \A m \in active \ active' : silence'[m] > Timeout
<1> USE ManagerAssumption DEF Watched, Times, TimesTyped
<1>1. clock' = IF clock + 1 = Day THEN 0 ELSE clock + 1
    BY NextSecond DEF WatchdogTimeout
<1>2. /\ known' = known /\ heard' = heard
      /\ active' = {m \in active : ~(clock' - heard[m] > Timeout)}
    BY DEF WatchdogTimeout, SecsTo
<1>3. /\ silence' \in [Modules -> 0..Timeout+1]
      /\ \A m \in Modules :
            silence'[m] = IF silence[m] > Timeout THEN silence[m] ELSE silence[m] + 1
    BY DEF WatchdogTimeout, Elapsed
<1>4. TimesTyped'
    BY <1>1, <1>2, <1>3
<1>5. ASSUME NEW m \in known
      PROVE  /\ silence'[m] <= Timeout => clock' - heard[m] <= silence'[m]
             /\ silence'[m] <= Timeout /\ heard[m] + Timeout + 1 < Day =>
                    clock' = heard[m] + silence'[m]
             /\ silence'[m] > Timeout /\ heard[m] + Timeout + 1 < Day => m \notin active'
    <2>1. heard[m] \in 0..Day-1 /\ silence[m] \in 0..Timeout+1 /\ clock \in 0..Day-1
        OBVIOUS
    <2>2. CASE silence[m] > Timeout
        <3>1. silence'[m] = silence[m]
            BY <1>3, <2>2
        <3>2. heard[m] + Timeout + 1 < Day => m \notin active'
            BY <1>2, <2>2 DEF DetectedWithinDay
        <3>. QED BY <3>1, <3>2, <2>1, <2>2
    <2>3. CASE silence[m] <= Timeout
        <3>1. silence'[m] = silence[m] + 1
            BY <1>3, <2>1, <2>3
        <3>2. clock - heard[m] <= silence[m]
            BY <2>3 DEF NotAhead
        <3>3. heard[m] + Timeout + 1 < Day => clock = heard[m] + silence[m]
            BY <2>3 DEF SameDay
        <3>4. heard[m] + Timeout + 1 < Day => clock' = heard[m] + silence'[m]
            BY <1>1, <2>1, <2>3, <3>1, <3>3
        <3>5. clock' - heard[m] <= silence'[m]
            BY <1>1, <2>1, <3>1, <3>2
        <3>6. silence'[m] > Timeout /\ heard[m] + Timeout + 1 < Day => m \notin active'
            BY <1>2, <2>1, <2>3, <3>1, <3>4
        <3>. QED BY <3>4, <3>5, <3>6
    <2>. QED BY <2>1, <2>2, <2>3
<1>6. NotAhead' /\ SameDay' /\ DetectedWithinDay'
    BY <1>2, <1>5 DEF NotAhead, SameDay, DetectedWithinDay
<1>7. ASSUME NEW m \in active \ active'
      PROVE  silence'[m] > Timeout
    <2>1. m \in known /\ clock' - heard[m] > Timeout
        BY <1>2
    <2>2. /\ heard[m] \in 0..Day-1 /\ silence'[m] \in 0..Timeout+1 /\ clock' \in 0..Day-1
          /\ Timeout \in Nat /\ Day \in Nat
        BY <2>1, <1>3, <1>4
    <2>. QED BY <1>5, <2>1, <2>2
<1>. QED BY <1>4, <1>6, <1>7

(* The modules removed are forgotten.                                       *)
LEMMA RemoveWatched ==
    ASSUME Watched, NEW m \in Modules, RemoveModule(m)
    PROVE  Watched'
<1> USE ManagerAssumption DEF Watched, Times, TimesTyped
<1>1. /\ known' = known \ {m} /\ active' = active \ {m} /\ clock' = clock
      /\ heard' = [heard EXCEPT ![m] = 0] /\ silence' = [silence EXCEPT ![m] = 0]
    BY DEF RemoveModule
<1>2. TimesTyped'
    BY <1>1
<1>3. \A k \in known' : k \in known /\ heard'[k] = heard[k] /\ silence'[k] = silence[k]
    BY <1>1
<1>. QED BY <1>1, <1>2, <1>3 DEF NotAhead, SameDay, DetectedWithinDay

(* One step of the manager.                                                 *)
LEMMA StepWatched ==
    ASSUME Watched, [Next]_vars
    PROVE  /\ Watched'
           /\ \A m \in active \ active' : m \in known' => silence'[m] > Timeout
<1>1. CASE WatchdogTimeout
    BY <1>1, TickWatched
<1>2. ASSUME NEW m \in Modules, Refresh(m) \/ Discover(m)
      PROVE  Watched' /\ active \subseteq active'
    <2>1. Hear(m) /\ known' = known \cup {m} /\ active' = active \cup {m}
        BY <1>2 DEF Refresh, Discover
    <2>. QED BY <2>1, HearWatched
<1>3. ASSUME NEW m \in Modules, RemoveModule(m)
      PROVE  Watched' /\ active \ active' = {m} \cap active /\ m \notin known'
    BY <1>3, RemoveWatched DEF RemoveModule
<1>4. ASSUME UNCHANGED <<clock, known, active, heard, silence>>
      PROVE  Watched' /\ active' = active
    BY <1>4 DEF Watched, TimesTyped, NotAhead, SameDay, DetectedWithinDay
<1>5. \/ WatchdogTimeout
      \/ \E m \in Modules : Refresh(m) \/ Discover(m)
      \/ \E m \in Modules : RemoveModule(m)
      \/ UNCHANGED <<clock, known, active, heard, silence>>
    BY DEF Next, vars, SchedulerUpdate, LoadConfiguration, AddVariable, SetActivated, times
<1>. QED BY <1>1, <1>2, <1>3, <1>4, <1>5

(* The watchdog's arithmetic holds in every reachable state.                *)
THEOREM AlwaysWatched == Spec => []Watched
<1>1. Watched /\ [Next]_vars => Watched'
    BY StepWatched
<1>. QED BY InitWatched, <1>1, PTL DEF Spec

(* A module whose last answer came early enough before midnight is inactive *)
(* as soon as its silence exceeds the timeout.                              *)
THEOREM SilenceIsDetected == Spec => []DetectedWithinDay
<1>1. Watched => DetectedWithinDay
    BY DEF Watched
<1>. QED BY AlwaysWatched, <1>1, PTL

(* The watchdog never deactivates a module that answered within the         *)
(* timeout, whatever the time of day.                                       *)
THEOREM NoFalseAlarm == Spec => OnlySilentDeactivated
<1>1. Watched /\ [Next]_vars =>
          [\A m \in active \ active' : m \in known' => silence'[m] > Timeout]_vars
    BY StepWatched
<1>. QED BY AlwaysWatched, <1>1, PTL DEF Spec, OnlySilentDeactivated

-----------------------------------------------------------------------------
(* The variables scheduled.                                                 *)
\* No variable is twice in the configurations, and only known modules have one.
ConfsSound ==
    /\ conf \in [Modules -> Seq(Variables)]
    /\ \A m \in Modules : Len(conf[m]) <= MaxVariables /\ IsInjective(conf[m])
    /\ \A m, n \in Modules : m # n => Range(conf[m]) \cap Range(conf[n]) = {}
    /\ \A m \in Modules : m \notin known => conf[m] = <<>>

\* The scheduler serves the active modules, and is connected to all of their
\* variables and to no others than those of known modules.
ScheduleSound ==
    /\ Sound(sched)
    /\ sched.modules = active
    /\ sched.connected \subseteq VariablesOf(known)
    /\ VariablesOf(active) \cap Schedulable \subseteq sched.connected
    /\ ActiveIsScheduled

Scheduled ==
    /\ activated \in [Variables -> BOOLEAN]
    /\ asked \in Requestable \cup {NoVariable}
    /\ ConfsSound
    /\ ScheduleSound

(* A file loaded names each variable once, and none of another module.      *)
LEMMA LoadableType ==
    ASSUME Scheduled, NEW m \in Modules, NEW s \in Loadable(m)
    PROVE  /\ s \in Seq(Variables) /\ Len(s) <= MaxVariables /\ IsInjective(s)
           /\ \A k \in Modules : k # m => Range(s) \cap Range(conf[k]) = {}
<1> DEFINE free == Variables \ VariablesOf(Modules \ {m})
<1>1. PICK n \in 0..MaxVariables : s \in [1..n -> free]
  BY DEF Loadable, BoundedSeq, SeqOf
<1>2. IsInjective(s) /\ n \in Nat
  BY <1>1, ManagerAssumption DEF Loadable
<1>3. s \in Seq(Variables) /\ Len(s) = n
  <2>1. s \in [1..n -> Variables]
    BY <1>1
  <2>2. s \in Seq(Variables)
    BY <1>2, <2>1, SeqDef
  <2>3. QED
    BY <1>2, <2>1, <2>2
<1>4. Range(s) \subseteq free
  BY <1>1 DEF Range
<1>5. \A k \in Modules : k # m => Range(conf[k]) \subseteq VariablesOf(Modules \ {m})
  BY DEF VariablesOf
<1>6. \A k \in Modules : k # m => Range(s) \cap Range(conf[k]) = {}
  BY <1>4, <1>5
<1>7. Len(s) <= MaxVariables
  BY <1>1, <1>3, ManagerAssumption
<1>8. QED
  BY <1>2, <1>3, <1>6, <1>7

(* The configuration of one module changes to a list of free variables.     *)
LEMMA ConfReplaced ==
    ASSUME Scheduled, NEW m \in Modules, NEW s \in Seq(Variables),
           Len(s) <= MaxVariables, IsInjective(s),
           \A k \in Modules : k # m => Range(s) \cap Range(conf[k]) = {},
           conf' = [conf EXCEPT ![m] = s],
           known \subseteq known' \cup {m}, m \in known' \/ s = <<>>
    PROVE  /\ ConfsSound'
           /\ conf'[m] = s /\ \A k \in Modules : k # m => conf'[k] = conf[k]
<1> USE DEF Scheduled, ConfsSound
<1>1. conf'[m] = s /\ \A k \in Modules : k # m => conf'[k] = conf[k]
  OBVIOUS
<1>2. conf' \in [Modules -> Seq(Variables)]
  OBVIOUS
<1>3. \A k \in Modules : Len(conf'[k]) <= MaxVariables /\ IsInjective(conf'[k])
  BY <1>1
<1>4. \A k, n \in Modules : k # n => Range(conf'[k]) \cap Range(conf'[n]) = {}
  BY <1>1
<1>5. \A k \in Modules : k \notin known' => conf'[k] = <<>>
  BY <1>1
<1>6. QED
  BY <1>1, <1>2, <1>3, <1>4, <1>5

(* Membership in the configurations of some modules.                        *)
LEMMA OwnedBy ==
    ASSUME NEW g, NEW v
    PROVE  /\ v \in VariablesOf(g) <=> \E k \in g : v \in Range(conf[k])
           /\ (v \in VariablesOf(known))' <=> \E k \in known' : v \in Range(conf'[k])
           /\ (v \in VariablesOf(active))' <=> \E k \in active' : v \in Range(conf'[k])
BY DEF VariablesOf

(* No module is known at first.                                             *)
LEMMA InitScheduled == Init => Scheduled
<1> SUFFICES ASSUME Init PROVE Scheduled
  OBVIOUS
<1>1. ConfsSound
  <2>1. <<>> \in Seq(Variables) /\ Len(<<>>) = 0
    BY EmptySeq
  <2>2. IsInjective(<<>>) /\ Range(<<>>) = {}
    BY DEF IsInjective, Range
  <2>3. QED
    BY <2>1, <2>2, ManagerAssumption DEF Init, ConfsSound
<1>2. ScheduleSound
  <2>1. IsInjective(<<>>) /\ Range(<<>>) = {}
    BY DEF IsInjective, Range
  <2>2. VariablesOf({}) = {}
    BY DEF VariablesOf
  <2>3. QED
    BY <2>1, <2>2 DEF Init, ScheduleSound, Sound, Idle, Schedulers, ActiveIsScheduled
<1>3. QED
  BY <1>1, <1>2 DEF Scheduled, Init

(* A module known before answers: it is scheduled if it was inactive.       *)
LEMMA RefreshScheduled ==
    ASSUME Watched', Scheduled, NEW m \in Modules, Refresh(m)
    PROVE  Scheduled'
<1> USE DEF Scheduled
<1>1. /\ m \in known /\ known' = known /\ conf' = conf /\ activated' = activated
      /\ active' = active \cup {m} /\ asked' = NoVariable
      /\ sched' = IF m \in active THEN sched ELSE AddModule(sched, m, conf[m])
  BY DEF Refresh
<1>2. ConfsSound'
  BY <1>1 DEF ConfsSound
<1> DEFINE new == Range(conf[m]) \cap Schedulable
<1>3. CASE m \in active
  BY <1>1, <1>2, <1>3, OwnedBy DEF ScheduleSound, ActiveIsScheduled
<1>4. CASE m \notin active
  <2>1. /\ sched' = AddModule(sched, m, conf[m]) /\ Sound(sched) /\ m \notin sched.modules
        /\ conf[m] \in Seq(Variables) /\ IsInjective(conf[m])
    BY <1>1, <1>4 DEF ScheduleSound, ConfsSound
  <2>2. /\ Sound(sched') /\ sched'.modules = sched.modules \cup {m}
        /\ Range(sched'.list) = Range(sched.list) \cup new
        /\ sched'.connected = sched.connected \cup new
    BY <2>1, AddModuleKeeps
  <2>3. ASSUME NEW v, v \in VariablesOf(active)', v \in Schedulable
        PROVE  v \in VariablesOf(active) \/ v \in new
    BY <1>1, <2>3, OwnedBy
  <2>4. sched'.connected \subseteq VariablesOf(known)'
    BY <1>1, <2>2, OwnedBy DEF ScheduleSound
  <2> HIDE DEF new
  <2>5. ScheduleSound'
    BY <1>1, <2>2, <2>3, <2>4 DEF ScheduleSound, ActiveIsScheduled
  <2>6. QED
    BY <1>1, <1>2, <2>5
<1>5. QED
  BY <1>3, <1>4

(* A new module: its variables, if any, are scheduled.                      *)
LEMMA DiscoverScheduled ==
    ASSUME Watched, Watched', Scheduled, NEW m \in Modules, Discover(m)
    PROVE  Scheduled'
<1> USE DEF Scheduled
<1>1. PICK s \in Loadable(m) :
          conf' = [conf EXCEPT ![m] = s] /\ sched' = AddModule(sched, m, s)
  BY DEF Discover
<1>2. /\ m \notin known /\ known' = known \cup {m} /\ activated' = activated
      /\ active' = active \cup {m} /\ asked' = NoVariable
  BY DEF Discover
<1>3. /\ s \in Seq(Variables) /\ Len(s) <= MaxVariables /\ IsInjective(s)
      /\ \A k \in Modules : k # m => Range(s) \cap Range(conf[k]) = {}
  BY LoadableType
<1>4. /\ ConfsSound'
      /\ conf'[m] = s /\ \A k \in Modules : k # m => conf'[k] = conf[k]
  BY <1>1, <1>2, <1>3, ConfReplaced
<1>5. m \notin active /\ active \subseteq Modules /\ known \subseteq Modules
  BY <1>2 DEF Watched, TimesTyped
<1> DEFINE new == Range(s) \cap Schedulable
<1>6. /\ Sound(sched') /\ sched'.modules = active'
      /\ Range(sched'.list) = Range(sched.list) \cup new
      /\ sched'.connected = sched.connected \cup new
  <2>1. Sound(sched) /\ sched.modules = active
    BY DEF ScheduleSound
  <2>2. QED
    BY <1>1, <1>2, <1>3, <1>5, <2>1, AddModuleKeeps
<1>7. ASSUME NEW v, v \in VariablesOf(active)', v \in Schedulable
      PROVE  v \in VariablesOf(active) \/ v \in new
  BY <1>2, <1>4, <1>5, <1>7, OwnedBy
<1>8. sched'.connected \subseteq VariablesOf(known)'
  <2>1. ASSUME NEW v \in sched.connected
        PROVE  v \in VariablesOf(known)'
    <3>1. PICK k \in known : v \in Range(conf[k])
      BY OwnedBy DEF ScheduleSound
    <3>2. conf'[k] = conf[k] /\ k \in known'
      BY <1>2, <1>4, <1>5
    <3>3. QED
      BY <3>1, <3>2, OwnedBy
  <2>2. ASSUME NEW v \in new
        PROVE  v \in VariablesOf(known)'
    BY <1>2, <1>4, OwnedBy
  <2>3. QED
    BY <1>6, <2>1, <2>2
<1> HIDE DEF new
<1>9. ScheduleSound'
  BY <1>2, <1>6, <1>7, <1>8 DEF ScheduleSound, ActiveIsScheduled
<1>10. QED
  BY <1>2, <1>4, <1>9

(* The variables of the modules deactivated leave the list, no others.      *)
LEMMA TickScheduled ==
    ASSUME Watched, Scheduled, WatchdogTimeout
    PROVE  Scheduled'
<1> USE DEF Scheduled
<1>1. PICK silent \in SUBSET known :
          /\ active' = active \ silent
          /\ sched' = RemoveModules(sched, silent, VariablesOf(silent))
  BY DEF WatchdogTimeout, Unscheduled
<1>2. known' = known /\ conf' = conf /\ activated' = activated /\ asked' = NoVariable
  BY DEF WatchdogTimeout
<1>3. ConfsSound'
  BY <1>2 DEF ConfsSound
<1>4. /\ Sound(sched') /\ sched'.modules = active'
      /\ Range(sched'.list) = Range(sched.list) \ VariablesOf(silent)
      /\ sched'.connected = sched.connected \ (VariablesOf(silent) \cap Range(sched.list))
  BY <1>1, RemoveModulesKeeps DEF ScheduleSound
<1>5. ASSUME NEW v, v \in VariablesOf(active)'
      PROVE  v \in VariablesOf(active) /\ v \notin VariablesOf(silent)
  <2>1. PICK k \in active' : v \in Range(conf[k])
    BY <1>2, <1>5, OwnedBy
  <2>2. k \in active /\ k \notin silent /\ k \in Modules /\ silent \subseteq Modules
    BY <1>1, <2>1 DEF Watched, TimesTyped
  <2>3. \A n \in silent : v \notin Range(conf[n])
    BY <2>1, <2>2 DEF ConfsSound
  <2>4. QED
    BY <2>1, <2>2, <2>3, OwnedBy
<1>6. sched'.connected \subseteq VariablesOf(known)'
  BY <1>2, <1>4, OwnedBy DEF ScheduleSound
<1>7. ScheduleSound'
  BY <1>2, <1>4, <1>5, <1>6 DEF ScheduleSound, ActiveIsScheduled
<1>8. QED
  BY <1>2, <1>3, <1>7

(* The round robin turns.                                                   *)
LEMMA UpdateScheduled ==
    ASSUME Scheduled, SchedulerUpdate
    PROVE  Scheduled'
<1> USE DEF Scheduled
<1>1. /\ known' = known /\ active' = active /\ conf' = conf /\ activated' = activated
      /\ sched.list # <<>> /\ sched' = Rotated(sched, activated)
      /\ asked' \in Requestable \cup {NoVariable}
  BY DEF SchedulerUpdate, Turned
<1>2. ConfsSound'
  BY <1>1 DEF ConfsSound
<1>3. /\ Sound(sched') /\ sched'.modules = sched.modules
      /\ sched'.connected = sched.connected
      /\ \A v \in Range(sched.list) : activated[v] => v \in Range(sched'.list)
  BY <1>1, RotatedKeeps DEF ScheduleSound
<1>4. ScheduleSound'
  BY <1>1, <1>3, OwnedBy DEF ScheduleSound, ActiveIsScheduled
<1>5. QED
  BY <1>1, <1>2, <1>4

(* The variables of the module removed are nowhere.                         *)
LEMMA RemoveScheduledModule ==
    ASSUME Watched, Scheduled, NEW m \in Modules, RemoveModule(m)
    PROVE  Scheduled'
<1> USE DEF Scheduled
<1> DEFINE old == Range(conf[m])
           t == RemoveModules(sched, {m}, old)
<1>1. /\ known' = known \ {m} /\ active' = active \ {m} /\ asked' = NoVariable
      /\ conf' = [conf EXCEPT ![m] = <<>>]
      /\ activated' = [v \in Variables |-> activated[v] \/ v \in old]
      /\ sched' = Removed(t, m, old)
  BY DEF RemoveModule
<1>2. <<>> \in Seq(Variables) /\ Len(<<>>) = 0 /\ IsInjective(<<>>) /\ Range(<<>>) = {}
  BY EmptySeq DEF IsInjective, Range
<1>3. /\ ConfsSound'
      /\ conf'[m] = <<>> /\ \A k \in Modules : k # m => conf'[k] = conf[k]
  <2> DEFINE none == <<>>
  <2>1. /\ none \in Seq(Variables) /\ Len(none) <= MaxVariables /\ IsInjective(none)
        /\ \A k \in Modules : k # m => Range(none) \cap Range(conf[k]) = {}
    BY <1>2, ManagerAssumption
  <2>2. conf' = [conf EXCEPT ![m] = none] /\ known \subseteq known' \cup {m}
    BY <1>1
  <2>3. m \in known' \/ none = <<>>
    OBVIOUS
  <2> HIDE DEF none
  <2>4. /\ ConfsSound'
        /\ conf'[m] = none /\ \A k \in Modules : k # m => conf'[k] = conf[k]
    BY <2>1, <2>2, <2>3, ConfReplaced
  <2>5. QED
    BY <2>4 DEF none
<1>4. /\ Sound(t) /\ t.modules = active'
      /\ Range(t.list) = Range(sched.list) \ old
      /\ t.connected = sched.connected \ (old \cap Range(sched.list))
  BY <1>1, RemoveModulesKeeps DEF ScheduleSound
<1> HIDE DEF t
<1>5. /\ Sound(sched') /\ sched'.modules = active'
      /\ Range(sched'.list) = Range(sched.list) \ old
      /\ sched'.connected = sched.connected \ old
  BY <1>1, <1>4, RemovedKeeps
<1>6. /\ known \subseteq Modules /\ active \subseteq known
      /\ \A k \in Modules : k # m => Range(conf[k]) \cap old = {}
  BY DEF Watched, TimesTyped, ConfsSound
<1>7. activated' \in [Variables -> BOOLEAN]
  BY <1>1, Zenon
<1>8. \A v \in Variables : v \notin old => activated'[v] = activated[v]
  BY <1>1
<1> HIDE DEF old
<1>9. ASSUME NEW v, v \in VariablesOf(active)'
      PROVE  v \in VariablesOf(active) /\ v \notin old
  <2>1. PICK k \in active' : v \in Range(conf'[k])
    BY <1>9, OwnedBy
  <2>2. k \in active /\ k # m /\ k \in Modules
    BY <1>1, <1>6, <2>1
  <2>3. v \in Range(conf[k])
    BY <1>3, <2>1, <2>2
  <2>4. QED
    BY <1>6, <2>2, <2>3, OwnedBy
<1>10. sched'.connected \subseteq VariablesOf(known)'
  <2>1. ASSUME NEW v \in sched'.connected
        PROVE  v \in VariablesOf(known)'
    <3>1. PICK k \in known : v \in Range(conf[k])
      BY <1>5, OwnedBy DEF ScheduleSound
    <3>2. k # m
      BY <1>5, <3>1 DEF old
    <3>3. QED
      BY <1>1, <1>3, <1>6, <3>1, <3>2, OwnedBy
  <2>2. QED
    BY <2>1
<1>11. ActiveIsScheduled'
  BY <1>5, <1>8, <1>9, SchedulableAssumption DEF ScheduleSound, ActiveIsScheduled
<1>12. QED
  BY <1>1, <1>3, <1>5, <1>7, <1>9, <1>10, <1>11 DEF ScheduleSound

(* The variables of the configuration loaded take the place of the old.     *)
LEMMA LoadScheduled ==
    ASSUME Watched, Scheduled, NEW m \in Modules, LoadConfiguration(m)
    PROVE  Scheduled'
<1> USE DEF Scheduled
<1> DEFINE old == Range(conf[m])
           t == Removed(sched, m, old)
<1>1. PICK s \in Loadable(m) : conf' = [conf EXCEPT ![m] = s] /\ sched' = Added(t, m, s)
  BY DEF LoadConfiguration
<1>2. /\ m \in known /\ known' = known /\ active' = active /\ asked' = NoVariable
      /\ activated' = [v \in Variables |-> activated[v] \/ v \in old]
  BY DEF LoadConfiguration
<1>3. /\ s \in Seq(Variables) /\ Len(s) <= MaxVariables /\ IsInjective(s)
      /\ \A k \in Modules : k # m => Range(s) \cap Range(conf[k]) = {}
  BY LoadableType
<1>4. /\ ConfsSound'
      /\ conf'[m] = s /\ \A k \in Modules : k # m => conf'[k] = conf[k]
  BY <1>1, <1>2, <1>3, ConfReplaced
<1>5. /\ Sound(t) /\ t.modules = active
      /\ Range(t.list) = Range(sched.list) \ old
      /\ t.connected = sched.connected \ old
  BY RemovedKeeps DEF ScheduleSound
<1> HIDE DEF t
<1> DEFINE new == IF m \in active THEN Range(s) \cap Schedulable ELSE {}
<1>6. /\ Sound(sched') /\ sched'.modules = active
      /\ Range(sched'.list) = (Range(sched.list) \ old) \cup new
      /\ sched'.connected = (sched.connected \ old) \cup new
  BY <1>1, <1>3, <1>5, AddedKeeps
<1>7. /\ known \subseteq Modules /\ active \subseteq known
      /\ \A k \in Modules : k # m => Range(conf[k]) \cap old = {}
  BY DEF Watched, TimesTyped, ConfsSound
<1>8. activated' \in [Variables -> BOOLEAN]
  BY <1>2, Zenon
<1>9. \A v \in Variables : v \notin old => activated'[v] = activated[v]
  BY <1>2
<1>10. Range(conf[m]) = old
  OBVIOUS
<1> HIDE DEF old
<1>11. ASSUME NEW v, v \in VariablesOf(active)', v \in Schedulable
       PROVE  \/ v \in VariablesOf(active) /\ v \notin old
              \/ v \in new
  <2>1. PICK k \in active : v \in Range(conf'[k])
    BY <1>2, <1>11, OwnedBy
  <2>2. CASE k = m
    BY <1>4, <1>11, <2>1, <2>2
  <2>3. CASE k # m
    BY <1>4, <1>7, <2>1, <2>3, OwnedBy
  <2>4. QED
    BY <2>2, <2>3
<1>12. sched'.connected \subseteq VariablesOf(known)'
  <2>1. ASSUME NEW v \in sched.connected, v \notin old
        PROVE  v \in VariablesOf(known)'
    BY <1>2, <1>4, <1>7, <1>10, <2>1, OwnedBy DEF ScheduleSound
  <2>2. ASSUME NEW v \in new
        PROVE  v \in VariablesOf(known)'
    BY <1>2, <1>4, OwnedBy
  <2>3. QED
    BY <1>6, <2>1, <2>2
<1> HIDE DEF new
<1>13. ActiveIsScheduled'
  BY <1>6, <1>9, <1>11, SchedulableAssumption DEF ScheduleSound, ActiveIsScheduled
<1>14. QED
  BY <1>2, <1>4, <1>6, <1>8, <1>11, <1>12, <1>13 DEF ScheduleSound

(* A new variable is scheduled if its module is active.                     *)
LEMMA AddVariableScheduled ==
    ASSUME Watched, Scheduled, NEW m \in Modules, AddVariable(m)
    PROVE  Scheduled'
<1> USE DEF Scheduled
<1>1. PICK v \in Variables \ VariablesOf(Modules) :
          conf' = [conf EXCEPT ![m] = Append(@, v)] /\ sched' = Added(sched, m, <<v>>)
  BY DEF AddVariable
<1>2. /\ m \in known /\ known' = known /\ active' = active /\ asked' = NoVariable
      /\ activated' = activated /\ Len(conf[m]) < MaxVariables
  BY DEF AddVariable
<1> DEFINE one == <<v>>
           s == conf[m] \o one
<1>3. /\ one \in Seq(Variables) /\ Len(one) = 1 /\ IsInjective(one) /\ Range(one) = {v}
  BY DEF IsInjective, Range
<1>4. /\ conf \in [Modules -> Seq(Variables)] /\ conf[m] \in Seq(Variables)
      /\ IsInjective(conf[m]) /\ \A k \in Modules : v \notin Range(conf[k])
      /\ \A k \in Modules : k # m => Range(conf[m]) \cap Range(conf[k]) = {}
  BY <1>1, OwnedBy DEF ConfsSound
<1>5. conf' = [conf EXCEPT ![m] = s] /\ sched' = Added(sched, m, one)
  BY <1>1, <1>4, AppendIsConcat
<1> HIDE DEF one
<1>6. /\ s \in Seq(Variables) /\ IsInjective(s) /\ Range(s) = Range(conf[m]) \cup {v}
  BY <1>3, <1>4, ConcatKeeps
<1>7. Len(s) <= MaxVariables
  <2>1. Len(s) = Len(conf[m]) + Len(one)
    BY <1>3, <1>4, ConcatProperties, ZenonT(30)
  <2>2. Len(conf[m]) \in Nat
    BY <1>4, LenProperties
  <2> HIDE DEF s
  <2>3. QED
    BY <1>2, <1>3, <2>1, <2>2, ManagerAssumption
<1> HIDE DEF s
<1>8. /\ ConfsSound'
      /\ conf'[m] = s /\ \A k \in Modules : k # m => conf'[k] = conf[k]
  <2>1. \A k \in Modules : k # m => Range(s) \cap Range(conf[k]) = {}
    BY <1>4, <1>6
  <2>2. known \subseteq known' \cup {m} /\ (m \in known' \/ s = <<>>)
    BY <1>2
  <2>3. QED
    BY <1>5, <1>6, <1>7, <2>1, <2>2, ConfReplaced
<1> DEFINE new == IF m \in active THEN {v} \cap Schedulable ELSE {}
<1>9. /\ Sound(sched') /\ sched'.modules = active
      /\ Range(sched'.list) = Range(sched.list) \cup new
      /\ sched'.connected = sched.connected \cup new
  BY <1>3, <1>5, AddedKeeps DEF ScheduleSound
<1>10. ASSUME NEW w, w \in VariablesOf(active)', w \in Schedulable
       PROVE  w \in VariablesOf(active) \/ w \in new
  <2>1. PICK k \in active : w \in Range(conf'[k])
    BY <1>2, <1>10, OwnedBy
  <2>2. CASE k = m
    BY <1>6, <1>8, <1>10, <2>1, <2>2, OwnedBy
  <2>3. k \in Modules
    BY DEF Watched, TimesTyped
  <2>4. QED
    BY <1>8, <2>1, <2>2, <2>3, OwnedBy
<1>11. sched'.connected \subseteq VariablesOf(known)'
  <2>1. \A k \in known : k \in Modules /\ Range(conf[k]) \subseteq Range(conf'[k])
    BY <1>6, <1>8 DEF Watched, TimesTyped
  <2>2. ASSUME NEW w \in sched.connected
        PROVE  w \in VariablesOf(known)'
    BY <1>2, <2>1, OwnedBy DEF ScheduleSound
  <2>3. ASSUME NEW w \in new
        PROVE  w \in VariablesOf(known)'
    BY <1>2, <1>6, <1>8, OwnedBy
  <2>4. QED
    BY <1>9, <2>2, <2>3
<1> HIDE DEF new
<1>12. QED
  BY <1>2, <1>8, <1>9, <1>10, <1>11 DEF ScheduleSound, ActiveIsScheduled

(* A variable switched on is scheduled if it is connected, as those of the  *)
(* active modules are.                                                      *)
LEMMA SwitchScheduled ==
    ASSUME Scheduled, NEW v \in Variables, SetActivated(v)
    PROVE  Scheduled'
<1> USE DEF Scheduled
<1>1. /\ known' = known /\ active' = active /\ conf' = conf /\ asked' = NoVariable
      /\ activated' = [activated EXCEPT ![v] = ~@]
      /\ sched' = Activated(sched, v, ~activated[v])
  BY DEF SetActivated
<1>2. ConfsSound'
  BY <1>1 DEF ConfsSound
<1>3. /\ activated' \in [Variables -> BOOLEAN]
      /\ activated'[v] = ~activated[v]
      /\ \A w \in Variables : w # v => activated'[w] = activated[w]
  BY <1>1
<1>4. /\ Sound(sched') /\ sched'.modules = sched.modules
      /\ sched'.connected = sched.connected
      /\ Range(sched.list) \ {v} \subseteq Range(sched'.list)
      /\ ~activated[v] /\ v \in sched.connected => v \in Range(sched'.list)
  BY <1>1, ActivatedKeeps DEF ScheduleSound
<1>5. VariablesOf(known)' = VariablesOf(known) /\ VariablesOf(active)' = VariablesOf(active)
  BY <1>1 DEF VariablesOf
<1>6. ActiveIsScheduled'
  <2>1. ASSUME NEW w \in VariablesOf(active) \cap Schedulable, activated'[w]
        PROVE  w \in Range(sched'.list)
    <3>1. w \in sched.connected /\ (activated[w] => w \in Range(sched.list))
      BY DEF ScheduleSound, ActiveIsScheduled
    <3>2. CASE w = v
      BY <1>3, <1>4, <2>1, <3>1, <3>2
    <3>3. CASE w # v
      BY <1>3, <1>4, <2>1, <3>1, <3>3, SchedulableAssumption
    <3>4. QED
      BY <3>2, <3>3
  <2>2. QED
    BY <1>5, <2>1 DEF ActiveIsScheduled
<1>7. QED
  BY <1>1, <1>2, <1>3, <1>4, <1>5, <1>6 DEF ScheduleSound

(* The variables of the active modules are scheduled in every state.        *)
THEOREM AlwaysScheduled == Spec => [](Watched /\ Scheduled)
<1>1. ASSUME Watched, Scheduled, [Next]_vars
      PROVE  Watched' /\ Scheduled'
  <2>1. Watched'
    BY <1>1, StepWatched
  <2>2. CASE UNCHANGED vars
    <3>1. VariablesOf(known)' = VariablesOf(known) /\ VariablesOf(active)' = VariablesOf(active)
      BY <2>2 DEF vars, VariablesOf
    <3>2. QED
      BY <1>1, <2>1, <2>2, <3>1
         DEF vars, Scheduled, ConfsSound, ScheduleSound, ActiveIsScheduled
  <2>3. QED
    BY <1>1, <2>1, <2>2, TickScheduled, UpdateScheduled, RefreshScheduled, DiscoverScheduled,
       RemoveScheduledModule, LoadScheduled, AddVariableScheduled, SwitchScheduled DEF Next
<1>2. QED
  BY InitWatched, InitScheduled, <1>1, PTL DEF Spec

(* The state of the manager keeps its types.                                *)
THEOREM TypeCorrect == Spec => []TypeOK
<1>1. Watched /\ Scheduled => TypeOK
  BY DEF Watched, TimesTyped, Scheduled, ConfsSound, ScheduleSound, Sound, TypeOK
<1>2. QED
  BY AlwaysScheduled, <1>1, PTL

(* The round robin holds each variable once, and none that was deleted.     *)
THEOREM OwnersAreKnown == Spec => []ScheduledIsOwned
<1>1. Scheduled => ScheduledIsOwned
  BY DEF Scheduled, ScheduleSound, Sound, ScheduledIsOwned
<1>2. QED
  BY AlwaysScheduled, <1>1, PTL

(* The round robin misses no activated variable of an active module.        *)
THEOREM NoneIsMissing == Spec => []ActiveIsScheduled
<1>1. Scheduled => ActiveIsScheduled
  BY DEF Scheduled, ScheduleSound
<1>2. QED
  BY AlwaysScheduled, <1>1, PTL

=============================================================================
