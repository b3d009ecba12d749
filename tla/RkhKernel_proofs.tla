-------------------------- MODULE RkhKernel_proofs --------------------------
(***************************************************************************)
(* Proofs about RkhKernel: with timers that post from the tick, the queues *)
(* are still those of RkhQueue, so that what is proved of them there holds *)
(* here, for any number of timers, counts and periods; the list of timers  *)
(* holds those in use, once each; and it implements TimerService.          *)
(***************************************************************************)
EXTENDS RkhKernel, RkhQueue_proofs

USE RkhTimerAssumption, RkhKernelAssumption

-----------------------------------------------------------------------------
(* A post of the kernel is one of RkhQueue.  *)
LEMMA PostIsPost ==
  ASSUME NEW a \in Prios, NEW ev \in Events, Put(a, ev) \/ PutFull(a)
  PROVE  Next
BY DEF Next

(* The timers keep their types, and one that runs is in the list (by used).  *)
Running == \A x \in Timers : ntick[x] # 0 => used[x]

TmrInv ==
  /\ TmrTypeOK
  /\ arming \in Timers \cup {NoTimer}
  /\ Running

\* A timer counts down to 0, to its period, or by one.
LEMMA VisitCounts ==
  ASSUME TmrTypeOK, Visit
  PROVE  /\ ntick' \in [Timers -> Nat]
         /\ \A x \in Timers \ {t} : ntick'[x] = ntick[x]
         /\ ntick'[t] # 0 => ntick[t] # 0
<1>1. t \in Timers /\ ntick[t] \in Nat /\ period[t] \in Nat
  <2>1. t \in Timers /\ ntick[t] \in Nat /\ period[t] \in Periods \cup {0}
    BY DEF TmrTypeOK, Visit
  <2>2. Periods \cup {0} \subseteq Nat
    OBVIOUS
  <2> QED
    BY <2>1, <2>2
<1> DEFINE n == IF ntick[t] = 0 THEN 0
                ELSE IF ntick[t] = 1 THEN period[t] ELSE ntick[t] - 1
<1>2. n \in Nat /\ (n # 0 => ntick[t] # 0)
  BY <1>1
<1>3. ntick' = [ntick EXCEPT ![t] = n]
  BY DEF Visit
<1>4. ntick' \in [Timers -> Nat]
  BY <1>2, <1>3 DEF TmrTypeOK
<1>5. \A x \in Timers \ {t} : ntick'[x] = ntick[x]
  BY <1>3 DEF TmrTypeOK
<1>6. ntick'[t] = n
  BY <1>1, <1>3 DEF TmrTypeOK
<1> QED
  BY <1>2, <1>4, <1>5, <1>6

\* A timer is unlinked only when it runs no more.
LEMMA VisitKeeps == ASSUME TmrInv, Visit PROVE TmrTypeOK' /\ Running'
<1>1. t \in Timers /\ t' \in Timers \cup {NoTimer}
  BY DEF TmrInv, TmrTypeOK, Visit
<1>2. CASE ntick[t] = 0 \/ (ntick[t] = 1 /\ period[t] = 0)
  <2>1. rem_from_list /\ tprev' = tprev /\ period' = period
    BY <1>2 DEF Visit
  <2>2. ntick'[t] = 0
    BY <1>1, <1>2 DEF Visit, TmrInv, TmrTypeOK
  <2>3. /\ thead' \in Timers \cup {NoTimer}
        /\ tnext' \in [Timers -> Timers \cup {NoTimer}]
        /\ used' \in [Timers -> BOOLEAN]
        /\ \A x \in Timers \ {t} : used'[x] = used[x]
    BY <1>1, <2>1 DEF rem_from_list, TmrInv, TmrTypeOK
  <2> QED
    BY <1>1, <2>1, <2>2, <2>3, VisitCounts DEF TmrInv, TmrTypeOK, Running
<1>3. CASE ~(ntick[t] = 0 \/ (ntick[t] = 1 /\ period[t] = 0))
  BY <1>1, <1>3, VisitCounts DEF TmrInv, TmrTypeOK, Running, Visit, list
<1> QED
  BY <1>2, <1>3

LEMMA TmrInvInit == KernelInit => TmrInv
BY DEF KernelInit, TmrInit, TmrInv, TmrTypeOK, Running

(* What the kernel does to the queues and the thread is a step of RkhQueue *)
(* or none: starting and stopping timers, and the walk of the tick between *)
(* two expiries, leave them alone.                                         *)
LEMMA KernelSteps == 
  ASSUME TmrTypeOK, [KernelNext]_kernelVars PROVE [Next]_vars
<1>1. CASE \E p \in Posted : KernelPost(p[1], p[2])
  <2>1. PICK p \in Posted : KernelPost(p[1], p[2])
    BY <1>1
  <2>2. p[1] \in Prios /\ p[2] \in Events
    BY <2>1
  <2> QED
    BY <2>1, <2>2, PostIsPost DEF KernelPost
<1>2. CASE KernelSchedule
  BY <1>2 DEF KernelSchedule, Next
<1>3. CASE \E x \in Timers, p \in Periods : BeginArming(x, p)
  BY <1>3 DEF BeginArming, InDispatch
<1>4. CASE \E n \in Counts : Arm(n)
  BY <1>4 DEF Arm, InDispatch
<1>5. CASE \E x \in Timers : Disarm(x)
  BY <1>5 DEF Disarm, InDispatch
<1>6. CASE KernelTick
  BY <1>6 DEF KernelTick
<1>7. CASE KernelVisit
  <2>1. CASE Expires
    <3>1. t \in Timers
      BY <2>1 DEF Expires, TmrTypeOK
    <3>2. SmaOf[t] \in Prios /\ EvtOf[t] \in Events
      BY <3>1
    <3> QED
      BY <1>7, <2>1, <3>2, PostIsPost DEF KernelVisit
  <2> QED
    BY <1>7, <2>1 DEF KernelVisit
<1> QED
  BY <1>1, <1>2, <1>3, <1>4, <1>5, <1>6, <1>7 DEF KernelNext, kernelVars

LEMMA TmrInvNext == ASSUME TmrInv, [KernelNext]_kernelVars PROVE TmrInv'
<1>1. CASE \/ \E p \in Posted : KernelPost(p[1], p[2])
           \/ KernelSchedule
           \/ UNCHANGED kernelVars
  BY <1>1 DEF KernelPost, KernelSchedule, kernelVars, tmrVars, list,
     TmrInv, TmrTypeOK, Running
<1>2. CASE \E x \in Timers, p \in Periods : BeginArming(x, p)
  BY <1>2 DEF BeginArming, SetPeriod, list, TmrInv, TmrTypeOK, Running
<1>3. CASE \E n \in Counts : Arm(n)
  <2>1. PICK n \in Counts : Arm(n)
    BY <1>3
  <2>2. n \in Nat \ {0} /\ arming \in Timers /\ Start(arming, n)
    BY <2>1 DEF Arm, TmrInv
  <2>3. /\ ntick' \in [Timers -> Nat]
        /\ \A x \in Timers : ntick'[x] = IF x = arming THEN n ELSE ntick[x]
    BY <2>2 DEF Start, TmrInv, TmrTypeOK
  <2>4. /\ thead' \in Timers \cup {NoTimer}
        /\ tnext' \in [Timers -> Timers \cup {NoTimer}]
        /\ used' \in [Timers -> BOOLEAN]
        /\ used'[arming] /\ \A x \in Timers \ {arming} : used'[x] = used[x]
    BY <2>2 DEF Start, list, TmrInv, TmrTypeOK
  <2>5. UNCHANGED <<period, t, tprev>> /\ arming' = NoTimer
    BY <2>1, <2>2 DEF Arm, Start
  <2> QED
    BY <2>3, <2>4, <2>5 DEF TmrInv, TmrTypeOK, Running
<1>4. CASE \E x \in Timers : Disarm(x)
  BY <1>4 DEF Disarm, Stop, list, TmrInv, TmrTypeOK, Running
<1>5. CASE KernelTick
  BY <1>5 DEF KernelTick, TickBegins, list, TmrInv, TmrTypeOK, Running
<1>6. CASE KernelVisit
  BY <1>6, VisitKeeps DEF KernelVisit, TmrInv
<1> QED
  BY <1>1, <1>2, <1>3, <1>4, <1>5, <1>6 DEF KernelNext

LEMMA TmrInvariance == KernelSpec => []TmrInv
BY TmrInvInit, TmrInvNext, PTL DEF KernelSpec

-----------------------------------------------------------------------------
(* Linked lists.  LinkedBy(n, x) is the least set that holds x and, of     *)
(* each timer in it, the next one, so a set with both holds it.            *)
Links == [Timers -> Timers \cup {NoTimer}]

LEMMA LinkedHolds ==
  ASSUME NEW n \in Links, NEW x \in Timers \cup {NoTimer}
  PROVE  /\ LinkedBy(n, x) \subseteq Timers
         /\ x \in LinkedBy(n, x) \cup {NoTimer}
         /\ Closed(n, LinkedBy(n, x))
<1>1. x \in LinkedBy(n, x) \cup {NoTimer}
  BY DEF LinkedBy
<1>2. Closed(n, LinkedBy(n, x))
  <2> SUFFICES ASSUME NEW y \in LinkedBy(n, x), n[y] # NoTimer
               PROVE  n[y] \in LinkedBy(n, x)
    BY DEF Closed
  <2>1. n[y] \in Timers
    BY DEF LinkedBy, Links
  <2>2. ASSUME NEW S \in SUBSET Timers, x \in S \cup {NoTimer}, Closed(n, S)
        PROVE  n[y] \in S
    BY <2>2 DEF LinkedBy, Closed
  <2> QED
    BY <2>1, <2>2 DEF LinkedBy
<1> QED
  BY <1>1, <1>2 DEF LinkedBy

LEMMA LinkedLeast ==
  ASSUME NEW n, NEW x, NEW S \in SUBSET Timers,
         x \in S \cup {NoTimer}, Closed(n, S)
  PROVE  LinkedBy(n, x) \subseteq S
BY DEF LinkedBy

\* From nowhere nothing is linked.
LEMMA LinkedNone == ASSUME NEW n PROVE LinkedBy(n, NoTimer) = {}
<1>1. {} \in SUBSET Timers /\ Closed(n, {})
  BY DEF Closed
<1> QED
  BY <1>1, LinkedLeast

\* A list is its first timer and the list from the next.
LEMMA LinkedOn ==
  ASSUME NEW n \in Links, NEW x \in Timers
  PROVE  LinkedBy(n, x) = {x} \cup LinkedBy(n, n[x])
<1>1. n[x] \in Timers \cup {NoTimer}
  BY DEF Links
<1> DEFINE T == {x} \cup LinkedBy(n, n[x])
<1>2. T \in SUBSET Timers /\ x \in T /\ Closed(n, T)
  BY <1>1, LinkedHolds DEF Closed
<1>3. LinkedBy(n, x) \subseteq T
  BY <1>2, LinkedLeast
<1>4. /\ LinkedBy(n, x) \in SUBSET Timers /\ Closed(n, LinkedBy(n, x))
      /\ x \in LinkedBy(n, x)
  BY LinkedHolds, RkhTimerAssumption
<1>5. n[x] \in LinkedBy(n, x) \cup {NoTimer}
  BY <1>4 DEF Closed
<1>6. LinkedBy(n, n[x]) \subseteq LinkedBy(n, x)
  BY <1>4, <1>5, LinkedLeast
<1> QED
  BY <1>3, <1>4, <1>6

\* A link of a timer that is not in a list does not change the list.
LEMMA LinkedElsewhere ==
  ASSUME NEW n \in Links, NEW x \in Timers \cup {NoTimer},
         NEW p \in Timers \ LinkedBy(n, x),
         NEW m \in Links, \A z \in Timers \ {p} : m[z] = n[z]
  PROVE  LinkedBy(m, x) = LinkedBy(n, x)
<1> DEFINE L == LinkedBy(n, x)
           M == LinkedBy(m, x)
<1>1. L \in SUBSET Timers /\ x \in L \cup {NoTimer} /\ Closed(n, L)
  BY LinkedHolds
<1>2. M \in SUBSET Timers /\ x \in M \cup {NoTimer} /\ Closed(m, M)
  BY LinkedHolds
<1>3. M \subseteq L
  <2>1. Closed(m, L)
    BY <1>1 DEF Closed
  <2> HIDE DEF L
  <2> QED
    BY <1>1, <2>1, LinkedLeast
<1>4. L \subseteq M \cap L
  <2>1. Closed(n, M \cap L)
    BY <1>1, <1>2 DEF Closed
  <2>2. M \cap L \in SUBSET Timers /\ x \in (M \cap L) \cup {NoTimer}
    BY <1>1, <1>2
  <2> HIDE DEF M
  <2> QED
    BY <2>1, <2>2, LinkedLeast
<1> QED
  BY <1>3, <1>4

(* A chain: no two timers of it have the same next, and none has the first *)
(* for its next, so that it ends or goes on for ever, but does not return. *)
Chain(n, h) ==
  /\ \A x, y \in LinkedBy(n, h) : n[x] = n[y] => x = y
  /\ \A x \in LinkedBy(n, h) : n[x] # h

\* No timer of a chain is linked behind itself: so it is of the first, and
\* of the next of each.
LEMMA NoReturn ==
  ASSUME NEW n \in Links, NEW h \in Timers \cup {NoTimer}, Chain(n, h),
         NEW x \in LinkedBy(n, h)
  PROVE  x \notin LinkedBy(n, n[x])
<1> DEFINE L == LinkedBy(n, h)
           S == {y \in L : y \notin LinkedBy(n, n[y])}
<1>1. L \in SUBSET Timers /\ h \in L \cup {NoTimer} /\ Closed(n, L)
  BY LinkedHolds
<1>2. ASSUME NEW y \in L, NEW T \in SUBSET Timers,
             T = LinkedBy(n, y) \ {y}, \A w \in T : n[w] # y, n[y] # y
      PROVE  y \notin LinkedBy(n, n[y])
  <2>1. y \in Timers /\ n[y] \in Timers \cup {NoTimer}
    BY <1>1 DEF Links
  <2>2. Closed(n, LinkedBy(n, y)) /\ y \in LinkedBy(n, y)
    BY <2>1, LinkedHolds
  <2>3. Closed(n, T) /\ n[y] \in T \cup {NoTimer}
    BY <1>2, <2>2 DEF Closed
  <2>4. LinkedBy(n, n[y]) \subseteq T
    BY <2>3, LinkedLeast
  <2> QED
    BY <1>2, <2>4
<1>3. h \in S \cup {NoTimer}
  <2> SUFFICES ASSUME h # NoTimer PROVE h \in S
    OBVIOUS
  <2> DEFINE T == LinkedBy(n, h) \ {h}
  <2>1. h \in L /\ T \in SUBSET Timers
    BY <1>1
  <2>2. n[h] # h /\ \A w \in T : n[w] # h
    BY <2>1 DEF Chain
  <2>3. h \notin LinkedBy(n, n[h])
    BY <1>2, <2>1, <2>2
  <2> QED
    BY <2>1, <2>3
<1>4. ASSUME NEW y \in S, n[y] # NoTimer PROVE n[y] \in S
  <2> DEFINE z == n[y]
             T == LinkedBy(n, z) \ {z}
  <2>1. y \in L /\ z \in L /\ z \in Timers
    BY <1>1, <1>4 DEF Closed
  <2>2. LinkedBy(n, z) \subseteq L /\ z \in LinkedBy(n, z)
    BY <1>1, <2>1, LinkedLeast, LinkedHolds
  <2>3. ASSUME NEW w \in T \cup {z}, n[w] = z PROVE FALSE
    <3>1. w \in L /\ w \in LinkedBy(n, z)
      BY <2>2, <2>3
    <3>2. w = y
      BY <2>1, <2>3, <3>1 DEF Chain
    <3> QED
      BY <3>1, <3>2
  <2>4. T \in SUBSET Timers
    BY <1>1, <2>2
  <2>5. z \notin LinkedBy(n, n[z])
    BY <1>2, <2>1, <2>3, <2>4
  <2> QED
    BY <2>1, <2>5
<1>5. Closed(n, S) /\ S \in SUBSET Timers
  BY <1>1, <1>4 DEF Closed
<1>6. L \subseteq S
  <2> HIDE DEF S
  <2> QED
    BY <1>3, <1>5, LinkedLeast
<1> QED
  BY <1>6

\* What is linked behind a timer of a chain.
LEMMA LinkedBehind ==
  ASSUME NEW n \in Links, NEW h \in Timers \cup {NoTimer}, Chain(n, h),
         NEW x \in LinkedBy(n, h)
  PROVE  LinkedBy(n, n[x]) = LinkedBy(n, x) \ {x}
<1>1. x \in Timers
  BY LinkedHolds
<1> QED
  BY <1>1, LinkedOn, NoReturn

\* add_to_list: a timer becomes the first of the list.
LEMMA LinkedFirst ==
  ASSUME NEW n \in Links, NEW h \in Timers \cup {NoTimer}, Chain(n, h),
         NEW x \in Timers \ LinkedBy(n, h)
  PROVE  LET m == [n EXCEPT ![x] = h]
         IN /\ LinkedBy(m, x) = {x} \cup LinkedBy(n, h)
            /\ Chain(m, x)
<1> DEFINE m == [n EXCEPT ![x] = h]
<1>1. m \in Links /\ m[x] = h /\ \A z \in Timers \ {x} : m[z] = n[z]
  BY DEF Links
<1>2. LinkedBy(m, h) = LinkedBy(n, h)
  <2> HIDE DEF m
  <2> QED
    BY <1>1, LinkedElsewhere
<1>3. LinkedBy(m, x) = {x} \cup LinkedBy(m, m[x])
  <2> HIDE DEF m
  <2> QED
    BY <1>1, LinkedOn
<1>4. LinkedBy(m, x) = {x} \cup LinkedBy(n, h)
  BY <1>1, <1>2, <1>3
<1>5. /\ LinkedBy(n, h) \subseteq Timers
      /\ h \in LinkedBy(n, h) \cup {NoTimer}
      /\ \A z \in LinkedBy(n, h) : n[z] \in LinkedBy(n, h) \cup {NoTimer}
  BY LinkedHolds DEF Closed
<1>6. Chain(m, x)
  <2> HIDE DEF m
  <2>1. ASSUME NEW y \in LinkedBy(m, x), NEW z \in LinkedBy(m, x), m[y] = m[z]
        PROVE  y = z
    BY <2>1, <1>1, <1>4, <1>5 DEF Chain
  <2>2. ASSUME NEW y \in LinkedBy(m, x) PROVE m[y] # x
    BY <1>1, <1>4, <1>5
  <2> QED
    BY <2>1, <2>2 DEF Chain
<1> QED
  BY <1>4, <1>6

\* rem_from_list of the first timer.
LEMMA LinkedRest ==
  ASSUME NEW n \in Links, NEW h \in Timers, Chain(n, h)
  PROVE  /\ LinkedBy(n, n[h]) = LinkedBy(n, h) \ {h}
         /\ Chain(n, n[h])
<1>1. h \in LinkedBy(n, h)
  BY LinkedHolds
<1>2. LinkedBy(n, n[h]) = LinkedBy(n, h) \ {h}
  BY <1>1, LinkedBehind
<1>3. ASSUME NEW x \in LinkedBy(n, n[h]) PROVE n[x] # n[h]
  BY <1>1, <1>2, <1>3 DEF Chain
<1> QED
  BY <1>2, <1>3 DEF Chain

\* rem_from_list of another, x, the one before it being p.
LEMMA LinkedWithout ==
  ASSUME NEW n \in Links, NEW h \in Timers, Chain(n, h),
         NEW p \in LinkedBy(n, h), NEW x \in Timers \ {h}, n[p] = x,
         NEW m \in Links, m[p] = n[x],
         \A z \in Timers \ {p} : m[z] = n[z]
  PROVE  /\ LinkedBy(m, h) = LinkedBy(n, h) \ {x}
         /\ LinkedBy(m, n[x]) = LinkedBy(n, x) \ {x}
         /\ Chain(m, h)
         /\ p \in LinkedBy(m, h)
<1> DEFINE L == LinkedBy(n, h)
           M == LinkedBy(m, h)
<1>1. /\ L \in SUBSET Timers /\ h \in L
      /\ \A y \in L : n[y] \in L \cup {NoTimer}
  BY LinkedHolds DEF Closed
<1>2. p \in Timers /\ x \in L /\ n[x] \in Timers \cup {NoTimer}
  BY <1>1 DEF Links
<1>3. \A y \in L : n[y] = x => y = p
  BY DEF Chain
<1>4. /\ LinkedBy(n, n[x]) = LinkedBy(n, x) \ {x} /\ x \notin LinkedBy(n, n[x])
      /\ LinkedBy(n, n[x]) \subseteq L
  <2>1. LinkedBy(n, x) \subseteq L
    BY <1>1, <1>2, LinkedLeast DEF Closed
  <2> QED
    BY <1>2, <2>1, LinkedBehind
<1>5. p \notin LinkedBy(n, n[x])
  <2>1. Closed(n, LinkedBy(n, n[x]))
    BY <1>2, LinkedHolds
  <2> QED
    BY <1>4, <2>1 DEF Closed
<1>6. LinkedBy(m, n[x]) = LinkedBy(n, x) \ {x}
  <2>1. LinkedBy(m, n[x]) = LinkedBy(n, n[x])
    BY <1>2, <1>5, LinkedElsewhere
  <2> QED
    BY <2>1, <1>4
<1>7. n[x] # x /\ p # x
  <2>1. n[x] \in LinkedBy(n, n[x]) \cup {NoTimer}
    BY <1>2, LinkedHolds
  <2>2. n[x] # x
    BY <1>4, <2>1
  <2> QED
    BY <2>2
<1>8. M \subseteq L \ {x}
  <2>1. Closed(m, L \ {x})
    BY <1>1, <1>2, <1>3, <1>7 DEF Closed
  <2>2. L \ {x} \in SUBSET Timers /\ h \in L \ {x}
    BY <1>1
  <2> HIDE DEF L
  <2> QED
    BY <2>1, <2>2, LinkedLeast
<1>9. M \in SUBSET Timers /\ h \in M /\ \A y \in M : m[y] \in M \cup {NoTimer}
    BY LinkedHolds DEF Closed
<1>10. L \subseteq M \cup {x}
  <2> DEFINE T == {y \in L : y \in M \/ (y = x /\ p \in M)}
  <2>1. ASSUME NEW y \in T, n[y] # NoTimer PROVE n[y] \in T
    <3>1. y \in L /\ n[y] \in L /\ y \in Timers
      BY <2>1, <1>1
    <3>2. CASE y = x
      <4>1. p \in M /\ m[p] = n[x]
        BY <2>1, <3>2, <1>8
      <4>2. n[x] \in M
        BY <4>1, <2>1, <3>2, <1>9
      <4> QED
        BY <3>1, <3>2, <4>2
    <3>3. CASE y # x /\ y = p
      BY <2>1, <3>1, <3>3
    <3>4. CASE y # x /\ y # p
      <4>1. y \in M /\ m[y] = n[y]
        BY <2>1, <3>1, <3>4
      <4> QED
        BY <2>1, <3>1, <4>1, <1>9
    <3> QED
      BY <3>2, <3>3, <3>4
  <2>2. T \in SUBSET Timers /\ h \in T /\ Closed(n, T)
    <3> HIDE DEF L, M
    <3> QED
      BY <1>1, <1>9, <2>1 DEF Closed, L
  <2>3. L \subseteq T
    <3> HIDE DEF T
    <3> QED
      BY <2>2, LinkedLeast
  <2> QED
    BY <2>3
<1>11. M = L \ {x}
  BY <1>8, <1>10
<1>12. Chain(m, h)
  <2>1. ASSUME NEW y \in L \ {x}, NEW z \in L \ {x}, m[y] = m[z] PROVE y = z
    <3>1. \A a, b \in L : n[a] = n[b] => a = b
      BY DEF Chain
    <3>2. \A a \in L \ {x} : m[a] = IF a = p THEN n[x] ELSE n[a]
      BY <1>1
    <3> HIDE DEF L
    <3> QED
      BY <2>1, <3>1, <3>2, <1>2
  <2>2. ASSUME NEW y \in L \ {x} PROVE m[y] # h
    BY <1>1, <1>2 DEF Chain
  <2> HIDE DEF L
  <2> QED
    BY <1>11, <2>1, <2>2 DEF Chain
<1> QED
  BY <1>6, <1>7, <1>11, <1>12

-----------------------------------------------------------------------------
(* The list of timers is a chain, which ListAgrees does not say of its     *)
(* first, and a walk is at a timer of it.                                  *)
InUse == \A x \in Timers : used[x] <=> x \in Linked(thead)
Walks ==
  /\ t # NoTimer => t \in Linked(thead)
  /\ t # NoTimer /\ t # thead => tprev \in Linked(thead) /\ tnext[tprev] = t

ListInv == Chain(tnext, thead) /\ InUse /\ Walks

LEMMA ListTypes ==
  ASSUME TmrTypeOK
  PROVE  /\ tnext \in Links /\ thead \in Timers \cup {NoTimer}
         /\ Linked(thead) \subseteq Timers
         /\ thead \in Linked(thead) \cup {NoTimer}
         /\ \A x \in Linked(thead) : tnext[x] \in Linked(thead) \cup {NoTimer}
<1>1. tnext \in Links /\ thead \in Timers \cup {NoTimer}
  BY DEF TmrTypeOK, Links
<1> QED
  BY <1>1, LinkedHolds DEF Linked, Closed

LEMMA ListInit == KernelInit => ListInv
<1>1. KernelInit => Linked(thead) = {}
  BY LinkedNone DEF KernelInit, TmrInit, Linked
<1> QED
  BY <1>1 DEF KernelInit, TmrInit, ListInv, Chain, InUse, Walks, Linked

\* A timer started that is not in the list becomes its first.
LEMMA StartLists ==
  ASSUME TmrTypeOK, ListInv, NEW x \in Timers, NEW n, Start(x, n)
  PROVE  ListInv'
<1>1. CASE used[x]
  BY <1>1 DEF Start, list, ListInv, InUse, Walks, Linked
<1>2. CASE ~used[x]
  <2>1. x \in Timers \ LinkedBy(tnext, thead)
    BY <1>2 DEF ListInv, InUse, Linked
  <2>2. tnext' = [tnext EXCEPT ![x] = thead] /\ thead' = x
    BY <1>2 DEF Start
  <2>3. Linked(thead)' = {x} \cup Linked(thead) /\ Chain(tnext', thead')
    BY <2>1, <2>2, ListTypes, LinkedFirst DEF Linked, ListInv
  <2>4. \A y \in Timers : used'[y] <=> y = x \/ used[y]
    BY <1>2 DEF Start, TmrTypeOK
  <2>5. InUse'
    BY <2>3, <2>4 DEF InUse, ListInv
  <2>6. Walks'
    BY DEF Start, Quiet, Walks
  <2> QED
    BY <2>3, <2>5, <2>6 DEF ListInv
<1> QED
  BY <1>1, <1>2

\* What a pass of the walk does to the list, and to what is left of it.
LEMMA VisitLists ==
  ASSUME TmrTypeOK, ListInv, Visit
  PROVE  /\ ListInv'
         /\ Linked(t)' = Linked(t) \ {t}
<1>1. t \in Timers /\ t \in Linked(thead) /\ thead \in Timers
  BY ListTypes, LinkedNone DEF Visit, TmrTypeOK, ListInv, Walks, Linked
<1>2. t' = tnext[t] /\ t' \in Linked(thead) \cup {NoTimer}
  BY <1>1, ListTypes DEF Visit
<1>3. LinkedBy(tnext, tnext[t]) = Linked(t) \ {t}
  BY <1>1, ListTypes, LinkedBehind DEF ListInv, Linked
<1>4. tnext[t] # t
  <2>1. tnext[t] \in LinkedBy(tnext, tnext[t]) \cup {NoTimer}
    BY <1>1, ListTypes, LinkedHolds DEF Links
  <2> QED
    BY <1>1, <1>3, <2>1
<1> DEFINE unlinks == ntick[t] = 0 \/ (ntick[t] = 1 /\ period[t] = 0)
<1>5. CASE ~unlinks
  <2>1. UNCHANGED list /\ tprev' = t
    BY <1>5 DEF Visit
  <2>2. Walks'
    BY <1>1, <1>2, <1>4, <2>1 DEF Walks, list, Linked
  <2> QED
    BY <1>2, <1>3, <2>1, <2>2 DEF ListInv, InUse, list, Linked
<1>6. CASE unlinks /\ thead = t
  <2>1. thead' = tnext[t] /\ tnext' = tnext /\ used' = [used EXCEPT ![t] = FALSE]
    BY <1>6 DEF Visit, rem_from_list
  <2>2. Linked(thead)' = Linked(thead) \ {t} /\ Chain(tnext, tnext[t])
    BY <1>1, <1>6, <2>1, ListTypes, LinkedRest DEF ListInv, Linked
  <2>3. InUse'
    BY <1>1, <2>1, <2>2 DEF InUse, ListInv, TmrTypeOK
  <2>4. Walks'
    BY <1>1, <1>2, <1>4, <2>1, <2>2 DEF Walks
  <2> QED
    BY <1>2, <1>3, <2>1, <2>2, <2>3, <2>4 DEF ListInv, Linked
<1>7. CASE unlinks /\ thead # t
  <2>1. /\ thead' = thead /\ tnext' = [tnext EXCEPT ![tprev] = tnext[t]]
        /\ used' = [used EXCEPT ![t] = FALSE] /\ tprev' = tprev
    BY <1>7 DEF Visit, rem_from_list
  <2>2. tprev \in LinkedBy(tnext, thead) /\ tnext[tprev] = t /\ tprev \in Timers
    BY <1>1, <1>7, ListTypes DEF ListInv, Walks, Linked
  <2>3. /\ tnext \in Links /\ tnext' \in Links
        /\ thead \in Timers /\ t \in Timers \ {thead}
        /\ tnext'[tprev] = tnext[t]
        /\ \A z \in Timers \ {tprev} : tnext'[z] = tnext[z]
    BY <1>1, <1>7, <2>1, <2>2, ListTypes DEF Links
  <2>4. /\ LinkedBy(tnext', thead) = LinkedBy(tnext, thead) \ {t}
        /\ LinkedBy(tnext', tnext[t]) = LinkedBy(tnext, t) \ {t}
        /\ Chain(tnext', thead)
        /\ tprev \in LinkedBy(tnext', thead)
    <3>1. \A m \in Links :
            /\ m[tprev] = tnext[t]
            /\ \A z \in Timers \ {tprev} : m[z] = tnext[z]
            => /\ LinkedBy(m, thead) = LinkedBy(tnext, thead) \ {t}
               /\ LinkedBy(m, tnext[t]) = LinkedBy(tnext, t) \ {t}
               /\ Chain(m, thead)
               /\ tprev \in LinkedBy(m, thead)
      <4>1. Chain(tnext, thead)
        BY DEF ListInv
      <4> QED
        BY <2>2, <2>3, <4>1, LinkedWithout
    <3> QED
      BY <2>3, <3>1
  <2>5. Linked(thead)' = Linked(thead) \ {t} /\ Linked(t)' = Linked(t) \ {t}
    BY <1>2, <2>1, <2>4 DEF Linked
  <2>6. InUse'
    BY <1>1, <2>1, <2>5 DEF InUse, ListInv, TmrTypeOK
  <2>7. tnext'[tprev] = tnext[t]
    BY <2>1, <2>2 DEF TmrTypeOK
  <2>8. Walks'
    BY <1>2, <1>4, <2>1, <2>4, <2>5, <2>7 DEF Walks, Linked
  <2> QED
    BY <2>1, <2>4, <2>5, <2>6, <2>8 DEF ListInv
<1> QED
  BY <1>5, <1>6, <1>7

LEMMA ListNext ==
  ASSUME TmrInv, ListInv, [KernelNext]_kernelVars PROVE ListInv'
<1> USE DEF TmrInv
<1>1. CASE UNCHANGED <<list, t, tprev>>
  BY <1>1 DEF list, ListInv, InUse, Walks, Linked
<1>2. ASSUME NEW n \in Counts, Arm(n) PROVE ListInv'
  <2>1. arming \in Timers /\ Start(arming, n)
    BY <1>2 DEF Arm
  <2> QED
    BY <2>1, StartLists
<1>3. CASE KernelTick
  <2>1. UNCHANGED list /\ t' = thead
    BY <1>3 DEF KernelTick, TickBegins
  <2> QED
    BY <2>1, ListTypes DEF list, ListInv, InUse, Walks, Linked
<1>4. CASE KernelVisit
  BY <1>4, VisitLists DEF KernelVisit
<1>5. CASE \/ \E p \in Posted : KernelPost(p[1], p[2])
           \/ KernelSchedule
           \/ \E x \in Timers, p \in Periods : BeginArming(x, p)
           \/ \E x \in Timers : Disarm(x)
           \/ UNCHANGED kernelVars
  BY <1>1, <1>5 DEF KernelPost, KernelSchedule, BeginArming, SetPeriod, Disarm, Stop,
     kernelVars, tmrVars
<1> QED
  BY <1>2, <1>3, <1>4, <1>5 DEF KernelNext

LEMMA ListInvariance == KernelSpec => [](TmrInv /\ ListInv)
BY TmrInvInit, TmrInvNext, ListInit, ListNext, PTL DEF KernelSpec

(* used tells which timers are in the list, those that run among them, and *)
(* the pointer that rem_from_list unlinks with is the one before.          *)
THEOREM ListIsSound == KernelSpec => []ListAgrees
<1>1. TmrInv /\ ListInv => ListAgrees
  BY DEF TmrInv, Running, ListInv, InUse, Walks, Chain, Linked, ListAgrees
<1> QED
  BY <1>1, ListInvariance, PTL

-----------------------------------------------------------------------------
(* The timers implement TimerService.                                      *)
Todo == {x \in Linked(t) : ntick[x] # 0}

\* Out of a tick nothing is to be counted.
LEMMA QuietIsDone == (Quiet => Todo = {}) /\ (Quiet' => Todo' = {})
BY LinkedNone DEF Quiet, Todo, Linked

\* A pass of the walk counts the timer it is at, if that one runs.
LEMMA VisitIsCount ==
  ASSUME TmrTypeOK, ListInv, Visit
  PROVE  IF ntick[t] = 0 THEN UNCHANGED <<ntick, period, Todo>>
                         ELSE \E x \in Timers : Service!Count(x)
<1>1. t \in Timers /\ Linked(t)' = Linked(t) \ {t} /\ t \in Linked(t)
  BY VisitLists, ListTypes, LinkedHolds DEF Visit, TmrTypeOK, Linked
<1>2. \A x \in Timers \ {t} : ntick'[x] = ntick[x]
  BY VisitCounts
<1>3. Linked(t) \subseteq Timers
  BY <1>1, ListTypes, LinkedHolds DEF Linked
<1>4. Todo' = Todo \ {t}
  BY <1>1, <1>2, <1>3 DEF Todo
<1>5. ntick' = [ntick EXCEPT ![t] =
                  IF @ = 0 THEN 0 ELSE IF @ = 1 THEN period[t] ELSE @ - 1]
      /\ period' = period
  BY DEF Visit
<1>6. CASE ntick[t] = 0
  BY <1>1, <1>4, <1>5, <1>6 DEF Todo, TmrTypeOK
<1>7. CASE ntick[t] # 0
  <2>1. t \in Todo
    BY <1>1, <1>7 DEF Todo
  <2>2. PICK x \in Timers : x = t
    BY <1>1
  <2>3. Service!Count(x)
    BY <1>4, <1>5, <1>7, <2>1, <2>2 DEF Service!Count, Todo
  <2> QED
    BY <1>7, <2>3
<1> QED
  BY <1>6, <1>7

\* Every step maps to a step of TimerService or to a stutter.
LEMMA KernelServes ==
  ASSUME TmrInv, ListInv, [KernelNext]_kernelVars
  PROVE  [Service!Next]_(Service!vars)
<1> USE DEF Service!vars, Service!Next, TmrInv
<1>1. CASE UNCHANGED <<ntick, period, Todo>>
  BY <1>1 DEF Todo
<1>2. CASE \/ \E p \in Posted : KernelPost(p[1], p[2])
           \/ KernelSchedule
           \/ UNCHANGED kernelVars
  BY <1>1, <1>2 DEF KernelPost, KernelSchedule, kernelVars, tmrVars, list, Todo, Linked
<1>3. ASSUME NEW x \in Timers, NEW p \in Periods, BeginArming(x, p)
      PROVE  Service!SetPeriod(x, p)
  <2>1. SetPeriod(x, p) /\ Quiet /\ Quiet'
    BY <1>3 DEF BeginArming, SetPeriod, Quiet
  <2>2. Todo = {} /\ Todo' = {}
    BY <2>1, QuietIsDone
  <2> QED
    BY <2>1, <2>2 DEF Service!SetPeriod, SetPeriod, Todo
<1>4. ASSUME NEW n \in Counts, Arm(n) PROVE Service!Start(arming, n) /\ arming \in Timers
  <2>1. Start(arming, n) /\ Quiet /\ Quiet' /\ arming \in Timers
    BY <1>4 DEF Arm, Start, Quiet
  <2>2. Todo = {} /\ Todo' = {}
    BY <2>1, QuietIsDone
  <2> QED
    BY <2>1, <2>2 DEF Service!Start, Start, Todo
<1>5. ASSUME NEW x \in Timers, Disarm(x) PROVE Service!Stop(x)
  <2>1. Stop(x) /\ Quiet /\ Quiet'
    BY <1>5 DEF Disarm, Stop, Quiet
  <2>2. Todo = {} /\ Todo' = {}
    BY <2>1, QuietIsDone
  <2> QED
    BY <2>1, <2>2 DEF Service!Stop, Stop, Todo
<1>6. CASE KernelTick
  <2>1. Quiet /\ UNCHANGED <<list, ntick, period>> /\ t' = thead
    BY <1>6 DEF KernelTick, TickBegins
  <2>2. Todo' = {x \in Linked(thead) : ntick[x] # 0}
    BY <2>1 DEF Todo, Linked, list
  <2>3. Todo' = {x \in Timers : ntick[x] # 0}
    BY <2>2, ListTypes DEF ListInv, InUse, Running
  <2>4. Todo = {}
    BY <2>1, QuietIsDone
  <2>5. Service!Tick
    BY <2>1, <2>3, <2>4 DEF Service!Tick, Todo
  <2> QED
    BY <2>5
<1>7. CASE KernelVisit
  <2>1. Visit /\ t \in Timers
    BY <1>7 DEF KernelVisit, Visit, TmrTypeOK
  <2>2. CASE ntick[t] = 0
    <3>1. UNCHANGED <<ntick, period, Todo>>
      BY <2>1, <2>2, VisitIsCount
    <3> QED
      BY <1>1, <3>1
  <2>3. CASE ntick[t] # 0
    <3>1. \E x \in Timers : Service!Count(x)
      BY <2>1, <2>3, VisitIsCount
    <3> QED
      BY <3>1
  <2> QED
    BY <2>2, <2>3
<1> QED
  BY <1>2, <1>3, <1>4, <1>5, <1>6, <1>7 DEF KernelNext

(* Every timer counts down once per tick and expires when its count says,  *)
(* whatever is started, stopped or unlinked beside it: the list of         *)
(* rkhtmr.c is to its users a set of independent counters.                 *)
THEOREM TimersServe == KernelSpec => ImplementsTimers
<1>1. KernelInit => Service!Init
  BY QuietIsDone DEF KernelInit, TmrInit, Service!Init, Quiet, Todo
<1>2. TmrInv /\ ListInv /\ [KernelNext]_kernelVars => [Service!Next]_(Service!vars)
  BY KernelServes
<1> QED
  BY <1>1, <1>2, ListInvariance, PTL DEF KernelSpec, ImplementsTimers, Service!Spec

-----------------------------------------------------------------------------
(* The queues and the scheduler's loop of the kernel implement RkhQueue.   *)
THEOREM KernelRunsQueues == KernelSpec => Spec
<1>1. KernelInit => Init
  BY DEF KernelInit
<1>2. TmrInv /\ [KernelNext]_kernelVars => [Next]_vars
  BY KernelSteps DEF TmrInv
<1> QED
  BY <1>1, <1>2, TmrInvariance, PTL DEF KernelSpec, Spec

(* No variable of the kernel leaves its type, no queue its storage, and no *)
(* count of a timer falls below 0 (rkh_tmr_tick decrements it).            *)
THEOREM KernelTypeCorrect == KernelSpec => []KernelTypeOK
<1>1. TmrInv /\ TypeOK => KernelTypeOK
  BY DEF TmrInv, KernelTypeOK
<1> QED
  BY <1>1, TmrInvariance, KernelRunsQueues, RkhTypeCorrect, PTL

(* Pointers, counts and the ready table agree with posts from the tick.    *)
THEOREM KernelQueuesAgree == KernelSpec => []QueueAgreement
BY KernelRunsQueues, QueuesAgree, PTL

(* Nothing but a post to a full queue stops the kernel. *)
THEOREM KernelStopsOnlyWhenFull == KernelSpec => []HaltsOnlyFull
BY KernelRunsQueues, StopsOnlyWhenFull, PTL

(* The highest priority is served first, whatever timers post. *)
THEOREM KernelServesHighest == KernelSpec => ServesHighest
BY KernelRunsQueues, HighestIsServed, PTL

(* Every active object takes its events once and in order, those of timers *)
(* among them.                                                             *)
THEOREM KernelImplementsQueues == KernelSpec => ImplementsEventQueue
BY KernelRunsQueues, RingsImplementQueues, PTL
=============================================================================
