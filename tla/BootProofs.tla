----------------------------- MODULE BootProofs -----------------------------
(***************************************************************************)
(* Proofs about the CPUs and the init targets of module Boot, for any set  *)
(* of CPUs, any targets without a cycle of dependencies and any order the  *)
(* linker puts them in: every CPU runs the targets of its scope once and   *)
(* behind those they depend on, one CPU at a time, and reaches the         *)
(* scheduler with all of them recorded in a cpu_t of its own.              *)
(*                                                                         *)
(* The first part is about what run_target visits, which is defined by     *)
(* recursion over the dependencies; the rest is the inductive invariant.   *)
(***************************************************************************)
EXTENDS Boot, FiniteSetTheorems, FunctionTheorems, WellFoundedInduction, TLAPS

Has(w, x) == \E i \in 1..Len(w) : w[i] = x

(* Nothing in w is visited before what it depends on.                      *)
Closed(w) == \A i \in 1..Len(w) : \A d \in Found(w[i]) : \E j \in 1..(i - 1) : w[j] = d

(* A CPU that was woken and has not answered yet; a CPU that works on the  *)
(* shared table of targets.                                                *)
Pending(c) == c \in woken /\ pos[c] <= 9
Active(c) == (c = info.bsp /\ woken = {}) \/ Pending(c)

(* Where the boot processor is in arch_init_smp, and behind it.            *)
SMP == SEGMENTS + 15
LOCALS == SEGMENTS + 10

Entered(c, k) == \E i \in 1..(pos[c] - 1) : Program(c)[i].op = "stage" /\ Program(c)[i].stage = k
Covers(c, t) == DO_TARGET(t, IsAp(c))

BootTypes ==
  /\ info \in BootInfo
  /\ pos \in [CPU -> Nat] /\ visits \in [CPU -> Seq(Target)] /\ ran \in [CPU -> Seq(Target)]
  /\ asked = [c \in CPU |-> asked[c]] /\ gs = [c \in CPU |-> gs[c]]
  /\ completed \in [Target -> BOOLEAN] /\ g_init_stage_current \in STAGES
  /\ waiting \in BOOLEAN /\ g_init_ap_finished \in BOOLEAN
  /\ todo \subseteq Working \ {info.bsp} /\ woken \subseteq Working \ {info.bsp}
  /\ todo \intersect woken = {}
  /\ \A c \in CPU : pos[c] >= 1 /\ pos[c] <= (IF IsAp(c) THEN 10 ELSE SMP + 1)

(* One CPU at a time is between its wake-up and its answer.                *)
Turns ==
  /\ \A c \in CPU : IsAp(c) /\ pos[c] > 1 => c \in woken
  /\ \A c \in CPU : Pending(c) =>
       /\ waiting /\ ~g_init_ap_finished /\ g_init_ap_cpu_id = Seqid(c)
       /\ \A d \in woken : d # c => pos[d] = 10
  /\ waiting => pos[info.bsp] = SMP
  /\ woken # {} => pos[info.bsp] >= SMP

(* Who is not at work has nothing to do.                                   *)
Quiet ==
  /\ \A c \in CPU : visits[c] # <<>> => Active(c) /\ (IsAp(c) => pos[c] > 1)
  /\ \A c \in CPU : IsAp(c) /\ pos[c] = 10 => asked[c] = <<>>
  /\ pos[info.bsp] > SMP => visits[info.bsp] = <<>>
  /\ \A c \in CPU : IsAp(c) /\ pos[c] = 1 => ran[c] = <<>>

(* No stage that an active CPU will enter is behind the current one.       *)
StagesAhead ==
  \A c \in CPU : Active(c) =>
    \A i \in pos[c]..Len(Program(c)) :
      Program(c)[i].op = "stage" => Program(c)[i].stage >= g_init_stage_current

(* The shared flags say what the active CPU has run.                       *)
FlagsMatch ==
  \A c \in CPU : Active(c) => \A t \in Target : Covers(c, t) => (completed[t] <=> Has(ran[c], t))

(* Every target of a stage has been run, or is still to be visited behind  *)
(* what it depends on.                                                     *)
StagesRun ==
  \A c \in CPU : \A t \in Target :
    Covers(c, t) /\ Entered(c, Stage[t]) => Has(ran[c], t) \/ Has(visits[c], t)
VisitsClosed ==
  \A c \in CPU : \A i \in 1..Len(visits[c]) : \A d \in Found(visits[c][i]) :
    (\E j \in 1..(i - 1) : visits[c][j] = d) \/ (Covers(c, d) => Has(ran[c], d))

RanDistinct ==
  \A c \in CPU : /\ \A i, j \in 1..Len(ran[c]) : ran[c][i] = ran[c][j] => i = j
                 /\ \A i \in 1..Len(ran[c]) : Covers(c, ran[c][i])

(* What a CPU has run is recorded in the cpu_t that it uses.               *)
Recorded ==
  /\ DOMAIN setup = (IF pos[info.bsp] <= LOCALS THEN {EARLY_BSP}
                     ELSE {EARLY_BSP} \union {Seqid(c) : c \in Working})
  /\ setup = [s \in DOMAIN setup |-> setup[s]]
  /\ gs[info.bsp] = (IF pos[info.bsp] <= LOCALS THEN EARLY_BSP ELSE Seqid(info.bsp))
  /\ \A c \in CPU : IsAp(c) /\ pos[c] > 1 => gs[c] = Seqid(c)
  /\ setup[gs[info.bsp]] = {t \in Target : Has(ran[info.bsp], t)}
  /\ pos[info.bsp] > LOCALS => \A c \in Working \ {info.bsp} :
       setup[Seqid(c)] = {t \in Target : Has(ran[c], t)}

BootInv ==
  /\ BootTypes /\ Turns /\ Quiet /\ StagesAhead /\ FlagsMatch
  /\ StagesRun /\ VisitsClosed /\ RanDistinct /\ DependenciesFirst /\ Recorded
---------------------------------------------------------------------------
(* What run_target visits.                                                 *)

(* The least counterexample stands in for induction.                       *)
LEMMA LeastExists ==
  ASSUME NEW S, S \subseteq Nat, S # {}
  PROVE  \E v \in S : \A u \in S : v <= u
  <1> DEFINE R == OpToRel(<, Nat)
  <1>1. IsWellFoundedOn(R, Nat)
    BY NatLessThanWellFounded
  <1>2. \A x, y \in Nat : x < y => <<x, y>> \in R
    BY DEF OpToRel
  <1> HIDE DEF R
  <1>3. PICK x \in S : \A y \in S : ~ (<<y, x>> \in R)
    BY <1>1, WFMin
  <1>4. \A u \in S : x <= u
    <2> TAKE u \in S
    <2>1. x \in Nat /\ u \in Nat /\ ~(u < x)
      BY <1>2, <1>3
    <2> QED BY <2>1
  <1> QED BY <1>4

(* Joining two sequences keeps what is in them, and closedness.            *)
LEMMA JoinHas ==
  ASSUME NEW v \in Seq(Target), NEW w \in Seq(Target)
  PROVE  /\ v \o w \in Seq(Target)
         /\ \A x : Has(v \o w, x) <=> Has(v, x) \/ Has(w, x)
  <1>1. v \o w \in Seq(Target) /\ Len(v \o w) = Len(v) + Len(w) /\ Len(v) \in Nat /\ Len(w) \in Nat
    OBVIOUS
  <1>2. /\ \A i \in 1..Len(v) : (v \o w)[i] = v[i]
        /\ \A i \in (Len(v) + 1)..(Len(v) + Len(w)) : (v \o w)[i] = w[i - Len(v)]
    OBVIOUS
  <1>3. ASSUME NEW x, Has(v \o w, x) PROVE Has(v, x) \/ Has(w, x)
    <2>1. PICK i \in 1..(Len(v) + Len(w)) : (v \o w)[i] = x
      BY <1>1, <1>3 DEF Has
    <2>2. CASE i <= Len(v)
      BY <1>1, <1>2, <2>1, <2>2 DEF Has
    <2>3. CASE i > Len(v)
      <3>1. i \in (Len(v) + 1)..(Len(v) + Len(w)) /\ i - Len(v) \in 1..Len(w)
        BY <1>1, <2>1, <2>3
      <3> QED BY <1>2, <2>1, <3>1 DEF Has
    <2> QED BY <1>1, <2>1, <2>2, <2>3
  <1>4. ASSUME NEW x, Has(v, x) PROVE Has(v \o w, x)
    <2>1. PICK i \in 1..Len(v) : v[i] = x
      BY <1>4 DEF Has
    <2>2. i \in 1..Len(v \o w) /\ (v \o w)[i] = x
      BY <1>1, <1>2, <2>1
    <2> QED BY <2>2 DEF Has
  <1>5. ASSUME NEW x, Has(w, x) PROVE Has(v \o w, x)
    <2>1. PICK i \in 1..Len(w) : w[i] = x
      BY <1>5 DEF Has
    <2>2. /\ Len(v) + i \in 1..Len(v \o w) /\ Len(v) + i \in (Len(v) + 1)..(Len(v) + Len(w))
          /\ (Len(v) + i) - Len(v) = i
      BY <1>1, <2>1
    <2>3. (v \o w)[Len(v) + i] = x
      BY <1>2, <2>1, <2>2
    <2> QED BY <2>2, <2>3 DEF Has
  <1> QED BY <1>1, <1>3, <1>4, <1>5

LEMMA JoinClosed ==
  ASSUME NEW v \in Seq(Target), NEW w \in Seq(Target), Closed(v),
         \A i \in 1..Len(w) : \A d \in Found(w[i]) : Has(v, d) \/ \E j \in 1..(i - 1) : w[j] = d
  PROVE  Closed(v \o w)
  <1>1. Len(v \o w) = Len(v) + Len(w) /\ Len(v) \in Nat /\ Len(w) \in Nat
    OBVIOUS
  <1>2. /\ \A i \in 1..Len(v) : (v \o w)[i] = v[i]
        /\ \A i \in (Len(v) + 1)..(Len(v) + Len(w)) : (v \o w)[i] = w[i - Len(v)]
    OBVIOUS
  <1> DEFINE u == v \o w
  <1> HIDE DEF u
  <1>3. /\ Len(u) = Len(v) + Len(w) /\ Len(v) \in Nat /\ Len(w) \in Nat
        /\ \A i \in 1..Len(v) : u[i] = v[i]
        /\ \A i \in (Len(v) + 1)..(Len(v) + Len(w)) : u[i] = w[i - Len(v)]
    BY <1>1, <1>2 DEF u
  <1>4. ASSUME NEW i \in 1..Len(u), NEW d \in Found(u[i])
        PROVE  \E j \in 1..(i - 1) : u[j] = d
    <2>1. CASE i <= Len(v)
      <3>1. i \in 1..Len(v) /\ u[i] = v[i]
        BY <1>3, <2>1
      <3>2. PICK j \in 1..(i - 1) : v[j] = d
        BY <1>4, <3>1 DEF Closed
      <3>3. j \in 1..Len(v)
        BY <1>3, <3>1, <3>2
      <3> QED BY <1>3, <3>2, <3>3
    <2>2. CASE i > Len(v)
      <3>1. /\ i \in (Len(v) + 1)..(Len(v) + Len(w)) /\ i - Len(v) \in 1..Len(w)
            /\ u[i] = w[i - Len(v)]
        BY <1>3, <2>2
      <3>2. CASE Has(v, d)
        <4>1. PICK j \in 1..Len(v) : v[j] = d
          BY <3>2 DEF Has
        <4>2. j \in 1..(i - 1)
          BY <1>3, <2>2, <4>1
        <4> QED BY <1>3, <4>1, <4>2
      <3>3. CASE \E j \in 1..((i - Len(v)) - 1) : w[j] = d
        <4>1. PICK j \in 1..((i - Len(v)) - 1) : w[j] = d
          BY <3>3
        <4>2. /\ Len(v) + j \in 1..(i - 1) /\ Len(v) + j \in (Len(v) + 1)..(Len(v) + Len(w))
              /\ (Len(v) + j) - Len(v) = j
          BY <1>3, <3>1, <4>1
        <4> QED BY <1>3, <4>1, <4>2
      <3> QED BY <1>4, <3>1, <3>2, <3>3
    <2> QED BY <1>3, <2>1, <2>2
  <1> QED BY <1>4 DEF Closed, u

(* A sequence that is empty holds nothing; one of a single element holds   *)
(* that.                                                                   *)
LEMMA HasFew ==
  /\ \A x : ~Has(<<>>, x)
  /\ \A x, y : Has(<<y>>, x) <=> x = y
  BY DEF Has

(* The partial results of FlattenSeq, up to the k-th sequence.             *)
Partial(s, f, k) ==
  /\ f = [i \in 1..k |-> IF i = 1 THEN s[i] ELSE f[i - 1] \o s[i]]
  /\ f \in [1..k -> Seq(Target)]

LEMMA PartialExists ==
  ASSUME NEW n \in Nat, NEW s \in [1..n -> Seq(Target)], NEW m \in 1..n
  PROVE  \E f : Partial(s, f, m)
  <1> DEFINE Bad == {k \in 1..n : ~\E f : Partial(s, f, k)}
  <1> SUFFICES Bad = {}
    OBVIOUS
  <1> SUFFICES ASSUME Bad # {} PROVE FALSE
    OBVIOUS
  <1>1. PICK k \in Bad : \A j \in Bad : k <= j
    <2>1. Bad \subseteq Nat
      OBVIOUS
    <2> HIDE DEF Bad
    <2> QED BY <2>1, LeastExists
  <1>2. k \in 1..n /\ ~\E f : Partial(s, f, k)
    OBVIOUS
  <1>3. CASE k = 1
    <2> DEFINE f == [i \in 1..1 |-> s[i]]
    <2>1. f \in [1..1 -> Seq(Target)]
      BY <1>2
    <2>2. f = [i \in 1..1 |-> IF i = 1 THEN s[i] ELSE f[i - 1] \o s[i]]
      OBVIOUS
    <2> HIDE DEF f
    <2> QED BY <1>2, <1>3, <2>1, <2>2 DEF Partial
  <1>4. CASE k # 1
    <2>1. k - 1 \in 1..n /\ k - 1 \in Nat /\ k - 1 < k
      BY <1>2, <1>4
    <2>a. k - 1 \notin Bad
      <3> HIDE DEF Bad
      <3> SUFFICES ASSUME k - 1 \in Bad PROVE FALSE
        OBVIOUS
      <3>1. k <= k - 1
        BY <1>1
      <3> QED BY <1>2, <3>1
    <2>2. PICK g : Partial(s, g, k - 1)
      BY <2>1, <2>a
    <2>3. /\ g \in [1..(k - 1) -> Seq(Target)]
          /\ \A i \in 1..(k - 1) : g[i] = IF i = 1 THEN s[i] ELSE g[i - 1] \o s[i]
      BY <2>2 DEF Partial
    <2> DEFINE f == [i \in 1..k |-> IF i = k THEN g[k - 1] \o s[k] ELSE g[i]]
    <2>4. g[k - 1] \o s[k] \in Seq(Target)
      <3>1. g[k - 1] \in Seq(Target) /\ s[k] \in Seq(Target)
        BY <1>2, <1>4, <2>1, <2>3
      <3> QED BY <3>1
    <2>5. f \in [1..k -> Seq(Target)]
      BY <1>2, <2>3, <2>4
    <2>6. ASSUME NEW i \in 1..k
          PROVE  f[i] = IF i = 1 THEN s[i] ELSE f[i - 1] \o s[i]
      <3>1. CASE i = k
        <4>1. f[i] = g[k - 1] \o s[k] /\ f[k - 1] = g[k - 1]
          BY <1>2, <1>4, <3>1
        <4> HIDE DEF f
        <4> QED BY <1>4, <3>1, <4>1
      <3>2. CASE i # k
        <4>1. i \in 1..(k - 1) /\ f[i] = g[i]
          BY <1>2, <3>2
        <4>2. i # 1 => i - 1 \in 1..(k - 1) /\ f[i - 1] = g[i - 1]
          BY <1>2, <4>1
        <4> HIDE DEF f
        <4> QED BY <2>3, <4>1, <4>2
      <3> QED BY <3>1, <3>2
    <2> HIDE DEF f
    <2>7. f = [i \in 1..k |-> IF i = 1 THEN s[i] ELSE f[i - 1] \o s[i]]
      BY <2>5, <2>6
    <2> QED BY <1>2, <2>5, <2>7 DEF Partial
  <1> QED BY <1>3, <1>4

(* FlattenSeq holds what the sequences hold, and is closed when they are.  *)
LEMMA FlattenHas ==
  ASSUME NEW n \in Nat, NEW s \in [1..n -> Seq(Target)]
  PROVE  /\ FlattenSeq(s) \in Seq(Target)
         /\ \A x : Has(FlattenSeq(s), x) <=> \E i \in 1..n : Has(s[i], x)
         /\ (\A i \in 1..n : Closed(s[i])) => Closed(FlattenSeq(s))
  <1>1. s \in Seq(Seq(Target)) /\ Len(s) = n
    OBVIOUS
  <1>2. CASE n = 0
    <2>1. s = <<>>
      BY <1>2
    <2>2. FlattenSeq(s) = <<>>
      BY <1>1, <1>2, <2>1 DEF FlattenSeq
    <2>3. <<>> \in Seq(Target) /\ Closed(<<>>)
      BY DEF Closed
    <2> QED BY <1>2, <2>2, <2>3, HasFew
  <1>3. CASE n # 0
    <2> DEFINE F == CHOOSE f : f = [i \in 1..n |-> IF i = 1 THEN s[i] ELSE f[i - 1] \o s[i]]
    <2>1. FlattenSeq(s) = F[n]
      BY <1>1, <1>3 DEF FlattenSeq
    <2>2. F = [i \in 1..n |-> IF i = 1 THEN s[i] ELSE F[i - 1] \o s[i]]
      <3>1. n \in 1..n
        BY <1>3
      <3>2. \E f : f = [i \in 1..n |-> IF i = 1 THEN s[i] ELSE f[i - 1] \o s[i]]
        <4>1. PICK f : Partial(s, f, n)
          BY <3>1, PartialExists
        <4> QED BY <4>1 DEF Partial
      <3> QED BY <3>2
    <2> HIDE DEF F
    <2>3. \A i \in 1..n : F[i] = IF i = 1 THEN s[i] ELSE F[i - 1] \o s[i]
      BY <2>2
    <2> DEFINE Good(k) == /\ F[k] \in Seq(Target)
                          /\ \A x : Has(F[k], x) <=> \E i \in 1..k : Has(s[i], x)
                          /\ (\A i \in 1..n : Closed(s[i])) => Closed(F[k])
               Bad == {k \in 1..n : ~Good(k)}
    <2>4. Bad = {}
      <3> SUFFICES ASSUME Bad # {} PROVE FALSE
        OBVIOUS
      <3>1. PICK k \in Bad : \A j \in Bad : k <= j
        <4>1. Bad \subseteq Nat
          OBVIOUS
        <4> HIDE DEF Bad
        <4> QED BY <4>1, LeastExists
      <3>2. k \in 1..n /\ ~Good(k)
        OBVIOUS
      <3>3. CASE k = 1
        <4>1. F[1] = s[1] /\ s[1] \in Seq(Target)
          BY <2>3, <3>2, <3>3
        <4>2. \A x : Has(F[1], x) <=> \E i \in 1..1 : Has(s[i], x)
          BY <4>1
        <4> QED BY <3>2, <3>3, <4>1, <4>2
      <3>4. CASE k # 1
        <4>1. k - 1 \in 1..n /\ k - 1 < k
          BY <3>2, <3>4
        <4>2. Good(k - 1)
          <5>1. k - 1 \notin Bad
            <6> HIDE DEF Bad, Good
            <6> SUFFICES ASSUME k - 1 \in Bad PROVE FALSE
              OBVIOUS
            <6>1. k <= k - 1
              BY <3>1
            <6> QED BY <3>2, <6>1
          <5> HIDE DEF Good
          <5> QED BY <4>1, <5>1
        <4>3. F[k] = F[k - 1] \o s[k] /\ s[k] \in Seq(Target)
          BY <2>3, <3>2, <3>4
        <4> DEFINE v == F[k - 1]
        <4>4. v \in Seq(Target) /\ \A x : Has(v, x) <=> \E i \in 1..(k - 1) : Has(s[i], x)
          BY <4>2
        <4>5. (\A i \in 1..n : Closed(s[i])) => Closed(v)
          BY <4>2
        <4> HIDE DEF v, Good, Bad
        <4>6. /\ F[k] \in Seq(Target)
              /\ \A x : Has(F[k], x) <=> Has(v, x) \/ Has(s[k], x)
          BY <4>3, <4>4, JoinHas DEF v
        <4>7. \A x : Has(F[k], x) <=> \E i \in 1..k : Has(s[i], x)
          <5>1. 1..k = 1..(k - 1) \cup {k}
            BY <3>2, <3>4
          <5> QED BY <4>4, <4>6, <5>1
        <4>8. ASSUME \A i \in 1..n : Closed(s[i]) PROVE Closed(F[k])
          <5>1. Closed(v) /\ Closed(s[k])
            BY <3>2, <4>5, <4>8
          <5>2. \A i \in 1..Len(s[k]) : \A d \in Found(s[k][i]) :
                  Has(v, d) \/ \E j \in 1..(i - 1) : s[k][j] = d
            BY <5>1 DEF Closed
          <5> QED BY <4>3, <4>4, <5>1, <5>2, JoinClosed DEF v
        <4>9. Good(k)
          BY <4>6, <4>7, <4>8 DEF Good
        <4> QED BY <3>2, <4>9 DEF Good, Bad
      <3> QED BY <3>3, <3>4
    <2>5. Good(n)
      <3>1. n \in 1..n
        BY <1>3
      <3> HIDE DEF Good
      <3> QED BY <2>4, <3>1
    <2> QED BY <2>1, <2>5
  <1> QED BY <1>2, <1>3
---------------------------------------------------------------------------
(* One step of the recursion: the visits for u when g has those for the    *)
(* targets u depends on.                                                   *)
Body(g, u) ==
  FlattenSeq([i \in DOMAIN Dependencies[u] |->
    IF find_target(Stage[u], Dependencies[u][i]) THEN g[Dependencies[u][i]] ELSE <<>>]) \o <<u>>
Visits == CHOOSE visit : visit = [u \in Target |-> Body(visit, u)]

LEMMA RunTargetVisits ==
  ASSUME NEW t PROVE run_target(t) = Visits[t]
  BY DEF run_target, Visits, Body

LEMMA FoundTargets ==
  ASSUME NEW u \in Target
  PROVE  /\ Found(u) \subseteq Target
         /\ \A d \in Found(u) : Stage[d] = Stage[u]
         /\ \A i \in DOMAIN Dependencies[u] :
              find_target(Stage[u], Dependencies[u][i]) => Dependencies[u][i] \in Found(u)
         /\ \A d \in Found(u) : \E i \in DOMAIN Dependencies[u] :
              d = Dependencies[u][i] /\ find_target(Stage[u], Dependencies[u][i])
  BY DEF Found, find_target, ToSet

LEMMA BodySame ==
  ASSUME NEW u \in Target, NEW g, NEW h, \A d \in Found(u) : g[d] = h[d]
  PROVE  Body(g, u) = Body(h, u)
  <1> DEFINE G == [i \in DOMAIN Dependencies[u] |->
                     IF find_target(Stage[u], Dependencies[u][i]) THEN g[Dependencies[u][i]] ELSE <<>>]
             H == [i \in DOMAIN Dependencies[u] |->
                     IF find_target(Stage[u], Dependencies[u][i]) THEN h[Dependencies[u][i]] ELSE <<>>]
  <1>1. G = H
    BY FoundTargets
  <1> HIDE DEF G, H
  <1>2. FlattenSeq(G) \o <<u>> = FlattenSeq(H) \o <<u>>
    BY <1>1
  <1> QED BY <1>2 DEF Body, G, H

(* g obeys the recursion on X, which holds the dependencies of its members. *)
Solves(X, g) == /\ X \subseteq Target
                /\ \A u \in X : Found(u) \subseteq X /\ g[u] = Body(g, u)

LEMMA SolvesAgree ==
  ASSUME NEW X, NEW g, NEW Y, NEW h, Solves(X, g), Solves(Y, h), NEW u, u \in X, u \in Y
  PROVE  g[u] = h[u]
  <1> DEFINE T == {v \in X \intersect Y : g[v] # h[v]}
  <1> SUFFICES T = {}
    OBVIOUS
  <1> SUFFICES ASSUME T # {} PROVE FALSE
    OBVIOUS
  <1>1. T \in SUBSET Target
    BY DEF Solves
  <1>2. PICK t \in T : Found(t) \intersect T = {}
    <2> HIDE DEF T
    <2> QED BY <1>1, DependencyAssumption
  <1>3. t \in X /\ t \in Y /\ t \in Target /\ g[t] # h[t]
    BY <1>1
  <1>4. Found(t) \subseteq X /\ Found(t) \subseteq Y /\ g[t] = Body(g, t) /\ h[t] = Body(h, t)
    BY <1>3 DEF Solves
  <1>5. \A d \in Found(t) : g[d] = h[d]
    BY <1>2, <1>4
  <1>6. Body(g, t) = Body(h, t)
    BY <1>3, <1>5, BodySame
  <1> QED BY <1>3, <1>4, <1>6

LEMMA SolvesMore ==
  ASSUME NEW X, NEW g, Solves(X, g), NEW t \in Target, t \notin X, Found(t) \subseteq X
  PROVE  \E h : Solves(X \union {t}, h)
  <1> DEFINE h == [u \in X \union {t} |-> IF u = t THEN Body(g, t) ELSE g[u]]
  <1>1. (\A u \in X : h[u] = g[u]) /\ h[t] = Body(g, t)
    OBVIOUS
  <1> HIDE DEF h
  <1>2. \A u \in X : u \in Target /\ Found(u) \subseteq X /\ g[u] = Body(g, u)
    BY DEF Solves
  <1>3. ASSUME NEW u \in X PROVE h[u] = Body(h, u)
    <2>1. Body(h, u) = Body(g, u)
      <3>1. \A d \in Found(u) : h[d] = g[d]
        BY <1>1, <1>2
      <3> QED BY <1>2, <3>1, BodySame
    <2> QED BY <1>1, <1>2, <2>1
  <1>4. h[t] = Body(h, t)
    <2>1. \A d \in Found(t) : h[d] = g[d]
      BY <1>1
    <2>2. Body(h, t) = Body(g, t)
      BY <2>1, BodySame
    <2> QED BY <1>1, <2>2
  <1>5. Solves(X \union {t}, h)
    BY <1>2, <1>3, <1>4 DEF Solves
  <1> QED BY <1>5

LEMMA VisitsExist ==
  \E f : Solves(Target, f)
  <1> DEFINE U == {u \in Target : \E X, g : Solves(X, g) /\ u \in X}
             F == [u \in U |-> CHOOSE v : \E X, g : Solves(X, g) /\ u \in X /\ v = g[u]]
  <1>1. ASSUME NEW X, NEW g, Solves(X, g) PROVE X \subseteq U /\ \A u \in X : F[u] = g[u]
    <2>1. X \subseteq U
      BY <1>1 DEF Solves
    <2>2. ASSUME NEW u \in X PROVE F[u] = g[u]
      <3> DEFINE P(v) == \E Y, h : Solves(Y, h) /\ u \in Y /\ v = h[u]
      <3>1. P(g[u])
        BY <1>1, <2>2
      <3>2. \A v : P(v) => v = g[u]
        BY <1>1, <2>2, SolvesAgree
      <3>3. F[u] = CHOOSE v : P(v)
        BY <2>1
      <3> HIDE DEF P, F, U
      <3>4. (CHOOSE v : P(v)) = g[u]
        BY <3>1, <3>2
      <3> QED BY <3>3, <3>4
    <2> QED BY <2>1, <2>2
  <1>2. \A u \in U : u \in Target /\ \E X, g : Solves(X, g) /\ u \in X
    OBVIOUS
  <1> HIDE DEF U, F
  <1>3. Solves(U, F)
    <2>1. ASSUME NEW u \in U PROVE Found(u) \subseteq U /\ F[u] = Body(F, u)
      <3>1. PICK X, g : Solves(X, g) /\ u \in X
        BY <1>2
      <3>2. X \subseteq U /\ \A v \in X : F[v] = g[v]
        BY <1>1, <3>1
      <3>3. Found(u) \subseteq X /\ g[u] = Body(g, u) /\ u \in Target
        BY <1>2, <3>1 DEF Solves
      <3>4. \A d \in Found(u) : F[d] = g[d]
        BY <3>2, <3>3
      <3>5. Body(F, u) = Body(g, u)
        BY <3>3, <3>4, BodySame
      <3> QED BY <3>1, <3>2, <3>3, <3>5
    <2> QED BY <1>2, <2>1 DEF Solves
  <1>4. U = Target
    <2> SUFFICES ASSUME Target \ U # {} PROVE FALSE
      BY <1>2
    <2>1. PICK t \in Target \ U : Found(t) \intersect (Target \ U) = {}
      BY DependencyAssumption
    <2>2. Found(t) \subseteq U
      BY <2>1, FoundTargets
    <2>3. PICK h : Solves(U \union {t}, h)
      BY <1>3, <2>1, <2>2, SolvesMore
    <2>4. U \union {t} \subseteq U
      BY <1>1, <2>3
    <2> QED BY <2>1, <2>4
  <1> QED BY <1>3, <1>4

LEMMA VisitsUnfold ==
  \A u \in Target : Visits[u] = Body(Visits, u)
  <1>1. PICK f : Solves(Target, f)
    BY VisitsExist
  <1> DEFINE g == [u \in Target |-> Body(f, u)]
  <1>2. \A u \in Target : Body(g, u) = Body(f, u)
    <2> TAKE u \in Target
    <2>1. \A d \in Found(u) : g[d] = f[d]
      BY <1>1, FoundTargets DEF Solves
    <2> HIDE DEF g
    <2> QED BY <2>1, BodySame
  <1>3. g = [u \in Target |-> Body(g, u)]
    BY <1>2
  <1> HIDE DEF g
  <1>4. Visits = [u \in Target |-> Body(Visits, u)]
    BY <1>3 DEF Visits
  <1> QED BY <1>4

(* run_target visits the target, behind all that it depends on.            *)
LEMMA RunTargetClosed ==
  ASSUME NEW t \in Target
  PROVE  run_target(t) \in Seq(Target) /\ Closed(run_target(t)) /\ Has(run_target(t), t)
  <1> DEFINE Good(u) == Visits[u] \in Seq(Target) /\ Closed(Visits[u]) /\ Has(Visits[u], u)
             T == {u \in Target : ~Good(u)}
  <1>1. T = {}
    <2> SUFFICES ASSUME T # {} PROVE FALSE
      OBVIOUS
    <2> HIDE DEF Good
    <2>1. PICK u \in T : Found(u) \intersect T = {}
      <3>1. T \in SUBSET Target
        OBVIOUS
      <3> HIDE DEF T
      <3> QED BY <3>1, DependencyAssumption
    <2>2. u \in Target /\ ~Good(u)
      OBVIOUS
    <2>3. \A d \in Found(u) : Good(d)
      BY <2>1, <2>2, FoundTargets
    <2> DEFINE n == Len(Dependencies[u])
               s == [i \in 1..n |-> IF find_target(Stage[u], Dependencies[u][i])
                                    THEN Visits[Dependencies[u][i]] ELSE <<>>]
    <2>4. n \in Nat /\ DOMAIN Dependencies[u] = 1..n
      BY <2>2, DependencyAssumption
    <2>5. Visits[u] = FlattenSeq(s) \o <<u>>
      BY <2>2, <2>4, VisitsUnfold DEF Body
    <2>6. \A i \in 1..n : IF find_target(Stage[u], Dependencies[u][i])
                          THEN s[i] = Visits[Dependencies[u][i]] /\ Good(Dependencies[u][i])
                          ELSE s[i] = <<>>
      BY <2>2, <2>3, <2>4, FoundTargets
    <2>7. DOMAIN s = 1..n /\ s = [i \in 1..n |-> s[i]]
      OBVIOUS
    <2> HIDE DEF s, n, T
    <2>8. ASSUME NEW i \in 1..n PROVE s[i] \in Seq(Target) /\ Closed(s[i])
      <3>1. <<>> \in Seq(Target) /\ Closed(<<>>)
        BY DEF Closed
      <3> QED BY <2>6, <3>1 DEF Good
    <2>9. s \in [1..n -> Seq(Target)]
      BY <2>7, <2>8
    <2> DEFINE v == FlattenSeq(s)
    <2>10. /\ v \in Seq(Target) /\ Closed(v)
           /\ \A x : Has(v, x) <=> \E i \in 1..n : Has(s[i], x)
      BY <2>4, <2>8, <2>9, FlattenHas
    <2>11. Visits[u] = v \o <<u>>
      BY <2>5
    <2> HIDE DEF v
    <2>12. \A d \in Found(u) : Has(v, d)
      <3> TAKE d \in Found(u)
      <3>1. PICK i \in 1..n : d = Dependencies[u][i] /\ find_target(Stage[u], Dependencies[u][i])
        BY <2>2, <2>4, FoundTargets
      <3>2. s[i] = Visits[d] /\ Good(d)
        BY <2>6, <3>1
      <3> QED BY <2>10, <3>2 DEF Good
    <2> DEFINE w == <<u>>
    <2>13. w \in Seq(Target) /\ Len(w) = 1 /\ w[1] = u
      BY <2>2
    <2>14. Visits[u] = v \o w /\ Has(w, u)
      BY <2>11, HasFew
    <2> HIDE DEF w
    <2>15. \A i \in 1..Len(w) : \A d \in Found(w[i]) : Has(v, d) \/ \E j \in 1..(i - 1) : w[j] = d
      BY <2>12, <2>13
    <2>16. Closed(v \o w)
      BY <2>10, <2>13, <2>15, JoinClosed
    <2>17. v \o w \in Seq(Target) /\ Has(v \o w, u)
      BY <2>10, <2>13, <2>14, JoinHas
    <2> QED BY <2>2, <2>14, <2>16, <2>17 DEF Good
  <1>2. Good(t)
    <2> HIDE DEF Good
    <2> QED BY <1>1
  <1> QED BY <1>2, RunTargetVisits

(* init_run_stage visits every target of the stage, each behind what it    *)
(* depends on.                                                             *)
LEMMA StageClosed ==
  ASSUME NEW order \in Seq(Target), ToSet(order) = Target, NEW k
  PROVE  /\ init_run_stage(order, k) \in Seq(Target)
         /\ Closed(init_run_stage(order, k))
         /\ \A t \in Target : Stage[t] = k => Has(init_run_stage(order, k), t)
  <1> DEFINE n == Len(order)
             s == [i \in 1..n |-> IF Stage[order[i]] = k THEN run_target(order[i]) ELSE <<>>]
  <1>1. n \in Nat /\ DOMAIN order = 1..n /\ \A i \in 1..n : order[i] \in Target
    OBVIOUS
  <1>2. init_run_stage(order, k) = FlattenSeq(s)
    BY <1>1 DEF init_run_stage
  <1>3. \A i \in 1..n : s[i] = IF Stage[order[i]] = k THEN run_target(order[i]) ELSE <<>>
    OBVIOUS
  <1>4. s = [i \in 1..n |-> s[i]]
    OBVIOUS
  <1>5. \A t \in Target : \E i \in 1..n : order[i] = t
    BY <1>1 DEF ToSet
  <1> HIDE DEF s, n
  <1>6. ASSUME NEW i \in 1..n PROVE s[i] \in Seq(Target) /\ Closed(s[i])
    <2>1. <<>> \in Seq(Target) /\ Closed(<<>>)
      BY DEF Closed
    <2>2. order[i] \in Target /\ (s[i] = run_target(order[i]) \/ s[i] = <<>>)
      BY <1>1, <1>3
    <2> QED BY <2>1, <2>2, RunTargetClosed
  <1>7. s \in [1..n -> Seq(Target)]
    BY <1>4, <1>6
  <1>8. /\ FlattenSeq(s) \in Seq(Target) /\ Closed(FlattenSeq(s))
        /\ \A x : Has(FlattenSeq(s), x) <=> \E i \in 1..n : Has(s[i], x)
    BY <1>1, <1>6, <1>7, FlattenHas
  <1>9. ASSUME NEW t \in Target, Stage[t] = k PROVE Has(FlattenSeq(s), t)
    <2>1. PICK i \in 1..n : order[i] = t
      BY <1>5
    <2>2. s[i] = run_target(t)
      BY <1>3, <1>9, <2>1
    <2> QED BY <1>8, <2>2, RunTargetClosed
  <1> QED BY <1>2, <1>8, <1>9
---------------------------------------------------------------------------
(* The programs of the CPUs.                                               *)

LEMMA Joined ==
  ASSUME NEW m \in Nat, NEW n \in Nat, NEW v, NEW w,
         v = [i \in 1..m |-> v[i]], w = [i \in 1..n |-> w[i]]
  PROVE  /\ v \o w = [i \in 1..(m + n) |-> (v \o w)[i]]
         /\ \A i \in 1..m : (v \o w)[i] = v[i]
         /\ \A i \in 1..n : (v \o w)[m + i] = w[i]
         /\ Len(v \o w) = m + n
  <1> DEFINE S == {v[i] : i \in 1..m} \union {w[i] : i \in 1..n}
  <1>1. v \in [1..m -> S] /\ w \in [1..n -> S]
    OBVIOUS
  <1> HIDE DEF S
  <1>2. v \in Seq(S) /\ w \in Seq(S) /\ Len(v) = m /\ Len(w) = n
    BY <1>1
  <1>3. v \o w \in Seq(S) /\ Len(v \o w) = m + n
    BY <1>2
  <1>4. \A i \in 1..m : (v \o w)[i] = v[i]
    BY <1>2
  <1>5. \A i \in 1..n : (v \o w)[m + i] = w[i]
    BY <1>2
  <1>6. v \o w = [i \in 1..(m + n) |-> (v \o w)[i]]
    BY <1>3
  <1> QED BY <1>3, <1>4, <1>5, <1>6

(* Where the steps of init() are.                                          *)
LEMMA InitSteps ==
  /\ SEGMENTS \in Nat /\ Len(init) = SEGMENTS + 16
  /\ init[1] = Step(0) /\ init[4] = Step(1)
  /\ \A i \in 1..(SEGMENTS + 8) : i \notin {1, 4} =>
       init[i].op \in {"count", "regions", "map", "handover"}
  /\ init[SEGMENTS + 9] = Step(2) /\ init[SEGMENTS + 10] = At("locals")
  /\ init[SEGMENTS + 11] = Step(3) /\ init[SEGMENTS + 12] = Step(4)
  /\ init[SEGMENTS + 13] = Step(5) /\ init[SEGMENTS + 14] = Step(6)
  /\ init[SEGMENTS + 15] = At("smp") /\ init[SEGMENTS + 16] = At("handoff")
  <1> DEFINE N == SEGMENTS
             A == << Step(0), At("count"), At("regions"), Step(1), Map(1, <<>>),
                     Map(2, Times(PAGE_DB, "page_db")) >>
             B == [i \in 1..SEGMENTS |-> Map(2 + i, <<"block">>)]
             C == << Map(3 + SEGMENTS, <<>>), At("handover") >>
             D == InitCpus
  <1>1. N \in Nat
    BY BootAssumption
  <1>2. init = ((A \o B) \o C) \o D
    BY DEF init, InitMemory
  <1>3. /\ A = [i \in 1..6 |-> A[i]] /\ A[1] = Step(0) /\ A[4] = Step(1)
        /\ A[2].op = "count" /\ A[3].op = "regions" /\ A[5].op = "map" /\ A[6].op = "map"
    BY DEF At, Map
  <1>4. B = [i \in 1..N |-> B[i]] /\ \A i \in 1..N : B[i].op = "map"
    BY DEF Map
  <1>5. C = [i \in 1..2 |-> C[i]] /\ C[1].op = "map" /\ C[2].op = "handover"
    BY DEF At, Map
  <1>6. /\ D = [i \in 1..8 |-> D[i]]
        /\ D[1] = Step(2) /\ D[2] = At("locals") /\ D[3] = Step(3) /\ D[4] = Step(4) /\ D[5] = Step(5)
        /\ D[6] = Step(6) /\ D[7] = At("smp") /\ D[8] = At("handoff")
    BY DEF InitCpus
  <1> HIDE DEF A, B, C, D, N
  <1> DEFINE AB == A \o B
             ABC == AB \o C
  <1>7. /\ AB = [i \in 1..(6 + N) |-> AB[i]]
        /\ \A i \in 1..6 : AB[i] = A[i]
        /\ \A i \in 1..N : AB[6 + i] = B[i]
    <2>1. 6 \in Nat
      OBVIOUS
    <2> QED BY <1>1, <1>3, <1>4, <2>1, Joined
  <1> HIDE DEF AB
  <1>8. /\ ABC = [i \in 1..(8 + N) |-> ABC[i]]
        /\ \A i \in 1..(6 + N) : ABC[i] = AB[i]
        /\ \A i \in 1..2 : ABC[(6 + N) + i] = C[i]
    <2>1. 2 \in Nat /\ 6 + N \in Nat /\ (6 + N) + 2 = 8 + N
      BY <1>1
    <2> QED BY <1>5, <1>7, <2>1, Joined
  <1> HIDE DEF ABC
  <1>9. /\ \A i \in 1..(8 + N) : (ABC \o D)[i] = ABC[i]
        /\ \A i \in 1..8 : (ABC \o D)[(8 + N) + i] = D[i]
        /\ Len(ABC \o D) = (8 + N) + 8
    <2>1. 8 \in Nat /\ 8 + N \in Nat
      BY <1>1
    <2>2. ABC = [i \in 1..(8 + N) |-> ABC[i]] /\ D = [i \in 1..8 |-> D[i]]
      BY <1>6, <1>8
    <2> DEFINE M == 8 + N
               L == 8
    <2>3. M \in Nat /\ L \in Nat /\ ABC = [i \in 1..M |-> ABC[i]] /\ D = [i \in 1..L |-> D[i]]
      BY <2>1, <2>2
    <2> HIDE DEF M, L
    <2>4. /\ \A i \in 1..M : (ABC \o D)[i] = ABC[i]
          /\ \A i \in 1..L : (ABC \o D)[M + i] = D[i]
          /\ Len(ABC \o D) = M + L
      BY <2>3, Joined
    <2> QED BY <2>4 DEF M, L
  <1>10. init = ABC \o D
    BY <1>2 DEF AB, ABC
  <1>11. /\ \A i \in 1..(8 + N) : init[i] = ABC[i]
         /\ \A i \in 1..8 : init[(8 + N) + i] = D[i]
         /\ Len(init) = (8 + N) + 8
    BY <1>9, <1>10
  <1>12. init[1] = Step(0) /\ init[4] = Step(1)
    <2>1. /\ 1 \in 1..(8 + N) /\ 1 \in 1..(6 + N) /\ 1 \in 1..6
          /\ 4 \in 1..(8 + N) /\ 4 \in 1..(6 + N) /\ 4 \in 1..6
      BY <1>1
    <2> QED BY <1>3, <1>7, <1>8, <1>11, <2>1
  <1>13. ASSUME NEW i \in 1..(N + 8), i \notin {1, 4}
         PROVE  init[i].op \in {"count", "regions", "map", "handover"}
    <2>1. init[i] = ABC[i] /\ i \in Int
      BY <1>1, <1>11, <1>13
    <2>2. CASE i \in {2, 3, 5, 6}
      <3>1. i \in 1..6 /\ i \in 1..(6 + N)
        BY <1>1, <2>2
      <3>2. init[i] = A[i]
        BY <1>7, <1>8, <2>1, <3>1
      <3>3. i = 2 \/ i = 3 \/ i = 5 \/ i = 6
        BY <2>2
      <3> QED BY <1>3, <3>2, <3>3
    <2>3. CASE i >= 7 /\ i <= 6 + N
      <3>1. i - 6 \in 1..N /\ 6 + (i - 6) = i
        BY <1>1, <2>1, <2>3
      <3>2. AB[i] = B[i - 6] /\ ABC[i] = AB[i]
        <4>1. i \in 1..(6 + N)
          BY <1>1, <2>1, <2>3
        <4>2. AB[6 + (i - 6)] = B[i - 6]
          BY <1>7, <3>1
        <4> QED BY <1>8, <3>1, <4>1, <4>2
      <3> QED BY <1>4, <2>1, <3>1, <3>2
    <2>4. CASE i = (6 + N) + 1 \/ i = (6 + N) + 2
      BY <1>1, <1>5, <1>8, <2>1, <2>4
    <2> QED BY <1>1, <1>13, <2>1, <2>2, <2>3, <2>4
  <1>14. /\ SEGMENTS + 9 = (8 + N) + 1 /\ SEGMENTS + 10 = (8 + N) + 2 /\ SEGMENTS + 11 = (8 + N) + 3
         /\ SEGMENTS + 12 = (8 + N) + 4 /\ SEGMENTS + 13 = (8 + N) + 5 /\ SEGMENTS + 14 = (8 + N) + 6
         /\ SEGMENTS + 15 = (8 + N) + 7 /\ SEGMENTS + 16 = (8 + N) + 8 /\ SEGMENTS + 8 = N + 8
    BY <1>1 DEF N
  <1>15. 1 \in 1..8 /\ 2 \in 1..8 /\ 3 \in 1..8 /\ 4 \in 1..8 /\ 5 \in 1..8 /\ 6 \in 1..8 /\ 7 \in 1..8 /\ 8 \in 1..8
    OBVIOUS
  <1>16. SEGMENTS \in Nat
    BY <1>1 DEF N
  <1>17. /\ init[SEGMENTS + 9] = Step(2) /\ init[SEGMENTS + 10] = At("locals")
         /\ init[SEGMENTS + 11] = Step(3) /\ init[SEGMENTS + 12] = Step(4)
         /\ init[SEGMENTS + 13] = Step(5) /\ init[SEGMENTS + 14] = Step(6)
         /\ init[SEGMENTS + 15] = At("smp") /\ init[SEGMENTS + 16] = At("handoff")
    <2>1. /\ init[(8 + N) + 1] = D[1] /\ init[(8 + N) + 2] = D[2] /\ init[(8 + N) + 3] = D[3]
          /\ init[(8 + N) + 4] = D[4] /\ init[(8 + N) + 5] = D[5] /\ init[(8 + N) + 6] = D[6]
          /\ init[(8 + N) + 7] = D[7] /\ init[(8 + N) + 8] = D[8]
      BY <1>11, <1>15
    <2> QED BY Zenon, <1>6, <1>14, <2>1
  <1> QED BY <1>11, <1>12, <1>13, <1>14, <1>16, <1>17

(* Before the call of arch_init_smp init() enters every stage, in order.   *)
LEMMA InitOps ==
  /\ SMP = SEGMENTS + 15 /\ LOCALS = SEGMENTS + 10 /\ SEGMENTS \in Nat /\ Len(init) = SMP + 1
  /\ init[SMP].op = "smp" /\ init[SMP + 1].op = "handoff" /\ init[LOCALS].op = "locals"
  /\ \A i \in 1..(SMP + 1) :
       /\ init[i].op = "locals" => i = LOCALS
       /\ init[i].op = "smp" => i = SMP
       /\ init[i].op = "handoff" => i = SMP + 1
       /\ init[i].op \notin {"parked", "finish"}
       /\ init[i].op = "stage" => i < SMP /\ init[i].stage \in STAGES
  /\ \A i, j \in 1..(SMP + 1) :
       i < j /\ init[i].op = "stage" /\ init[j].op = "stage" => init[i].stage <= init[j].stage
  /\ \A k \in STAGES : \E i \in 1..(SMP - 1) : init[i].op = "stage" /\ init[i].stage = k
  <1> DEFINE N == SEGMENTS
  <1>1. N \in Nat /\ Len(init) = N + 16
    BY InitSteps
  <1>2. /\ init[1].op = "stage" /\ init[1].stage = 0 /\ init[4].op = "stage" /\ init[4].stage = 1
        /\ init[N + 9].op = "stage" /\ init[N + 9].stage = 2
        /\ init[N + 11].op = "stage" /\ init[N + 11].stage = 3
        /\ init[N + 12].op = "stage" /\ init[N + 12].stage = 4
        /\ init[N + 13].op = "stage" /\ init[N + 13].stage = 5
        /\ init[N + 14].op = "stage" /\ init[N + 14].stage = 6
    BY InitSteps DEF Step
  <1>3. init[N + 10].op = "locals" /\ init[N + 15].op = "smp" /\ init[N + 16].op = "handoff"
    BY InitSteps DEF At
  <1>4. \A i \in 1..(N + 8) : i \notin {1, 4} => init[i].op \in {"count", "regions", "map", "handover"}
    BY InitSteps
  <1>5. SMP = N + 15 /\ LOCALS = N + 10
    BY DEF SMP, LOCALS
  <1> HIDE DEF N
  <1>6. ASSUME NEW i \in 1..(N + 16)
        PROVE  \/ i \in {1, 4} \/ i \in {N + 9, N + 10, N + 11, N + 12, N + 13, N + 14, N + 15, N + 16}
               \/ i \in 1..(N + 8) /\ i \notin {1, 4}
    BY <1>1, <1>6
  <1>7. ASSUME NEW i \in 1..(N + 16)
        PROVE  /\ init[i].op = "locals" => i = N + 10
               /\ init[i].op = "smp" => i = N + 15
               /\ init[i].op = "handoff" => i = N + 16
               /\ init[i].op \notin {"parked", "finish"}
    BY <1>1, <1>2, <1>3, <1>4, <1>6
  <1>8. ASSUME NEW i \in 1..(N + 16), init[i].op = "stage"
        PROVE  \/ i = 1 /\ init[i].stage = 0
               \/ i = 4 /\ init[i].stage = 1
               \/ i = N + 9 /\ init[i].stage = 2
               \/ i = N + 11 /\ init[i].stage = 3
               \/ i = N + 12 /\ init[i].stage = 4
               \/ i = N + 13 /\ init[i].stage = 5
               \/ i = N + 14 /\ init[i].stage = 6
    <2>1. CASE i \in {1, 4}
      <3>1. CASE i = 1
        BY <1>2, <3>1
      <3>2. CASE i = 4
        BY <1>2, <3>2
      <3> QED BY <2>1, <3>1, <3>2
    <2>2. CASE i \in 1..(N + 8) /\ i \notin {1, 4}
      BY <1>4, <1>8, <2>2
    <2>3. CASE i \in {N + 9, N + 10, N + 11, N + 12, N + 13, N + 14, N + 15, N + 16}
      <3>1. i # N + 10 /\ i # N + 15 /\ i # N + 16
        BY <1>3, <1>8
      <3>2. i = N + 9 \/ i = N + 11 \/ i = N + 12 \/ i = N + 13 \/ i = N + 14
        BY <2>3, <3>1
      <3>3. CASE i = N + 9
        BY <1>2, <3>3
      <3>4. CASE i = N + 11
        BY <1>2, <3>4
      <3>5. CASE i = N + 12
        BY <1>2, <3>5
      <3>6. CASE i = N + 13
        BY <1>2, <3>6
      <3>7. CASE i = N + 14
        BY <1>2, <3>7
      <3> QED BY <3>2, <3>3, <3>4, <3>5, <3>6, <3>7
    <2> QED BY <1>6, <2>1, <2>2, <2>3
  <1>9. ASSUME NEW i \in 1..(N + 16), init[i].op = "stage"
        PROVE  i < N + 15 /\ init[i].stage \in STAGES
    BY <1>1, <1>8, <1>9 DEF STAGES
  <1>10. ASSUME NEW i \in 1..(N + 16), NEW j \in 1..(N + 16), i < j, init[i].op = "stage", init[j].op = "stage"
         PROVE  init[i].stage <= init[j].stage
    BY <1>1, <1>8, <1>10
  <1>11. ASSUME NEW k \in STAGES
         PROVE  \E i \in 1..(N + 14) : init[i].op = "stage" /\ init[i].stage = k
    <2>1. /\ 1 \in 1..(N + 14) /\ 4 \in 1..(N + 14) /\ N + 9 \in 1..(N + 14) /\ N + 11 \in 1..(N + 14)
          /\ N + 12 \in 1..(N + 14) /\ N + 13 \in 1..(N + 14) /\ N + 14 \in 1..(N + 14)
      BY <1>1
    <2>2. k = 0 \/ k = 1 \/ k = 2 \/ k = 3 \/ k = 4 \/ k = 5 \/ k = 6
      BY <1>11 DEF STAGES
    <2> QED BY <1>2, <2>1, <2>2
  <1>12. SMP + 1 = N + 16 /\ SMP - 1 = N + 14
    BY <1>1, <1>5
  <1>13. N = SEGMENTS
    BY DEF N
  <1>14. init[SMP].op = "smp" /\ init[SMP + 1].op = "handoff" /\ init[LOCALS].op = "locals"
    BY <1>3, <1>5, <1>12
  <1>15. \A i \in 1..(SMP + 1) :
           /\ init[i].op = "locals" => i = LOCALS
           /\ init[i].op = "smp" => i = SMP
           /\ init[i].op = "handoff" => i = SMP + 1
           /\ init[i].op \notin {"parked", "finish"}
           /\ init[i].op = "stage" => i < SMP /\ init[i].stage \in STAGES
    BY <1>5, <1>7, <1>9, <1>12
  <1>16. \A i, j \in 1..(SMP + 1) :
           i < j /\ init[i].op = "stage" /\ init[j].op = "stage" => init[i].stage <= init[j].stage
    BY <1>10, <1>12
  <1>17. \A k \in STAGES : \E i \in 1..(SMP - 1) : init[i].op = "stage" /\ init[i].stage = k
    BY <1>11, <1>12
  <1> QED BY <1>1, <1>5, <1>12, <1>13, <1>14, <1>15, <1>16, <1>17

LEMMA ApOps ==
  /\ Len(init_ap) = 10
  /\ init_ap[1].op = "parked" /\ init_ap[9].op = "finish" /\ init_ap[10].op = "handoff"
  /\ \A i \in 1..10 :
       /\ init_ap[i].op = "parked" => i = 1
       /\ init_ap[i].op = "finish" => i = 9
       /\ init_ap[i].op = "handoff" => i = 10
       /\ init_ap[i].op \notin {"locals", "smp"}
       /\ init_ap[i].op = "stage" => i >= 2 /\ i <= 8 /\ init_ap[i].stage = i - 2
  /\ \A k \in STAGES : \E i \in 1..8 : init_ap[i].op = "stage" /\ init_ap[i].stage = k
  <1>1. /\ Len(init_ap) = 10 /\ init_ap[1] = At("parked") /\ init_ap[2] = Step(0) /\ init_ap[3] = Step(1)
        /\ init_ap[4] = Step(2) /\ init_ap[5] = Step(3) /\ init_ap[6] = Step(4) /\ init_ap[7] = Step(5)
        /\ init_ap[8] = Step(6) /\ init_ap[9] = At("finish") /\ init_ap[10] = At("handoff")
    BY DEF init_ap
  <1>2. /\ init_ap[1].op = "parked" /\ init_ap[9].op = "finish" /\ init_ap[10].op = "handoff"
        /\ init_ap[2].op = "stage" /\ init_ap[2].stage = 0
        /\ init_ap[3].op = "stage" /\ init_ap[3].stage = 1
        /\ init_ap[4].op = "stage" /\ init_ap[4].stage = 2
        /\ init_ap[5].op = "stage" /\ init_ap[5].stage = 3
        /\ init_ap[6].op = "stage" /\ init_ap[6].stage = 4
        /\ init_ap[7].op = "stage" /\ init_ap[7].stage = 5
        /\ init_ap[8].op = "stage" /\ init_ap[8].stage = 6
    BY <1>1 DEF At, Step
  <1>3. \A i \in 1..10 : i \in {1, 2, 3, 4, 5, 6, 7, 8, 9, 10}
    OBVIOUS
  <1>4. \A k \in STAGES : k \in {0, 1, 2, 3, 4, 5, 6}
    BY DEF STAGES
  <1> QED BY <1>1, <1>2, <1>3, <1>4
---------------------------------------------------------------------------
(* The state.                                                              *)

LEMMA Marks == SMP \in Nat /\ LOCALS \in Nat /\ LOCALS >= 1 /\ LOCALS < SMP
  BY InitOps

LEMMA Ground ==
  ASSUME BootTypes
  PROVE  /\ info.bsp \in CPU /\ info.bsp \in Working /\ Working \subseteq CPU /\ CPU \subseteq Nat
         /\ \A c, d \in CPU : c # d => Seqid(c) # Seqid(d)
         /\ \A c \in CPU : Seqid(c) # EARLY_BSP
         /\ info.order \in Seq(Target) /\ ToSet(info.order) = Target
         /\ ~IsAp(info.bsp) /\ info.bsp \notin woken /\ info.bsp \notin todo
         /\ \A c \in CPU : IsAp(c) <=> c # info.bsp
  <1>1. info \in BootInfo
    BY DEF BootTypes
  <1>2. /\ info.bsp \in CPU /\ ~info.cpus[info.bsp].failed /\ CPU \subseteq Nat
        /\ \A c, d \in CPU : c # d => info.cpus[c].seqid # info.cpus[d].seqid
        /\ \A c \in CPU : info.cpus[c].seqid \in Nat
        /\ info.order \in Seq(Target) /\ ToSet(info.order) = Target
    BY <1>1, BootAssumption
  <1>3. \A c \in CPU : Seqid(c) # EARLY_BSP
    <2> TAKE c \in CPU
    <2>1. Seqid(c) \in Nat /\ EARLY_BSP = -1
      BY <1>2 DEF Seqid, EARLY_BSP
    <2> QED BY <2>1
  <1>4. info.bsp \notin woken /\ info.bsp \notin todo
    BY DEF BootTypes
  <1> QED BY <1>2, <1>3, <1>4 DEF Working, Seqid, IsAp

LEMMA SameInfo ==
  ASSUME info' = info
  PROVE  /\ \A c : (IsAp(c)' <=> IsAp(c)) /\ Program(c)' = Program(c) /\ Seqid(c)' = Seqid(c)
         /\ Working' = Working
         /\ \A c, t : Covers(c, t)' <=> Covers(c, t)
  <1>1. \A c : (IsAp(c)' <=> IsAp(c)) /\ Program(c)' = Program(c) /\ Seqid(c)' = Seqid(c)
    BY DEF IsAp, Program, Seqid
  <1>2. Working' = Working
    BY DEF Working
  <1>3. \A c, t : Covers(c, t)' <=> Covers(c, t)
    BY DEF Covers, IsAp, DO_TARGET
  <1> QED BY <1>1, <1>2, <1>3

(* What the boot processor is about to do, from where it is.               *)
LEMMA BspNow ==
  ASSUME BootTypes
  PROVE  LET b == info.bsp IN
         /\ pos[b] \in 1..(SMP + 1) /\ pos[b] \in Nat /\ Program(b) = init /\ Now(b) = init[pos[b]]
         /\ Now(b).op = "locals" <=> pos[b] = LOCALS
         /\ Now(b).op = "smp" <=> pos[b] = SMP
         /\ Now(b).op = "handoff" <=> pos[b] = SMP + 1
         /\ Now(b).op \notin {"parked", "finish"}
         /\ Now(b).op = "stage" => pos[b] < SMP /\ Now(b).stage \in STAGES
  <1> DEFINE b == info.bsp
             i == pos[b]
  <1>1. i \in 1..(SMP + 1) /\ i \in Nat
    <2>1. i \in Nat /\ i >= 1 /\ i <= SMP + 1
      BY Ground DEF BootTypes
    <2> QED BY <2>1, Marks
  <1>2. Program(b) = init /\ Now(b) = init[i]
    BY Ground DEF Program, Now
  <1> HIDE DEF i
  <1>3. /\ init[i].op = "locals" <=> i = LOCALS
        /\ init[i].op = "smp" <=> i = SMP
        /\ init[i].op = "handoff" <=> i = SMP + 1
        /\ init[i].op \notin {"parked", "finish"}
        /\ init[i].op = "stage" => i < SMP /\ init[i].stage \in STAGES
    BY <1>1, InitOps
  <1>4. pos[b] = i
    BY DEF i
  <1> QED BY <1>1, <1>2, <1>3, <1>4

LEMMA ApNow ==
  ASSUME BootTypes, NEW c \in CPU, IsAp(c)
  PROVE  /\ pos[c] \in 1..10 /\ pos[c] \in Nat /\ Program(c) = init_ap /\ Now(c) = init_ap[pos[c]]
         /\ Now(c).op = "parked" <=> pos[c] = 1
         /\ Now(c).op = "finish" <=> pos[c] = 9
         /\ Now(c).op = "handoff" <=> pos[c] = 10
         /\ Now(c).op \notin {"locals", "smp"}
         /\ Now(c).op = "stage" => pos[c] >= 2 /\ pos[c] <= 8 /\ Now(c).stage = pos[c] - 2
  <1> DEFINE i == pos[c]
  <1>1. i \in 1..10 /\ i \in Nat
    <2>1. i \in Nat /\ i >= 1 /\ i <= 10
      BY DEF BootTypes
    <2> QED BY <2>1
  <1>2. Program(c) = init_ap /\ Now(c) = init_ap[i]
    BY DEF Program, Now
  <1> HIDE DEF i
  <1>3. /\ init_ap[i].op = "parked" <=> i = 1
        /\ init_ap[i].op = "finish" <=> i = 9
        /\ init_ap[i].op = "handoff" <=> i = 10
        /\ init_ap[i].op \notin {"locals", "smp"}
        /\ init_ap[i].op = "stage" => i >= 2 /\ i <= 8 /\ init_ap[i].stage = i - 2
    BY <1>1, ApOps
  <1>4. pos[c] = i
    BY DEF i
  <1> QED BY <1>1, <1>2, <1>3, <1>4

(* Only an active CPU enters stages, and the later ones are not lower.     *)
LEMMA WhoStages ==
  ASSUME BootTypes, Turns, NEW c \in CPU, Now(c).op = "stage"
  PROVE  /\ Active(c) /\ Now(c).stage \in STAGES /\ pos[c] \in Nat
         /\ IsAp(c) => pos[c] >= 2 /\ pos[c] <= 8 /\ c \in woken
         /\ ~IsAp(c) => c = info.bsp /\ pos[c] < SMP /\ pos[c] # LOCALS /\ woken = {}
         /\ \A i \in (pos[c] + 1)..Len(Program(c)) :
              Program(c)[i].op = "stage" => Program(c)[i].stage >= Now(c).stage
  <1>1. CASE IsAp(c)
    <2>1. /\ pos[c] \in Nat /\ pos[c] >= 2 /\ pos[c] <= 8 /\ Now(c).stage = pos[c] - 2
          /\ Program(c) = init_ap /\ Now(c) = init_ap[pos[c]]
      BY <1>1, ApNow
    <2>2. c \in woken /\ pos[c] <= 9
      <3>1. pos[c] > 1 /\ pos[c] <= 9
        BY <2>1
      <3> QED BY <1>1, <3>1 DEF Turns
    <2>3. Now(c).stage \in STAGES
      BY <2>1 DEF STAGES
    <2>4. ASSUME NEW i \in (pos[c] + 1)..Len(Program(c)), Program(c)[i].op = "stage"
          PROVE  Program(c)[i].stage >= Now(c).stage
      <3>1. i \in 1..10 /\ i > pos[c] /\ i \in Nat
        BY <2>1, <2>4, ApOps
      <3>2. Program(c)[i].stage = i - 2
        BY <2>1, <2>4, <3>1, ApOps
      <3> QED BY <2>1, <3>1, <3>2
    <2> QED BY <1>1, <2>1, <2>2, <2>3, <2>4 DEF Active, Pending
  <1>2. CASE ~IsAp(c)
    <2>1. c = info.bsp
      BY <1>2, Ground
    <2>2. /\ pos[c] \in 1..(SMP + 1) /\ pos[c] \in Nat /\ Program(c) = init /\ Now(c) = init[pos[c]]
          /\ pos[c] < SMP /\ Now(c).stage \in STAGES /\ pos[c] # LOCALS
      BY <2>1, BspNow
    <2>3. woken = {}
      <3>1. ~(pos[info.bsp] >= SMP)
        BY <2>1, <2>2, Marks
      <3> QED BY <3>1 DEF Turns
    <2>4. ASSUME NEW i \in (pos[c] + 1)..Len(Program(c)), Program(c)[i].op = "stage"
          PROVE  Program(c)[i].stage >= Now(c).stage
      <3>1. i \in 1..(SMP + 1) /\ pos[c] < i
        BY <2>2, <2>4, InitOps, Marks
      <3> DEFINE p == pos[c]
      <3>2. p \in 1..(SMP + 1) /\ p < i /\ init[p].op = "stage" /\ init[i].op = "stage"
        BY <2>2, <2>4, <3>1
      <3> HIDE DEF p
      <3>3. init[p].stage <= init[i].stage /\ init[p].stage \in STAGES /\ init[i].stage \in STAGES
        BY <3>1, <3>2, InitOps
      <3>4. init[p].stage \in Int /\ init[i].stage \in Int
        BY <3>3 DEF STAGES
      <3>5. init[i].stage >= init[p].stage
        BY <3>3, <3>4
      <3> QED BY <2>2, <3>5 DEF p
    <2> QED BY <1>2, <2>1, <2>2, <2>3, <2>4 DEF Active
  <1> QED BY <1>1, <1>2

(* There is one active CPU at most.                                        *)
LEMMA OneActive ==
  ASSUME BootTypes, Turns, NEW c \in CPU, NEW d \in CPU, Active(c), Active(d)
  PROVE  c = d
  <1> SUFFICES ASSUME c # d PROVE FALSE
    OBVIOUS
  <1>1. \A e \in CPU : Pending(e) => woken # {} /\ e # info.bsp
    BY Ground DEF Pending
  <1>2. Pending(c) /\ Pending(d)
    BY <1>1, Ground DEF Active
  <1>3. pos[d] = 10 /\ pos[d] <= 9
    BY <1>2 DEF Turns, Pending
  <1> QED BY <1>3

(* Once another CPU is woken the boot processor has run all its targets.   *)
LEMMA BspIsThrough ==
  ASSUME BootTypes, Turns, Quiet, StagesRun, woken # {}, NEW t \in Target, Covers(info.bsp, t)
  PROVE  Has(ran[info.bsp], t)
  <1> DEFINE b == info.bsp
  <1>1. b \in CPU /\ ~Active(b)
    BY Ground DEF Active, Pending
  <1>2. visits[b] = <<>>
    BY <1>1 DEF Quiet
  <1>3. pos[b] >= SMP /\ pos[b] \in Nat /\ Program(b) = init
    BY BspNow DEF Turns
  <1>4. PICK i \in 1..(SMP - 1) : init[i].op = "stage" /\ init[i].stage = Stage[t]
    BY InitOps, TargetAssumption
  <1>5. i \in 1..(pos[b] - 1)
    BY <1>3, <1>4, Marks
  <1>6. Entered(b, Stage[t])
    BY <1>3, <1>4, <1>5 DEF Entered
  <1>7. Has(ran[b], t) \/ Has(visits[b], t)
    BY <1>1, <1>6 DEF StagesRun
  <1> QED BY <1>2, <1>7, HasFew
---------------------------------------------------------------------------
LEMMA InitHolds == ASSUME Init PROVE BootInv
  <1>0. /\ info \in BootInfo /\ pos = [c \in CPU |-> 1] /\ visits = [c \in CPU |-> <<>>] /\ asked = visits
        /\ completed = [t \in Target |-> FALSE] /\ g_init_stage_current = 0
        /\ todo = Working \ {info.bsp} /\ waiting = FALSE /\ woken = {} /\ g_init_ap_finished = FALSE
        /\ gs = [c \in CPU |-> IF c = info.bsp THEN EARLY_BSP ELSE NONE]
        /\ setup = [s \in {EARLY_BSP} |-> {}] /\ ran = [c \in CPU |-> <<>>]
    BY DEF Init
  <1>1. BootTypes
    <2>1. <<>> \in Seq(Target) /\ 1 \in Nat /\ 1 <= SMP + 1
      BY Marks
    <2>2. pos \in [CPU -> Nat] /\ \A c \in CPU : pos[c] = 1
      BY <1>0
    <2>3. visits \in [CPU -> Seq(Target)] /\ ran \in [CPU -> Seq(Target)]
      BY <1>0, <2>1
    <2>4. asked = [c \in CPU |-> asked[c]] /\ gs = [c \in CPU |-> gs[c]]
      BY <1>0
    <2>5. completed \in [Target -> BOOLEAN] /\ g_init_stage_current \in STAGES
      BY <1>0 DEF STAGES
    <2>6. \A c \in CPU : pos[c] >= 1 /\ pos[c] <= (IF IsAp(c) THEN 10 ELSE SMP + 1)
      BY <2>1, <2>2
    <2> QED BY <1>0, <2>2, <2>3, <2>4, <2>5, <2>6 DEF BootTypes
  <1>2. Turns
    <2>1. \A c \in CPU : ~(pos[c] > 1)
      BY <1>0
    <2> QED BY <1>0, <2>1 DEF Turns, Pending
  <1>3. Quiet
    <2>1. \A c \in CPU : pos[c] = 1 /\ visits[c] = <<>> /\ asked[c] = <<>> /\ ran[c] = <<>>
      BY <1>0
    <2>2. info.bsp \in CPU /\ visits[info.bsp] = <<>>
      BY <1>1, <2>1, Ground
    <2> QED BY <2>1, <2>2 DEF Quiet
  <1>4. StagesAhead
    <2> SUFFICES ASSUME NEW c \in CPU, Active(c), NEW i \in pos[c]..Len(Program(c)),
                        Program(c)[i].op = "stage"
                 PROVE  Program(c)[i].stage >= g_init_stage_current
      BY DEF StagesAhead
    <2>1. c = info.bsp /\ Program(c) = init
      BY <1>0, <1>1, BspNow DEF Active, Pending
    <2>2. i \in 1..(SMP + 1)
      BY <1>0, <2>1, InitOps
    <2>3. init[i].stage \in STAGES
      BY <2>1, <2>2, InitOps
    <2> QED BY <1>0, <2>1, <2>3 DEF STAGES
  <1>5. FlagsMatch
    BY <1>0, HasFew DEF FlagsMatch
  <1>6. StagesRun
    <2>1. \A c \in CPU : \A k : ~Entered(c, k)
      BY <1>0 DEF Entered
    <2> QED BY <2>1 DEF StagesRun
  <1>7. VisitsClosed
    BY <1>0 DEF VisitsClosed
  <1>8. RanDistinct /\ DependenciesFirst
    BY <1>0 DEF RanDistinct, DependenciesFirst
  <1>9. Recorded
    <2>1. info.bsp \in CPU /\ pos[info.bsp] <= LOCALS /\ ~(pos[info.bsp] > LOCALS)
      BY <1>0, <1>1, Ground, Marks
    <2>2. \A c \in CPU : ~(pos[c] > 1)
      BY <1>0
    <2>3. {t \in Target : Has(ran[info.bsp], t)} = {}
      BY <1>0, <2>1, HasFew
    <2>4. gs[info.bsp] = EARLY_BSP /\ DOMAIN setup = {EARLY_BSP} /\ setup[EARLY_BSP] = {}
          /\ setup = [s \in DOMAIN setup |-> setup[s]]
      BY <1>0, <2>1
    <2> QED BY <2>1, <2>2, <2>3, <2>4 DEF Recorded
  <1> QED BY <1>1, <1>2, <1>3, <1>4, <1>5, <1>6, <1>7, <1>8, <1>9 DEF BootInv

(* What depends on no more than the boot information, the visits and the   *)
(* runs.                                                                   *)
LEMMA SameRuns ==
  ASSUME BootInv, info' = info, visits' = visits, ran' = ran
  PROVE  VisitsClosed' /\ RanDistinct' /\ DependenciesFirst'
  <1>1. \A c, t : Covers(c, t)' <=> Covers(c, t)
    BY SameInfo
  <1>2. VisitsClosed'
    BY <1>1 DEF BootInv, VisitsClosed
  <1>3. RanDistinct'
    BY <1>1 DEF BootInv, RanDistinct
  <1>4. DependenciesFirst'
    BY DEF BootInv, DependenciesFirst, IsAp
  <1> QED BY <1>2, <1>3, <1>4

(* A step that only takes memory, or stops the kernel.                     *)
LEMMA MemoryKeeps ==
  ASSUME BootInv,
         UNCHANGED <<info, pos, visits, gs, setup, ran, target_vars, smp_vars>>,
         asked' = [c \in CPU |-> asked'[c]],
         \A c \in CPU : IsAp(c) /\ pos[c] = 10 => asked'[c] = <<>>
  PROVE  BootInv'
  <1>0. /\ info' = info /\ pos' = pos /\ visits' = visits /\ gs' = gs /\ setup' = setup /\ ran' = ran
        /\ completed' = completed /\ g_init_stage_current' = g_init_stage_current
        /\ g_init_ap_cpu_id' = g_init_ap_cpu_id /\ g_init_ap_finished' = g_init_ap_finished
        /\ todo' = todo /\ waiting' = waiting /\ woken' = woken
    BY DEF target_vars, smp_vars
  <1>i. /\ \A c : (IsAp(c)' <=> IsAp(c)) /\ Program(c)' = Program(c) /\ Seqid(c)' = Seqid(c)
        /\ Working' = Working
        /\ \A c, t : Covers(c, t)' <=> Covers(c, t)
    BY <1>0, SameInfo
  <1>a. \A c : (Pending(c)' <=> Pending(c)) /\ (Active(c)' <=> Active(c))
    BY <1>0 DEF Pending, Active
  <1>1. BootTypes'
    BY <1>0, <1>i DEF BootInv, BootTypes
  <1>2. Turns'
    BY <1>0, <1>i, <1>a DEF BootInv, Turns
  <1>3. Quiet'
    BY <1>0, <1>i, <1>a DEF BootInv, Quiet
  <1>4. StagesAhead'
    BY <1>0, <1>i, <1>a DEF BootInv, StagesAhead
  <1>5. FlagsMatch'
    BY <1>0, <1>i, <1>a DEF BootInv, FlagsMatch
  <1>6. StagesRun'
    <2>1. \A c, k : Entered(c, k)' <=> Entered(c, k)
      BY <1>0, <1>i DEF Entered
    <2> QED BY <1>0, <1>i, <2>1 DEF BootInv, StagesRun
  <1>7. VisitsClosed' /\ RanDistinct' /\ DependenciesFirst'
    BY <1>0, SameRuns
  <1>8. Recorded'
    <2>1. pos'[info'.bsp] = pos[info.bsp] /\ gs'[info'.bsp] = gs[info.bsp] /\ ran'[info'.bsp] = ran[info.bsp]
          /\ setup' = setup
      BY <1>0
    <2>2. {Seqid(c)' : c \in Working'} = {Seqid(c) : c \in Working}
      BY <1>i
    <2>3. Recorded
      BY DEF BootInv
    <2> QED BY <1>0, <1>i, <2>1, <2>2, <2>3 DEF Recorded
  <1> QED BY <1>1, <1>2, <1>3, <1>4, <1>5, <1>6, <1>7, <1>8 DEF BootInv

(* A step of the boot processor that enters no stage and sets up no cpu_t. *)
LEMMA BspAdvances ==
  ASSUME BootInv, NEW op, op \notin {"stage", "locals", "handoff"}, op = "smp" => ~waiting,
         Runs(info.bsp, op), Advance(info.bsp),
         UNCHANGED <<info, visits, gs, setup, ran, target_vars, smp_vars>>,
         asked' = [c \in CPU |-> asked'[c]],
         \A c \in CPU : IsAp(c) => asked'[c] = asked[c]
  PROVE  BootInv'
  <1> DEFINE b == info.bsp
  <1>0. /\ info' = info /\ visits' = visits /\ gs' = gs /\ setup' = setup /\ ran' = ran
        /\ completed' = completed /\ g_init_stage_current' = g_init_stage_current
        /\ g_init_ap_cpu_id' = g_init_ap_cpu_id /\ g_init_ap_finished' = g_init_ap_finished
        /\ todo' = todo /\ waiting' = waiting /\ woken' = woken
    BY DEF target_vars, smp_vars
  <1>i. /\ \A c : (IsAp(c)' <=> IsAp(c)) /\ Program(c)' = Program(c) /\ Seqid(c)' = Seqid(c)
        /\ Working' = Working
        /\ \A c, t : Covers(c, t)' <=> Covers(c, t)
    BY <1>0, SameInfo
  <1>t. BootTypes /\ b \in CPU /\ b \notin woken /\ ~IsAp(b) /\ \A c \in CPU : IsAp(c) <=> c # b
    BY Ground DEF BootInv
  <1>n. /\ Now(b).op = op /\ visits[b] = <<>> /\ Now(b) = init[pos[b]] /\ Program(b) = init
        /\ pos[b] \in Nat /\ pos[b] >= 1 /\ pos[b] <= SMP /\ pos[b] # LOCALS /\ (pos[b] = SMP => ~waiting)
    <2>1. Now(b).op = op /\ visits[b] = <<>>
      BY DEF Runs
    <2>2. /\ pos[b] \in 1..(SMP + 1) /\ pos[b] \in Nat /\ pos[b] # LOCALS /\ pos[b] # SMP + 1
          /\ (pos[b] = SMP => ~waiting) /\ Now(b) = init[pos[b]] /\ Program(b) = init
      BY <2>1, <1>t, BspNow
    <2> QED BY <2>1, <2>2, Marks
  <1>p. /\ pos' \in [CPU -> Nat] /\ pos'[b] = pos[b] + 1 /\ \A c \in CPU : c # b => pos'[c] = pos[c]
    BY <1>t, <1>n DEF Advance, BootTypes
  <1>a. \A c \in CPU : (Pending(c)' <=> Pending(c)) /\ (Active(c)' <=> Active(c))
    <2>1. \A c \in CPU : Pending(c)' <=> Pending(c)
      BY <1>0, <1>t, <1>p DEF Pending
    <2> QED BY <1>0, <2>1 DEF Active
  <1> HIDE DEF b
  <1>b. b = info.bsp /\ b = info'.bsp
    BY <1>0 DEF b
  <1>1. BootTypes'
    <2>1. \A c \in CPU : pos'[c] >= 1 /\ pos'[c] <= (IF IsAp(c) THEN 10 ELSE SMP + 1)
      <3> TAKE c \in CPU
      <3>1. CASE c = b
        BY <1>t, <1>n, <1>p, <3>1, Marks
      <3>2. CASE c # b
        BY <1>t, <1>p, <3>2 DEF BootTypes
      <3> QED BY <3>1, <3>2
    <2> QED BY <1>0, <1>i, <1>t, <1>p, <2>1 DEF BootTypes
  <1>2. Turns'
    <2>1. \A c \in CPU : IsAp(c) /\ pos'[c] > 1 => c \in woken
      BY <1>t, <1>p DEF BootInv, Turns
    <2>2. \A c \in CPU : Pending(c) =>
            /\ waiting /\ ~g_init_ap_finished /\ g_init_ap_cpu_id = Seqid(c)
            /\ \A d \in woken : d # c => pos'[d] = 10
      <3>1. \A d \in woken : d \in CPU /\ d # b
        BY <1>t, Ground DEF BootTypes
      <3> QED BY <1>p, <3>1 DEF BootInv, Turns
    <2>3. ~waiting
      BY <1>b, <1>n DEF BootInv, Turns
    <2>4. woken # {} => pos'[b] >= SMP
      <3>1. woken # {} => pos[b] >= SMP
        BY <1>b DEF BootInv, Turns
      <3> QED BY <1>n, <1>p, <3>1, Marks
    <2> QED BY <1>0, <1>b, <1>i, <1>a, <2>1, <2>2, <2>3, <2>4 DEF Turns
  <1>3. Quiet'
    <2>1. \A c \in CPU : visits[c] # <<>> => Active(c) /\ (IsAp(c) => pos'[c] > 1)
      BY <1>t, <1>p DEF BootInv, Quiet
    <2>2. \A c \in CPU : IsAp(c) /\ pos'[c] = 10 => asked'[c] = <<>>
      BY <1>t, <1>p DEF BootInv, Quiet
    <2>3. \A c \in CPU : IsAp(c) /\ pos'[c] = 1 => ran[c] = <<>>
      BY <1>t, <1>p DEF BootInv, Quiet
    <2> QED BY <1>0, <1>i, <1>a, <1>b, <1>n, <2>1, <2>2, <2>3 DEF Quiet
  <1>4. StagesAhead'
    <2> SUFFICES ASSUME NEW c \in CPU, Active(c), NEW i \in pos'[c]..Len(Program(c)), Program(c)[i].op = "stage"
                 PROVE  Program(c)[i].stage >= g_init_stage_current
      BY <1>0, <1>i, <1>a DEF StagesAhead
    <2>0. pos[c] \in Int /\ pos'[c] \in Int /\ pos[c] <= pos'[c]
      <3>1. pos[c] \in Nat /\ (pos'[c] = pos[c] \/ pos'[c] = pos[c] + 1)
        BY <1>t, <1>p, <1>n DEF BootTypes
      <3> QED BY <3>1
    <2>1. i \in pos[c]..Len(Program(c))
      BY <2>0
    <2> QED BY <2>1 DEF BootInv, StagesAhead
  <1>5. FlagsMatch'
    BY <1>0, <1>i, <1>a DEF BootInv, FlagsMatch
  <1>6. StagesRun'
    <2>1. ASSUME NEW c \in CPU, NEW k, Entered(c, k)' PROVE Entered(c, k)
      <3>1. PICK i \in 1..(pos'[c] - 1) : Program(c)[i].op = "stage" /\ Program(c)[i].stage = k
        BY <1>i, <2>1 DEF Entered
      <3>2. i \in 1..(pos[c] - 1)
        <4>1. CASE c = b
          <5>1. i # pos[b]
            BY <1>n, <3>1, <4>1
          <5>2. i \in 1..pos[b]
            BY <1>n, <1>p, <3>1, <4>1
          <5> QED BY <1>n, <4>1, <5>1, <5>2
        <4>2. CASE c # b
          BY <1>p, <3>1, <4>2
        <4> QED BY <4>1, <4>2
      <3> QED BY <3>1, <3>2 DEF Entered
    <2> QED BY <1>0, <1>i, <2>1 DEF BootInv, StagesRun
  <1>7. VisitsClosed' /\ RanDistinct' /\ DependenciesFirst'
    BY <1>0, SameRuns
  <1>8. Recorded'
    <2>1. (pos'[b] <= LOCALS <=> pos[b] <= LOCALS) /\ (pos'[b] > LOCALS <=> pos[b] > LOCALS)
      BY <1>n, <1>p, Marks
    <2>2. \A c \in CPU : IsAp(c) => pos'[c] = pos[c]
      BY <1>t, <1>p
    <2>3. Recorded
      BY DEF BootInv
    <2>4. /\ DOMAIN setup = (IF pos'[b] <= LOCALS THEN {EARLY_BSP}
                             ELSE {EARLY_BSP} \union {Seqid(c) : c \in Working})
          /\ setup = [s \in DOMAIN setup |-> setup[s]]
          /\ gs[b] = (IF pos'[b] <= LOCALS THEN EARLY_BSP ELSE Seqid(b))
      BY <1>b, <2>1, <2>3 DEF Recorded
    <2>5. \A c \in CPU : IsAp(c) /\ pos'[c] > 1 => gs[c] = Seqid(c)
      BY <2>2, <2>3 DEF Recorded
    <2>6. /\ setup[gs[b]] = {t \in Target : Has(ran[b], t)}
          /\ pos'[b] > LOCALS => \A c \in Working \ {b} : setup[Seqid(c)] = {t \in Target : Has(ran[c], t)}
      BY <1>b, <2>1, <2>3 DEF Recorded
    <2>7. {Seqid(c)' : c \in Working'} = {Seqid(c) : c \in Working}
      BY <1>i
    <2> QED BY SMTT(40), <1>0, <1>i, <1>b, <2>4, <2>5, <2>6, <2>7 DEF Recorded
  <1> QED BY <1>1, <1>2, <1>3, <1>4, <1>5, <1>6, <1>7, <1>8 DEF BootInv

LEMMA EnterStageKeeps ==
  ASSUME BootInv, NEW c \in CPU, EnterStage(c) PROVE BootInv'
  <1> DEFINE b == info.bsp
             k == Now(c).stage
             w == init_run_stage(info.order, k)
  <1>0. /\ info' = info /\ gs' = gs /\ setup' = setup /\ ran' = ran /\ asked' = asked
        /\ completed' = completed /\ g_init_stage_current' = k
        /\ g_init_ap_cpu_id' = g_init_ap_cpu_id /\ g_init_ap_finished' = g_init_ap_finished
        /\ todo' = todo /\ waiting' = waiting /\ woken' = woken
    BY DEF EnterStage, smp_vars
  <1>i. /\ \A e : (IsAp(e)' <=> IsAp(e)) /\ Program(e)' = Program(e) /\ Seqid(e)' = Seqid(e)
        /\ Working' = Working
        /\ \A e, t : Covers(e, t)' <=> Covers(e, t)
    BY <1>0, SameInfo
  <1>t. BootTypes /\ Turns /\ b \in CPU /\ b \notin woken /\ ~IsAp(b) /\ \A e \in CPU : IsAp(e) <=> e # b
    BY Ground DEF BootInv
  <1>n. Now(c).op = "stage" /\ visits[c] = <<>> /\ asked[c] = <<>> /\ Now(c) = Program(c)[pos[c]]
    BY DEF EnterStage, Runs, Now
  <1>w. /\ Active(c) /\ k \in STAGES /\ pos[c] \in Nat
        /\ IsAp(c) => pos[c] >= 2 /\ pos[c] <= 8 /\ c \in woken
        /\ ~IsAp(c) => c = b /\ pos[c] < SMP /\ pos[c] # LOCALS /\ woken = {}
        /\ \A i \in (pos[c] + 1)..Len(Program(c)) : Program(c)[i].op = "stage" => Program(c)[i].stage >= k
    BY <1>t, <1>n, WhoStages
  <1>v. w \in Seq(Target) /\ Closed(w) /\ \A t \in Target : Stage[t] = k => Has(w, t)
    BY <1>t, Ground, StageClosed
  <1>p. pos' \in [CPU -> Nat] /\ pos'[c] = pos[c] + 1 /\ \A e \in CPU : e # c => pos'[e] = pos[e]
    BY <1>t, <1>w DEF EnterStage, Advance, BootTypes
  <1>s. visits' \in [CPU -> Seq(Target)] /\ visits'[c] = w /\ \A e \in CPU : e # c => visits'[e] = visits[e]
    BY <1>t, <1>v DEF EnterStage, BootTypes
  <1>a. \A e \in CPU : (Pending(e)' <=> Pending(e)) /\ (Active(e)' <=> Active(e)) /\ (Active(e) => e = c)
    <2>1. \A e \in CPU : Pending(e)' <=> Pending(e)
      <3> TAKE e \in CPU
      <3>1. CASE e # c
        BY <1>0, <1>p, <3>1 DEF Pending
      <3>2. CASE e = c /\ IsAp(c)
        BY <1>0, <1>p, <1>w, <3>2 DEF Pending
      <3>3. CASE e = c /\ ~IsAp(c)
        BY <1>0, <1>w, <3>3 DEF Pending
      <3> QED BY <3>1, <3>2, <3>3
    <2>2. \A e \in CPU : Active(e) => e = c
      BY <1>t, <1>w, OneActive
    <2> QED BY <1>0, <2>1, <2>2 DEF Active
  <1> HIDE DEF b, k, w
  <1>b. b = info.bsp /\ b = info'.bsp
    BY <1>0 DEF b
  <1>1. BootTypes'
    <2>1. \A e \in CPU : pos'[e] >= 1 /\ pos'[e] <= (IF IsAp(e) THEN 10 ELSE SMP + 1)
      <3> TAKE e \in CPU
      <3>1. CASE e = c
        BY <1>t, <1>w, <1>p, <3>1, Marks
      <3>2. CASE e # c
        BY <1>t, <1>p, <3>2 DEF BootTypes
      <3> QED BY <3>1, <3>2
    <2> QED BY <1>0, <1>i, <1>t, <1>p, <1>s, <1>w, <2>1 DEF BootTypes
  <1>2. Turns'
    <2>1. \A e \in CPU : IsAp(e) /\ pos'[e] > 1 => e \in woken
      BY <1>t, <1>w, <1>p DEF Turns
    <2>2. \A e \in CPU : Pending(e) =>
            /\ waiting /\ ~g_init_ap_finished /\ g_init_ap_cpu_id = Seqid(e)
            /\ \A d \in woken : d # e => pos'[d] = 10
      <3>1. \A d \in woken : d \in CPU
        BY <1>t, Ground DEF BootTypes
      <3> QED BY <1>p, <1>a, <1>t, <3>1 DEF Turns, Active
    <2>3. waiting => pos'[b] = SMP
      <3>1. waiting => pos[b] = SMP
        BY <1>b, <1>t DEF Turns
      <3>2. c = b => pos[b] < SMP
        BY <1>t, <1>w
      <3> QED BY <1>t, <1>p, <3>1, <3>2, Marks
    <2>4. woken # {} => pos'[b] >= SMP
      <3>1. woken # {} => pos[b] >= SMP
        BY <1>b, <1>t DEF Turns
      <3> QED BY <1>t, <1>w, <1>p, <3>1
    <2> QED BY <1>0, <1>b, <1>i, <1>a, <2>1, <2>2, <2>3, <2>4 DEF Turns
  <1>3. Quiet'
    <2>1. \A e \in CPU : visits'[e] # <<>> => Active(e) /\ (IsAp(e) => pos'[e] > 1)
      BY <1>w, <1>s, <1>p DEF BootInv, Quiet
    <2>2. \A e \in CPU : IsAp(e) /\ pos'[e] = 10 => asked[e] = <<>>
      BY <1>w, <1>p DEF BootInv, Quiet
    <2>3. \A e \in CPU : IsAp(e) /\ pos'[e] = 1 => ran[e] = <<>>
      <3> TAKE e \in CPU
      <3>1. CASE e = c
        BY <1>w, <1>p, <3>1
      <3>2. CASE e # c
        BY <1>p, <3>2 DEF BootInv, Quiet
      <3> QED BY <3>1, <3>2
    <2>4. pos'[b] > SMP => visits'[b] = <<>>
      <3>1. CASE c = b
        BY <1>t, <1>w, <1>p, <3>1, Marks
      <3>2. CASE c # b
        BY <1>b, <1>t, <1>s, <1>p, <3>2 DEF BootInv, Quiet
      <3> QED BY <3>1, <3>2
    <2> QED BY <1>0, <1>i, <1>a, <1>b, <2>1, <2>2, <2>3, <2>4 DEF Quiet
  <1>4. StagesAhead'
    <2> SUFFICES ASSUME NEW i \in pos'[c]..Len(Program(c)), Program(c)[i].op = "stage"
                 PROVE  Program(c)[i].stage >= k
      BY <1>0, <1>i, <1>a DEF StagesAhead
    <2> QED BY <1>p, <1>w
  <1>5. FlagsMatch'
    BY <1>0, <1>i, <1>a DEF BootInv, FlagsMatch
  <1>6. StagesRun'
    <2> SUFFICES ASSUME NEW e \in CPU, NEW t \in Target, Covers(e, t), Entered(e, Stage[t])'
                 PROVE  Has(ran[e], t) \/ Has(visits'[e], t)
      BY <1>0, <1>i DEF StagesRun
    <2>1. PICK i \in 1..(pos'[e] - 1) : Program(e)[i].op = "stage" /\ Program(e)[i].stage = Stage[t]
      BY <1>i DEF Entered
    <2>2. CASE i \in 1..(pos[e] - 1)
      <3>1. Has(ran[e], t) \/ Has(visits[e], t)
        BY <2>1, <2>2 DEF BootInv, StagesRun, Entered
      <3> QED BY <1>n, <1>s, <3>1, HasFew
    <2>3. CASE i \notin 1..(pos[e] - 1)
      <3>1. e = c
        BY <1>p, <2>1, <2>3
      <3>2. i = pos[c]
        BY <1>p, <1>w, <2>1, <2>3, <3>1
      <3>3. Stage[t] = k
        BY <1>n, <2>1, <3>1, <3>2 DEF k
      <3> QED BY <1>v, <1>s, <3>1, <3>3
    <2> QED BY <2>2, <2>3
  <1>7. VisitsClosed'
    <2> SUFFICES ASSUME NEW e \in CPU, NEW i \in 1..Len(visits'[e]), NEW d \in Found(visits'[e][i])
                 PROVE  (\E j \in 1..(i - 1) : visits'[e][j] = d) \/ (Covers(e, d) => Has(ran[e], d))
      BY <1>0, <1>i DEF VisitsClosed
    <2>1. CASE e = c
      BY <1>s, <1>v, <2>1 DEF Closed
    <2>2. CASE e # c
      BY <1>s, <2>2 DEF BootInv, VisitsClosed
    <2> QED BY <2>1, <2>2
  <1>8. RanDistinct'
    BY <1>0, <1>i DEF BootInv, RanDistinct
  <1>9. DependenciesFirst'
    BY <1>0 DEF BootInv, DependenciesFirst, IsAp
  <1>10. Recorded'
    <2>1. (pos'[b] <= LOCALS <=> pos[b] <= LOCALS) /\ (pos'[b] > LOCALS <=> pos[b] > LOCALS)
      <3>1. CASE c = b
        BY <1>t, <1>w, <1>p, <3>1, Marks
      <3>2. CASE c # b
        BY <1>t, <1>p, <3>2
      <3> QED BY <3>1, <3>2
    <2>2. \A e \in CPU : IsAp(e) /\ pos'[e] > 1 => pos[e] > 1
      BY <1>p, <1>w
    <2>3. {Seqid(e)' : e \in Working'} = {Seqid(e) : e \in Working}
      BY <1>i
    <2>4. Recorded
      BY DEF BootInv
    <2> QED BY <1>0, <1>i, <1>b, <2>1, <2>2, <2>3, <2>4 DEF Recorded
  <1> QED BY <1>1, <1>2, <1>3, <1>4, <1>5, <1>6, <1>7, <1>8, <1>9, <1>10 DEF BootInv

LEMMA TailHas ==
  ASSUME NEW w \in Seq(Target), w # <<>>
  PROVE  /\ Tail(w) \in Seq(Target) /\ Len(w) \in Nat /\ Len(w) >= 1 /\ Len(Tail(w)) = Len(w) - 1
         /\ Head(w) \in Target /\ Head(w) = w[1]
         /\ \A i \in 1..(Len(w) - 1) : Tail(w)[i] = w[i + 1]
         /\ \A x : Has(w, x) => x = Head(w) \/ Has(Tail(w), x)
  <1>1. Tail(w) \in Seq(Target) /\ Len(w) \in Nat /\ Len(w) >= 1 /\ Len(Tail(w)) = Len(w) - 1
    OBVIOUS
  <1>2. Head(w) \in Target /\ Head(w) = w[1]
    OBVIOUS
  <1>3. \A i \in 1..(Len(w) - 1) : Tail(w)[i] = w[i + 1]
    OBVIOUS
  <1>4. ASSUME NEW x, Has(w, x), x # Head(w) PROVE Has(Tail(w), x)
    <2>1. PICK i \in 1..Len(w) : w[i] = x
      BY <1>4 DEF Has
    <2>2. i # 1
      BY <1>2, <1>4, <2>1
    <2>3. i - 1 \in 1..(Len(w) - 1) /\ (i - 1) + 1 = i
      BY <1>1, <2>1, <2>2
    <2>4. Tail(w)[i - 1] = x
      BY <1>3, <2>1, <2>3
    <2> QED BY <1>1, <2>3, <2>4 DEF Has
  <1> QED BY <1>1, <1>2, <1>3, <1>4

LEMMA AppendHas ==
  ASSUME NEW w \in Seq(Target), NEW t \in Target
  PROVE  /\ Append(w, t) \in Seq(Target) /\ Len(w) \in Nat /\ Len(Append(w, t)) = Len(w) + 1
         /\ \A i \in 1..Len(w) : Append(w, t)[i] = w[i]
         /\ Append(w, t)[Len(w) + 1] = t
         /\ \A x : Has(Append(w, t), x) <=> Has(w, x) \/ x = t
  <1>1. /\ Append(w, t) \in Seq(Target) /\ Len(w) \in Nat /\ Len(Append(w, t)) = Len(w) + 1
        /\ \A i \in 1..Len(w) : Append(w, t)[i] = w[i]
        /\ Append(w, t)[Len(w) + 1] = t
    OBVIOUS
  <1> DEFINE u == Append(w, t)
  <1>2. /\ Len(w) \in Nat /\ Len(u) = Len(w) + 1
        /\ (\A i \in 1..Len(w) : u[i] = w[i]) /\ u[Len(w) + 1] = t
    BY <1>1
  <1> HIDE DEF u
  <1>3. 1..Len(u) = 1..Len(w) \union {Len(w) + 1}
    BY <1>2
  <1>4. \A x : Has(u, x) <=> Has(w, x) \/ x = t
    BY <1>2, <1>3 DEF Has
  <1> QED BY <1>1, <1>4 DEF u

(* The visits a CPU has left, without the next one, when that one has been *)
(* run or is not for this CPU.                                             *)
LEMMA NextVisit ==
  ASSUME BootInv, NEW c \in CPU, visits[c] # <<>>, NEW r,
         \A x : Has(ran[c], x) => Has(r, x),
         Covers(c, Head(visits[c])) => Has(r, Head(visits[c]))
  PROVE  /\ Active(c) /\ (IsAp(c) => pos[c] > 1 /\ pos[c] <= 9 /\ c \in woken)
         /\ Head(visits[c]) \in Target /\ Tail(visits[c]) \in Seq(Target)
         /\ \A t \in Target : Covers(c, t) /\ Entered(c, Stage[t]) => Has(r, t) \/ Has(Tail(visits[c]), t)
         /\ \A i \in 1..Len(Tail(visits[c])) : \A d \in Found(Tail(visits[c])[i]) :
              (\E j \in 1..(i - 1) : Tail(visits[c])[j] = d) \/ (Covers(c, d) => Has(r, d))
  <1> DEFINE w == visits[c]
             v == Tail(w)
  <1>1. w \in Seq(Target) /\ w # <<>>
    BY DEF BootInv, BootTypes
  <1>2. /\ v \in Seq(Target) /\ Len(w) \in Nat /\ Len(w) >= 1 /\ Len(v) = Len(w) - 1
        /\ Head(w) \in Target /\ Head(w) = w[1]
        /\ \A i \in 1..(Len(w) - 1) : v[i] = w[i + 1]
        /\ \A x : Has(w, x) => x = Head(w) \/ Has(v, x)
    BY <1>1, TailHas
  <1>3. Active(c) /\ (IsAp(c) => pos[c] > 1)
    BY DEF BootInv, Quiet
  <1>4. IsAp(c) => pos[c] <= 9 /\ c \in woken
    BY <1>3, Ground DEF BootInv, Active, Pending
  <1>5. ASSUME NEW t \in Target, Covers(c, t), Entered(c, Stage[t])
        PROVE  Has(r, t) \/ Has(v, t)
    <2>1. Has(ran[c], t) \/ Has(w, t)
      BY <1>5 DEF BootInv, StagesRun
    <2> QED BY <1>2, <1>5, <2>1
  <1> HIDE DEF v
  <1>6. ASSUME NEW i \in 1..Len(v), NEW d \in Found(v[i]), ~\E j \in 1..(i - 1) : v[j] = d, Covers(c, d)
        PROVE  Has(r, d)
    <2>1. i + 1 \in 1..Len(w) /\ i \in 1..(Len(w) - 1) /\ v[i] = w[i + 1] /\ i \in Nat
      BY <1>2
    <2>2. (\E j \in 1..((i + 1) - 1) : w[j] = d) \/ Has(ran[c], d)
      BY <1>6, <2>1 DEF BootInv, VisitsClosed
    <2>3. ASSUME NEW j \in 1..((i + 1) - 1), w[j] = d PROVE d = Head(w)
      <3>1. CASE j = 1
        BY <1>2, <2>3, <3>1
      <3>2. CASE j # 1
        <4>1. j - 1 \in 1..(i - 1) /\ j - 1 \in 1..(Len(w) - 1) /\ (j - 1) + 1 = j
          BY <1>2, <2>1, <2>3, <3>2
        <4>2. v[j - 1] = d
          BY <1>2, <2>3, <4>1
        <4> QED BY <1>6, <4>1, <4>2
      <3> QED BY <3>1, <3>2
    <2> QED BY <1>6, <2>2, <2>3
  <1> QED BY <1>2, <1>3, <1>4, <1>5, <1>6 DEF v

LEMMA VisitKeeps ==
  ASSUME BootInv, NEW c \in CPU, Visit(c) PROVE BootInv'
  <1> DEFINE b == info.bsp
             t == Head(visits[c])
             Does == Covers(c, t) /\ ~completed[t]
  <1>0. /\ info' = info /\ pos' = pos /\ gs' = gs /\ g_init_stage_current' = g_init_stage_current
        /\ g_init_ap_cpu_id' = g_init_ap_cpu_id /\ g_init_ap_finished' = g_init_ap_finished
        /\ todo' = todo /\ waiting' = waiting /\ woken' = woken /\ visits[c] # <<>>
        /\ visits' = [visits EXCEPT ![c] = Tail(visits[c])]
    BY DEF Visit, smp_vars
  <1>i. /\ \A e : (IsAp(e)' <=> IsAp(e)) /\ Program(e)' = Program(e) /\ Seqid(e)' = Seqid(e)
        /\ Working' = Working
        /\ \A e, x : Covers(e, x)' <=> Covers(e, x)
    BY <1>0, SameInfo
  <1>t. BootTypes /\ Turns /\ b \in CPU /\ b \notin woken /\ ~IsAp(b) /\ \A e \in CPU : IsAp(e) <=> e # b
    BY Ground DEF BootInv
  <1>a. \A e : (Pending(e)' <=> Pending(e)) /\ (Active(e)' <=> Active(e)) /\ \A k : Entered(e, k)' <=> Entered(e, k)
    <2>1. \A e : (Pending(e)' <=> Pending(e)) /\ (Active(e)' <=> Active(e))
      BY <1>0 DEF Pending, Active
    <2>2. \A e, k : Entered(e, k)' <=> Entered(e, k)
      BY <1>0, <1>i DEF Entered
    <2> QED BY <2>1, <2>2
  <1>w. Active(c) /\ t \in Target /\ ran[c] \in Seq(Target)
    <2>1. visits[c] \in Seq(Target) /\ ran[c] \in Seq(Target)
      BY <1>t DEF BootTypes
    <2> QED BY <1>0, <2>1, TailHas DEF BootInv, Quiet
  <1>f. /\ \A x \in Target : Covers(c, x) => (completed[x] <=> Has(ran[c], x))
        /\ \A e \in CPU : Active(e) => e = c
    BY <1>t, <1>w, OneActive DEF BootInv, FlagsMatch
  <1>d. /\ ~Does => completed' = completed /\ ran' = ran /\ setup' = setup /\ asked' = asked
        /\ Does => /\ completed' = [completed EXCEPT ![t] = TRUE]
                   /\ ran' = [ran EXCEPT ![c] = Append(ran[c], t)]
                   /\ setup' = [setup EXCEPT ![gs[c]] = setup[gs[c]] \union {t}]
                   /\ asked' = [asked EXCEPT ![c] = Times(TablePages[t], "table") \o Times(PmmPages[t], "pmm")]
    BY DEF Visit, Covers, Completed, Ask
  <1> HIDE DEF b, t, Does
  <1>b. b = info.bsp /\ b = info'.bsp /\ t = Head(visits[c])
    BY <1>0 DEF b, t
  (* What c has run behind the step. *)
  <1>r. /\ ran' \in [CPU -> Seq(Target)] /\ \A e \in CPU : e # c => ran'[e] = ran[e]
        /\ ~Does => ran'[c] = ran[c]
        /\ Does => ran'[c] = Append(ran[c], t) /\ Covers(c, t) /\ ~Has(ran[c], t)
        /\ \A x : Has(ran'[c], x) <=> Has(ran[c], x) \/ (Does /\ x = t)
        /\ Covers(c, t) => Has(ran'[c], t)
        /\ ran = [e \in CPU |-> ran[e]] /\ ran' = [e \in CPU |-> ran'[e]]
    <2>0. ran \in [CPU -> Seq(Target)]
      BY <1>t DEF BootTypes
    <2>1. CASE ~Does
      <3>1. ran' = ran
        BY <1>d, <2>1
      <3>2. Covers(c, t) => Has(ran[c], t)
        BY <1>f, <1>w, <2>1 DEF Does
      <3> QED BY <2>0, <2>1, <3>1, <3>2
    <2>2. CASE Does
      <3> DEFINE u == Append(ran[c], t)
      <3>1. u \in Seq(Target) /\ \A x : Has(u, x) <=> Has(ran[c], x) \/ x = t
        BY <1>w, AppendHas
      <3>2. ran' = [ran EXCEPT ![c] = u] /\ Covers(c, t) /\ ~Has(ran[c], t)
        BY <1>d, <1>f, <1>w, <2>2 DEF Does
      <3> HIDE DEF u
      <3>3. ran' \in [CPU -> Seq(Target)] /\ ran'[c] = u /\ \A e \in CPU : e # c => ran'[e] = ran[e]
        BY <2>0, <3>1, <3>2
      <3> QED BY <2>0, <2>2, <3>1, <3>2, <3>3 DEF u
    <2> QED BY <2>1, <2>2
  <1>v. /\ IsAp(c) => pos[c] > 1 /\ pos[c] <= 9 /\ c \in woken
        /\ Tail(visits[c]) \in Seq(Target)
        /\ \A x \in Target : Covers(c, x) /\ Entered(c, Stage[x]) => Has(ran'[c], x) \/ Has(Tail(visits[c]), x)
        /\ \A i \in 1..Len(Tail(visits[c])) : \A d \in Found(Tail(visits[c])[i]) :
             (\E j \in 1..(i - 1) : Tail(visits[c])[j] = d) \/ (Covers(c, d) => Has(ran'[c], d))
    <2>1. \A x : Has(ran[c], x) => Has(ran'[c], x)
      BY <1>r
    <2>2. Covers(c, Head(visits[c])) => Has(ran'[c], Head(visits[c]))
      BY <1>r, <1>b
    <2> QED BY <1>0, <2>1, <2>2, NextVisit
  <1>s. /\ visits' \in [CPU -> Seq(Target)] /\ visits'[c] = Tail(visits[c])
        /\ \A e \in CPU : e # c => visits'[e] = visits[e]
    BY <1>0, <1>t, <1>v DEF BootTypes
  <1>q. asked' = [e \in CPU |-> asked'[e]] /\ \A e \in CPU : e # c => asked'[e] = asked[e]
    <2>1. asked = [e \in CPU |-> asked[e]]
      BY <1>t DEF BootTypes
    <2> QED BY <1>d, <2>1
  <1>c. completed' \in [Target -> BOOLEAN] /\ \A x \in Target : completed'[x] <=> completed[x] \/ (Does /\ x = t)
    <2>1. completed \in [Target -> BOOLEAN]
      BY <1>t DEF BootTypes
    <2> QED BY <1>d, <1>w, <2>1
  <1>1. BootTypes'
    BY <1>0, <1>i, <1>t, <1>r, <1>s, <1>q, <1>c DEF BootTypes
  <1>2. Turns'
    BY <1>0, <1>i, <1>a DEF BootInv, Turns
  <1>3. Quiet'
    <2>1. \A e \in CPU : visits'[e] # <<>> => Active(e) /\ (IsAp(e) => pos[e] > 1)
      BY <1>w, <1>v, <1>s DEF BootInv, Quiet
    <2>2. \A e \in CPU : IsAp(e) /\ pos[e] = 10 => asked'[e] = <<>>
      BY <1>v, <1>q DEF BootInv, Quiet
    <2>3. \A e \in CPU : IsAp(e) /\ pos[e] = 1 => ran'[e] = <<>>
      BY <1>v, <1>r DEF BootInv, Quiet
    <2>4. pos[b] > SMP => visits'[b] = <<>>
      <3>1. pos[b] > SMP => visits[b] = <<>>
        BY <1>b DEF BootInv, Quiet
      <3> QED BY <1>0, <1>t, <1>s, <3>1
    <2> QED BY <1>0, <1>i, <1>a, <1>b, <2>1, <2>2, <2>3, <2>4 DEF Quiet
  <1>4. StagesAhead'
    BY <1>0, <1>i, <1>a DEF BootInv, StagesAhead
  <1>5. FlagsMatch'
    <2> SUFFICES ASSUME NEW x \in Target, Covers(c, x) PROVE completed'[x] <=> Has(ran'[c], x)
      BY <1>i, <1>a, <1>f DEF FlagsMatch
    <2> QED BY <1>c, <1>f, <1>r
  <1>6. StagesRun'
    <2> SUFFICES ASSUME NEW e \in CPU, NEW x \in Target, Covers(e, x), Entered(e, Stage[x])
                 PROVE  Has(ran'[e], x) \/ Has(visits'[e], x)
      BY <1>i, <1>a DEF StagesRun
    <2>1. CASE e = c
      BY <1>v, <1>s, <2>1
    <2>2. CASE e # c
      BY <1>r, <1>s, <2>2 DEF BootInv, StagesRun
    <2> QED BY <2>1, <2>2
  <1>7. VisitsClosed'
    <2> SUFFICES ASSUME NEW e \in CPU, NEW i \in 1..Len(visits'[e]), NEW d \in Found(visits'[e][i])
                 PROVE  (\E j \in 1..(i - 1) : visits'[e][j] = d) \/ (Covers(e, d) => Has(ran'[e], d))
      BY <1>i DEF VisitsClosed
    <2>1. CASE e = c
      BY <1>v, <1>s, <2>1
    <2>2. CASE e # c
      BY <1>r, <1>s, <2>2 DEF BootInv, VisitsClosed
    <2> QED BY <2>1, <2>2
  <1> DEFINE n == Len(ran[c])
  <1>8. /\ n \in Nat /\ \A i \in 1..n : ran'[c][i] = ran[c][i]
        /\ Does => Len(ran'[c]) = n + 1 /\ ran'[c][n + 1] = t
        /\ ~Does => Len(ran'[c]) = n
        /\ DOMAIN ran[c] = 1..n
        /\ \A e \in CPU : DOMAIN ran'[e] = 1..Len(ran'[e]) /\ DOMAIN ran[e] = 1..Len(ran[e])
    <2>1. n \in Nat /\ DOMAIN ran[c] = 1..n
      BY <1>w
    <2>2. \A e \in CPU : DOMAIN ran'[e] = 1..Len(ran'[e]) /\ DOMAIN ran[e] = 1..Len(ran[e])
      <3> TAKE e \in CPU
      <3>1. ran'[e] \in Seq(Target) /\ ran[e] \in Seq(Target)
        BY <1>r, <1>t DEF BootTypes
      <3> QED BY <3>1
    <2>3. CASE Does
      <3>1. ran'[c] = Append(ran[c], t)
        BY <1>r, <2>3
      <3>2. /\ Len(Append(ran[c], t)) = n + 1 /\ Append(ran[c], t)[n + 1] = t
            /\ \A i \in 1..n : Append(ran[c], t)[i] = ran[c][i]
        BY <1>w, AppendHas
      <3> QED BY <2>1, <2>2, <2>3, <3>1, <3>2
    <2>4. CASE ~Does
      BY <1>r, <2>1, <2>2, <2>4
    <2> QED BY <2>3, <2>4
  <1>9. RanDistinct'
    <2>1. ASSUME NEW e \in CPU, NEW i \in 1..Len(ran'[e]) PROVE Covers(e, ran'[e][i])
      <3>1. CASE e = c /\ Does /\ i = n + 1
        BY <1>r, <1>8, <3>1
      <3>2. CASE e = c /\ i \in 1..n
        <4>1. Covers(c, ran[c][i])
          BY <3>2 DEF BootInv, RanDistinct
        <4> QED BY <1>8, <3>2, <4>1
      <3>3. CASE e # c
        BY <1>r, <3>3 DEF BootInv, RanDistinct
      <3> QED BY <1>8, <2>1, <3>1, <3>2, <3>3
    <2>2. ASSUME NEW e \in CPU, NEW i \in 1..Len(ran'[e]), NEW j \in 1..Len(ran'[e]), ran'[e][i] = ran'[e][j], i < j
          PROVE  FALSE
      <3>1. CASE e = c /\ Does /\ j = n + 1
        <4>1. i \in 1..n
          BY <1>8, <2>2, <3>1
        <4>2. ran[c][i] = t
          BY <1>8, <2>2, <3>1, <4>1
        <4> QED BY <1>r, <3>1, <4>1, <4>2 DEF Has
      <3>2. CASE e = c /\ j \in 1..n
        <4>1. i \in 1..n /\ i # j
          BY <1>8, <2>2, <3>2
        <4>2. ran[c][i] = ran[c][j]
          BY <1>8, <2>2, <3>2, <4>1
        <4> QED BY <3>2, <4>1, <4>2 DEF BootInv, RanDistinct
      <3>3. CASE e # c
        <4>1. i # j
          BY <2>2
        <4> QED BY <1>r, <2>2, <3>3, <4>1 DEF BootInv, RanDistinct
      <3> QED BY <1>8, <2>2, <3>1, <3>2, <3>3
    <2>3. ASSUME NEW e \in CPU, NEW i \in 1..Len(ran'[e]), NEW j \in 1..Len(ran'[e]), ran'[e][i] = ran'[e][j]
          PROVE  i = j
      <3>1. ~(i < j) /\ ~(j < i)
        BY <2>2, <2>3
      <3> QED BY <3>1
    <2> QED BY <1>i, <2>1, <2>3 DEF RanDistinct
  <1>10. DependenciesFirst'
    <2> SUFFICES ASSUME NEW e \in CPU, NEW i \in 1..Len(ran'[e]), NEW d \in Found(ran'[e][i])
                 PROVE  IF Covers(e, d) THEN \E j \in 1..(i - 1) : ran'[e][j] = d ELSE Has(ran'[b], d)
      <3>1. (\A e \in CPU : DOMAIN ran'[e] = 1..Len(ran'[e])) /\ b \in CPU /\ info'.bsp = b /\ info.bsp = b
        BY <1>8, <1>b, <1>t
      <3>2. \A e \in CPU : \A i \in DOMAIN ran'[e] : \A d \in Found(ran'[e][i]) :
              IF DO_TARGET(d, e # b) THEN \E j \in 1..(i - 1) : ran'[e][j] = d
              ELSE \E j \in DOMAIN ran'[b] : ran'[b][j] = d
        <4> TAKE e \in CPU
        <4> TAKE i \in DOMAIN ran'[e]
        <4> TAKE d \in Found(ran'[e][i])
        <4>1. i \in 1..Len(ran'[e])
          BY <3>1
        <4>2. IF Covers(e, d) THEN \E j \in 1..(i - 1) : ran'[e][j] = d ELSE Has(ran'[b], d)
          BY <4>1
        <4>3. Covers(e, d) <=> DO_TARGET(d, e # b)
          BY <3>1 DEF Covers, IsAp
        <4>4. Has(ran'[b], d) <=> \E j \in DOMAIN ran'[b] : ran'[b][j] = d
          BY <3>1 DEF Has
        <4> QED BY <4>2, <4>3, <4>4
      <3>3. DependenciesFirst' <=>
              \A e \in CPU : \A i \in DOMAIN ran'[e] : \A d \in Found(ran'[e][i]) :
                IF DO_TARGET(d, e # info'.bsp) THEN \E j \in 1..(i - 1) : ran'[e][j] = d
                ELSE \E j \in DOMAIN ran'[info'.bsp] : ran'[info'.bsp][j] = d
        BY DEF DependenciesFirst, IsAp
      <3> QED BY <3>1, <3>2, <3>3
    <2>0. \A x : Has(ran[b], x) => Has(ran'[b], x)
      BY <1>t, <1>r
    <2>1. CASE e # c \/ i \in 1..n
      <3>1. i \in 1..Len(ran[e]) /\ ran'[e][i] = ran[e][i] /\ \A j \in 1..(i - 1) : ran'[e][j] = ran[e][j]
        <4>1. CASE e # c
          BY <1>r, <4>1
        <4>2. CASE e = c /\ i \in 1..n
          <5>1. \A j \in 1..(i - 1) : j \in 1..n
            BY <1>8, <4>2
          <5> QED BY <1>8, <4>2, <5>1
        <4> QED BY <2>1, <4>1, <4>2
      <3>2. IF Covers(e, d) THEN \E j \in 1..(i - 1) : ran[e][j] = d ELSE Has(ran[b], d)
        BY <1>8, <1>b, <1>t, <3>1 DEF BootInv, DependenciesFirst, Covers, Has
      <3> QED BY <2>0, <3>1, <3>2
    <2>2. CASE e = c /\ Does /\ i = n + 1
      <3>1. d \in Found(t) /\ d \in Target
        BY <1>8, <1>w, <2>2, FoundTargets
      <3>2. CASE Covers(c, d)
        <4>1. Has(ran[c], d)
          <5>1. visits[c] \in Seq(Target) /\ visits[c] # <<>>
            BY <1>0, <1>t DEF BootTypes
          <5>2. 1 \in 1..Len(visits[c]) /\ visits[c][1] = t
            BY <5>1, <1>b, TailHas
          <5>3. (\E j \in 1..(1 - 1) : visits[c][j] = d) \/ (Covers(c, d) => Has(ran[c], d))
            BY <3>1, <5>2 DEF BootInv, VisitsClosed
          <5> QED BY <3>2, <5>3
        <4>2. PICK j \in 1..n : ran[c][j] = d
          BY <4>1 DEF Has
        <4>3. j \in 1..(i - 1) /\ ran'[e][j] = d
          BY <1>8, <2>2, <4>2
        <4> QED BY <2>2, <3>2, <4>3
      <3>3. CASE ~Covers(c, d)
        <4>1. Scope[t] \in {"BSP", "APS", "ALL"} /\ Scope[d] \in {"BSP", "APS", "ALL"}
              /\ (Scope[d] = "APS" => Scope[t] = "APS")
          BY <1>w, <3>1, TargetAssumption, DependencyAssumption
        <4>2. Covers(c, t)
          BY <1>r, <2>2
        <4>3. IsAp(c) /\ Covers(b, d)
          BY <1>t, <3>3, <4>1, <4>2 DEF Covers, DO_TARGET
        <4>4. woken # {}
          BY <1>v, <4>3
        <4>5. Has(ran[b], d)
          BY <1>b, <3>1, <4>3, <4>4, BspIsThrough DEF BootInv
        <4> QED BY <2>0, <2>2, <3>3, <4>5
      <3> QED BY <3>2, <3>3
    <2> QED BY <1>8, <2>1, <2>2
  <1>11. Recorded'
    <2>0. Recorded
      BY DEF BootInv
    <2>1. CASE ~Does
      <3>1. ran' = ran /\ setup' = setup
        BY <1>d, <2>1
      <3>2. {Seqid(e)' : e \in Working'} = {Seqid(e) : e \in Working}
        BY <1>i
      <3> QED BY <1>0, <1>i, <1>b, <2>0, <3>1, <3>2 DEF Recorded
    <2>2. CASE Does
      <3>a. /\ gs[b] = (IF pos[b] <= LOCALS THEN EARLY_BSP ELSE Seqid(b)) /\ pos[b] \in Nat
            /\ DOMAIN setup = (IF pos[b] <= LOCALS THEN {EARLY_BSP} ELSE {EARLY_BSP} \union {Seqid(e) : e \in Working})
            /\ setup = [s \in DOMAIN setup |-> setup[s]]
            /\ \A e \in CPU : IsAp(e) /\ pos[e] > 1 => gs[e] = Seqid(e)
            /\ setup[gs[b]] = {x \in Target : Has(ran[b], x)}
            /\ pos[b] > LOCALS => \A e \in Working \ {b} : setup[Seqid(e)] = {x \in Target : Has(ran[e], x)}
        BY <2>0, <1>b, <1>t, BspNow DEF Recorded
      <3>b. /\ b \in Working /\ Working \subseteq CPU /\ (\A e, f \in CPU : e # f => Seqid(e) # Seqid(f))
            /\ \A e \in CPU : Seqid(e) # EARLY_BSP
        BY <1>b, <1>t, Ground
      <3>c. c # b => pos[b] > LOCALS /\ ~(pos[b] <= LOCALS) /\ c \in Working /\ gs[c] = Seqid(c)
        <4> SUFFICES ASSUME c # b PROVE pos[b] > LOCALS /\ ~(pos[b] <= LOCALS) /\ c \in Working /\ gs[c] = Seqid(c)
          OBVIOUS
        <4>1. IsAp(c) /\ pos[c] > 1 /\ c \in woken
          BY <1>t, <1>v
        <4>2. pos[b] >= SMP
          BY <1>b, <1>t, <4>1 DEF Turns
        <4> QED BY <1>t, <3>a, <4>1, <4>2, Marks DEF BootTypes
      <3>d. gs[b] \in DOMAIN setup /\ gs[c] \in DOMAIN setup
        BY <3>a, <3>b, <3>c, <1>t
      <3>e. /\ DOMAIN setup' = DOMAIN setup /\ setup' = [s \in DOMAIN setup' |-> setup'[s]]
            /\ setup'[gs[c]] = setup[gs[c]] \union {t}
            /\ \A s \in DOMAIN setup : s # gs[c] => setup'[s] = setup[s]
        BY <1>d, <2>2, <3>a, <3>d
      <3>f. {x \in Target : Has(ran'[c], x)} = {x \in Target : Has(ran[c], x)} \union {t}
        BY <1>r, <1>w, <2>2
      <3>g. setup[gs[c]] = {x \in Target : Has(ran[c], x)}
        <4>1. CASE c = b
          BY <3>a, <4>1
        <4>2. CASE c # b
          BY <3>a, <3>c, <4>2
        <4> QED BY <4>1, <4>2
      <3>h. setup'[gs[c]] = {x \in Target : Has(ran'[c], x)}
        BY <3>e, <3>f, <3>g
      <3>j. setup'[gs[b]] = {x \in Target : Has(ran'[b], x)}
        <4>1. CASE c = b
          BY <3>h, <4>1
        <4>2. CASE c # b
          <5>1. gs[b] # gs[c]
            BY <1>t, <3>a, <3>b, <3>c, <4>2
          <5>2. setup'[gs[b]] = setup[gs[b]]
            BY <3>d, <3>e, <5>1
          <5> QED BY <1>r, <1>t, <3>a, <4>2, <5>2
        <4> QED BY <4>1, <4>2
      <3>k. ASSUME pos[b] > LOCALS, NEW e \in Working \ {b}
            PROVE  setup'[Seqid(e)] = {x \in Target : Has(ran'[e], x)}
        <4>0. e \in CPU /\ ~(pos[b] <= LOCALS)
          BY <3>a, <3>b, <3>k, Marks
        <4>1. CASE e = c
          BY <3>c, <3>h, <4>1
        <4>2. CASE e # c
          <5>1. Seqid(e) # gs[c] /\ Seqid(e) \in DOMAIN setup
            BY <1>t, <3>a, <3>b, <3>c, <4>0, <4>2
          <5>2. setup'[Seqid(e)] = setup[Seqid(e)]
            BY <3>e, <5>1
          <5>3. setup[Seqid(e)] = {x \in Target : Has(ran[e], x)}
            BY <3>a, <3>k
          <5> QED BY <1>r, <4>0, <4>2, <5>2, <5>3
        <4> QED BY <4>1, <4>2
      <3>l. {Seqid(e)' : e \in Working'} = {Seqid(e) : e \in Working}
        BY <1>i
      <3> QED BY <1>0, <1>i, <1>b, <3>a, <3>e, <3>j, <3>k, <3>l DEF Recorded
    <2> QED BY <2>1, <2>2
  <1> QED BY <1>1, <1>2, <1>3, <1>4, <1>5, <1>6, <1>7, <1>9, <1>10, <1>11 DEF BootInv

LEMMA LocalsKeeps ==
  ASSUME BootInv, arch_init_cpu_locals PROVE BootInv'
  <1> DEFINE b == info.bsp
  <1>0. /\ info' = info /\ visits' = visits /\ asked' = asked /\ ran' = ran
        /\ completed' = completed /\ g_init_stage_current' = g_init_stage_current
        /\ g_init_ap_cpu_id' = g_init_ap_cpu_id /\ g_init_ap_finished' = g_init_ap_finished
        /\ todo' = todo /\ waiting' = waiting /\ woken' = woken
    BY DEF arch_init_cpu_locals, target_vars, smp_vars
  <1>i. /\ \A c : (IsAp(c)' <=> IsAp(c)) /\ Program(c)' = Program(c) /\ Seqid(c)' = Seqid(c)
        /\ Working' = Working
        /\ \A c, t : Covers(c, t)' <=> Covers(c, t)
    BY <1>0, SameInfo
  <1>t. /\ BootTypes /\ Turns /\ b \in CPU /\ b \notin woken /\ ~IsAp(b) /\ (\A c \in CPU : IsAp(c) <=> c # b)
        /\ b \in Working /\ Working \subseteq CPU /\ (\A c, d \in CPU : c # d => Seqid(c) # Seqid(d))
        /\ \A c \in CPU : Seqid(c) # EARLY_BSP
    BY Ground DEF BootInv
  <1>n. /\ pos[b] = LOCALS /\ visits[b] = <<>> /\ Program(b) = init /\ init[LOCALS].op = "locals"
        /\ pos[b] \in Nat /\ pos[b] >= 1 /\ pos[b] < SMP
    <2>1. Now(b).op = "locals" /\ visits[b] = <<>>
      BY DEF arch_init_cpu_locals, Runs
    <2>2. pos[b] = LOCALS /\ Program(b) = init /\ Now(b) = init[pos[b]]
      BY <1>t, <2>1, BspNow
    <2> QED BY <2>1, <2>2, Marks
  <1>p. pos' \in [CPU -> Nat] /\ pos'[b] = pos[b] + 1 /\ \A c \in CPU : c # b => pos'[c] = pos[c]
    BY <1>t, <1>n DEF arch_init_cpu_locals, Advance, BootTypes
  <1>g. gs' = [c \in CPU |-> gs'[c]] /\ gs'[b] = Seqid(b) /\ \A c \in CPU : c # b => gs'[c] = gs[c]
    <2>1. gs = [c \in CPU |-> gs[c]] /\ gs' = [gs EXCEPT ![b] = Seqid(b)]
      BY <1>t DEF arch_init_cpu_locals, BootTypes
    <2> QED BY <1>t, <2>1
  <1>a. \A c \in CPU : (Pending(c)' <=> Pending(c)) /\ (Active(c)' <=> Active(c))
    <2>1. \A c \in CPU : Pending(c)' <=> Pending(c)
      BY <1>0, <1>t, <1>p DEF Pending
    <2> QED BY <1>0, <2>1 DEF Active
  <1>k. woken = {} /\ ~waiting /\ \A c \in CPU : IsAp(c) => ran[c] = <<>>
    <2>1. woken = {} /\ ~waiting
      BY <1>t, <1>n, Marks DEF Turns
    <2>2. ASSUME NEW c \in CPU, IsAp(c) PROVE pos[c] = 1
      <3>1. ~(pos[c] > 1) /\ pos[c] \in Nat /\ pos[c] >= 1
        BY <1>t, <2>1, <2>2 DEF Turns, BootTypes
      <3> QED BY <3>1
    <2> QED BY <2>1, <2>2 DEF BootInv, Quiet
  <1>s. /\ setup[EARLY_BSP] = {t \in Target : Has(ran[b], t)} /\ DOMAIN setup = {EARLY_BSP}
        /\ setup' = [s \in DOMAIN setup \union {Seqid(c) : c \in Working} |->
                       IF s = EARLY_BSP THEN setup[s] ELSE LocalsFor(s)]
    <2>1. pos[b] <= LOCALS
      BY <1>n, Marks
    <2> QED BY <2>1 DEF BootInv, Recorded, arch_init_cpu_locals
  <1> HIDE DEF b
  <1>b. b = info.bsp /\ b = info'.bsp
    BY <1>0 DEF b
  <1>1. BootTypes'
    <2>1. \A c \in CPU : pos'[c] >= 1 /\ pos'[c] <= (IF IsAp(c) THEN 10 ELSE SMP + 1)
      <3> TAKE c \in CPU
      <3>1. CASE c = b
        BY <1>t, <1>n, <1>p, <3>1, Marks
      <3>2. CASE c # b
        BY <1>t, <1>p, <3>2 DEF BootTypes
      <3> QED BY <3>1, <3>2
    <2> QED BY <1>0, <1>i, <1>t, <1>p, <1>g, <2>1 DEF BootTypes
  <1>2. Turns'
    <2>1. \A c \in CPU : IsAp(c) /\ pos'[c] > 1 => c \in woken
      BY <1>t, <1>p DEF Turns
    <2>2. \A c \in CPU : ~Pending(c)
      BY <1>k DEF Pending
    <2> QED BY <1>0, <1>i, <1>a, <1>k, <2>1, <2>2 DEF Turns
  <1>3. Quiet'
    <2>1. \A c \in CPU : visits[c] # <<>> => Active(c) /\ (IsAp(c) => pos'[c] > 1)
      BY <1>t, <1>p DEF BootInv, Quiet
    <2>2. \A c \in CPU : IsAp(c) /\ pos'[c] = 10 => asked[c] = <<>>
      BY <1>t, <1>p DEF BootInv, Quiet
    <2> QED BY <1>0, <1>i, <1>a, <1>b, <1>n, <1>k, <2>1, <2>2 DEF Quiet
  <1>4. StagesAhead'
    <2> SUFFICES ASSUME NEW c \in CPU, Active(c), NEW i \in pos'[c]..Len(Program(c)), Program(c)[i].op = "stage"
                 PROVE  Program(c)[i].stage >= g_init_stage_current
      BY <1>0, <1>i, <1>a DEF StagesAhead
    <2>0. pos[c] \in Int /\ pos'[c] \in Int /\ pos[c] <= pos'[c]
      <3>1. pos[c] \in Nat /\ (pos'[c] = pos[c] \/ pos'[c] = pos[c] + 1)
        BY <1>t, <1>p, <1>n DEF BootTypes
      <3> QED BY <3>1
    <2>1. i \in pos[c]..Len(Program(c))
      BY <2>0
    <2> QED BY <2>1 DEF BootInv, StagesAhead
  <1>5. FlagsMatch'
    BY <1>0, <1>i, <1>a DEF BootInv, FlagsMatch
  <1>6. StagesRun'
    <2>1. ASSUME NEW c \in CPU, NEW k, Entered(c, k)' PROVE Entered(c, k)
      <3>1. PICK i \in 1..(pos'[c] - 1) : Program(c)[i].op = "stage" /\ Program(c)[i].stage = k
        BY <1>i, <2>1 DEF Entered
      <3>2. i \in 1..(pos[c] - 1)
        <4>1. CASE c = b
          <5>1. i # pos[b]
            BY <1>n, <3>1, <4>1
          <5>2. i \in 1..pos[b]
            BY <1>n, <1>p, <3>1, <4>1
          <5> QED BY <1>n, <4>1, <5>1, <5>2
        <4>2. CASE c # b
          BY <1>p, <3>1, <4>2
        <4> QED BY <4>1, <4>2
      <3> QED BY <3>1, <3>2 DEF Entered
    <2> QED BY <1>0, <1>i, <2>1 DEF BootInv, StagesRun
  <1>7. VisitsClosed' /\ RanDistinct' /\ DependenciesFirst'
    BY <1>0, SameRuns
  <1>8. Recorded'
    <2>1. DOMAIN setup' = {EARLY_BSP} \union {Seqid(c) : c \in Working}
          /\ setup' = [s \in DOMAIN setup' |-> setup'[s]]
      BY <1>s
    <2>2. setup'[Seqid(b)] = {t \in Target : Has(ran[b], t)}
      <3>1. Seqid(b) \in {Seqid(c) : c \in Working} /\ Seqid(b) # EARLY_BSP
        BY <1>t
      <3>2. LocalsFor(Seqid(b)) = setup[EARLY_BSP]
        BY <1>b DEF LocalsFor
      <3> QED BY <1>s, <3>1, <3>2
    <2>3. ASSUME NEW c \in Working \ {b} PROVE setup'[Seqid(c)] = {t \in Target : Has(ran[c], t)}
      <3>1. Seqid(c) \in {Seqid(d) : d \in Working} /\ Seqid(c) # EARLY_BSP /\ Seqid(c) # Seqid(b)
        BY <1>t
      <3>2. LocalsFor(Seqid(c)) = {}
        BY <1>b, <3>1 DEF LocalsFor
      <3>3. {t \in Target : Has(ran[c], t)} = {}
        BY <1>k, <1>t, HasFew
      <3> QED BY <1>s, <3>1, <3>2, <3>3
    <2>4. ~(pos'[b] <= LOCALS)
      BY <1>n, <1>p, Marks
    <2>5. {Seqid(c)' : c \in Working'} = {Seqid(c) : c \in Working}
      BY <1>i
    <2>6. \A c \in CPU : IsAp(c) /\ pos'[c] > 1 => gs'[c] = Seqid(c)
      BY <1>t, <1>p, <1>g DEF BootInv, Recorded
    <2> QED BY <1>0, <1>i, <1>b, <1>g, <2>1, <2>2, <2>3, <2>4, <2>5, <2>6 DEF Recorded
  <1> QED BY <1>1, <1>2, <1>3, <1>4, <1>5, <1>6, <1>7, <1>8 DEF BootInv

(* A step of arch_init_smp that moves no CPU.                              *)
LEMMA SmpKeeps ==
  ASSUME BootInv, UNCHANGED <<info, cpu_vars>>, BootTypes', Turns',
         \A c \in CPU : visits[c] = <<>>, StagesAhead', FlagsMatch'
  PROVE  BootInv'
  <1>0. /\ info' = info /\ pos' = pos /\ visits' = visits /\ gs' = gs /\ setup' = setup /\ ran' = ran
        /\ asked' = asked
    BY DEF cpu_vars
  <1>i. /\ \A c : (IsAp(c)' <=> IsAp(c)) /\ Program(c)' = Program(c) /\ Seqid(c)' = Seqid(c)
        /\ Working' = Working
        /\ \A c, t : Covers(c, t)' <=> Covers(c, t)
    BY <1>0, SameInfo
  <1>1. Quiet'
    BY <1>0, <1>i, Ground DEF BootInv, Quiet
  <1>2. StagesRun'
    <2>1. \A c, k : Entered(c, k)' <=> Entered(c, k)
      BY <1>0, <1>i DEF Entered
    <2> QED BY <1>0, <1>i, <2>1 DEF BootInv, StagesRun
  <1>3. VisitsClosed' /\ RanDistinct' /\ DependenciesFirst'
    BY <1>0, SameRuns
  <1>4. Recorded'
    <2>1. pos'[info'.bsp] = pos[info.bsp] /\ gs'[info'.bsp] = gs[info.bsp] /\ ran'[info'.bsp] = ran[info.bsp]
          /\ setup' = setup
      BY <1>0
    <2>2. {Seqid(c)' : c \in Working'} = {Seqid(c) : c \in Working}
      BY <1>i
    <2>3. Recorded
      BY DEF BootInv
    <2> QED BY <1>0, <1>i, <2>1, <2>2, <2>3 DEF Recorded
  <1> QED BY <1>1, <1>2, <1>3, <1>4 DEF BootInv

LEMMA StartKeeps ==
  ASSUME BootInv, start_ap PROVE BootInv'
  <1> DEFINE b == info.bsp
             c == CHOOSE x \in todo : \A d \in todo : x <= d
  <1>0. /\ UNCHANGED <<info, cpu_vars>> /\ info' = info /\ pos' = pos /\ visits' = visits /\ gs' = gs
        /\ ran' = ran /\ asked' = asked
        /\ completed' = init_reset_ap(completed) /\ g_init_stage_current' = 0
        /\ g_init_ap_cpu_id' = Seqid(c) /\ g_init_ap_finished' = FALSE
        /\ woken' = woken \union {c} /\ todo' = todo \ {c} /\ waiting' = TRUE /\ ~waiting /\ todo # {}
    BY DEF start_ap, cpu_vars, FinishedAtStart
  <1>i. /\ \A e : (IsAp(e)' <=> IsAp(e)) /\ Program(e)' = Program(e) /\ Seqid(e)' = Seqid(e)
        /\ Working' = Working
        /\ \A e, t : Covers(e, t)' <=> Covers(e, t)
    BY <1>0, SameInfo
  <1>t. BootTypes /\ Turns /\ b \in CPU /\ ~IsAp(b) /\ b \notin woken /\ (\A e \in CPU : IsAp(e) <=> e # b)
    BY Ground DEF BootInv
  <1>n. pos[b] = SMP /\ visits[b] = <<>>
    <2>1. Now(b).op = "smp" /\ visits[b] = <<>>
      BY DEF start_ap, Runs
    <2> QED BY <1>t, <2>1, BspNow
  <1>c. c \in todo
    <2>1. todo \subseteq Nat
      BY <1>t, Ground DEF BootTypes
    <2>2. \E x \in todo : \A d \in todo : x <= d
      BY <1>0, <2>1, LeastExists
    <2> QED BY <2>2
  <1> HIDE DEF b, c
  <1>b. b = info.bsp /\ b = info'.bsp
    BY <1>0 DEF b
  <1>d. c \in Working /\ c \in CPU /\ c # b /\ IsAp(c) /\ c \notin woken
    BY <1>t, <1>b, <1>c, Ground DEF BootTypes
  <1>e. pos[c] = 1 /\ ran[c] = <<>>
    <2>1. ~(pos[c] > 1) /\ pos[c] \in Nat /\ pos[c] >= 1
      BY <1>t, <1>d DEF Turns, BootTypes
    <2>2. pos[c] = 1
      BY <2>1
    <2> QED BY <1>d, <2>2 DEF BootInv, Quiet
  <1>f. (\A e \in CPU : ~Pending(e)) /\ \A e \in woken : pos[e] = 10
    <2>1. \A e \in CPU : ~Pending(e)
      BY <1>0, <1>t DEF Turns
    <2>2. ASSUME NEW e \in woken PROVE pos[e] = 10
      <3>1. e \in CPU /\ IsAp(e)
        BY <1>b, <1>t, Ground DEF BootTypes
      <3>2. ~(pos[e] <= 9) /\ pos[e] \in Nat /\ pos[e] <= 10
        BY <1>t, <2>1, <3>1 DEF Pending, BootTypes
      <3> QED BY <3>2
    <2> QED BY <2>1, <2>2
  <1>g. \A e \in CPU : visits[e] = <<>>
    BY <1>f, <1>n, <1>b DEF BootInv, Quiet, Active
  <1>a. /\ \A e \in CPU : Pending(e)' => e = c
        /\ \A e \in CPU : Active(e)' => e = c
    <2>1. \A e \in CPU : Pending(e)' => e = c
      <3> TAKE e \in CPU
      <3>1. ASSUME e \in woken PROVE ~Pending(e)'
        <4>1. ~(pos'[e] <= 9)
          BY <1>0, <1>f, <3>1
        <4> QED BY <4>1 DEF Pending
      <3> QED BY <1>0, <3>1 DEF Pending
    <2>2. woken' # {}
      BY <1>0
    <2> QED BY <2>1, <2>2 DEF Active
  <1>1. BootTypes'
    <2>1. completed' \in [Target -> BOOLEAN]
      BY <1>0, <1>t DEF BootTypes, init_reset_ap
    <2>2. 0 \in STAGES
      BY DEF STAGES
    <2> QED BY <1>0, <1>i, <1>t, <1>b, <1>c, <1>d, <2>1, <2>2 DEF BootTypes
  <1>2. Turns'
    <2>1. \A e \in CPU : IsAp(e) /\ pos[e] > 1 => e \in woken
      BY <1>t DEF Turns
    <2>2. \A d \in woken' : d # c => pos[d] = 10
      BY <1>0, <1>f
    <2>3. pos[b] >= SMP
      BY <1>n, Marks
    <2> QED BY <1>0, <1>i, <1>a, <1>b, <1>n, <2>1, <2>2, <2>3 DEF Turns
  <1>3. StagesAhead'
    <2> SUFFICES ASSUME NEW i \in pos[c]..Len(Program(c)), Program(c)[i].op = "stage"
                 PROVE  Program(c)[i].stage >= 0
      BY <1>0, <1>i, <1>a DEF StagesAhead
    <2>1. Program(c) = init_ap
      BY <1>d DEF Program
    <2>2. i \in 1..10
      BY <1>e, <2>1, ApOps
    <2>3. Program(c)[i].stage = i - 2 /\ i >= 2
      BY <2>1, <2>2, ApOps
    <2> QED BY <2>2, <2>3
  <1>4. FlagsMatch'
    <2> SUFFICES ASSUME NEW t \in Target, Covers(c, t) PROVE ~completed'[t] /\ ~Has(ran[c], t)
      BY <1>0, <1>i, <1>a DEF FlagsMatch
    <2>1. DO_TARGET(t, TRUE)
      BY <1>d DEF Covers, DO_TARGET
    <2> QED BY <1>0, <1>e, <2>1, HasFew DEF init_reset_ap
  <1> QED BY <1>0, <1>1, <1>2, <1>3, <1>4, <1>g, SmpKeeps

LEMMA AwaitKeeps ==
  ASSUME BootInv, await_ap PROVE BootInv'
  <1> DEFINE b == info.bsp
  <1>0. /\ UNCHANGED <<info, cpu_vars>> /\ info' = info /\ pos' = pos /\ visits' = visits /\ gs' = gs
        /\ ran' = ran /\ asked' = asked
        /\ completed' = completed /\ g_init_stage_current' = g_init_stage_current
        /\ g_init_ap_cpu_id' = g_init_ap_cpu_id /\ g_init_ap_finished' = g_init_ap_finished
        /\ todo' = todo /\ woken' = woken /\ waiting' = FALSE /\ g_init_ap_finished
    BY DEF await_ap, cpu_vars, target_vars
  <1>i. /\ \A e : (IsAp(e)' <=> IsAp(e)) /\ Program(e)' = Program(e) /\ Seqid(e)' = Seqid(e)
        /\ Working' = Working
        /\ \A e, t : Covers(e, t)' <=> Covers(e, t)
    BY <1>0, SameInfo
  <1>t. BootTypes /\ Turns
    BY DEF BootInv
  <1>n. visits[b] = <<>>
    BY DEF await_ap, Runs
  <1>f. \A e \in CPU : ~Pending(e)
    BY <1>0, <1>t DEF Turns
  <1>g. \A e \in CPU : visits[e] = <<>>
    BY <1>f, <1>n DEF BootInv, Quiet, Active
  <1>a. \A e : (Pending(e)' <=> Pending(e)) /\ (Active(e)' <=> Active(e))
    BY <1>0 DEF Pending, Active
  <1>1. BootTypes'
    BY <1>0, <1>i, <1>t DEF BootTypes
  <1>2. Turns'
    BY <1>0, <1>i, <1>t, <1>a, <1>f DEF Turns
  <1>3. StagesAhead'
    BY <1>0, <1>i, <1>a DEF BootInv, StagesAhead
  <1>4. FlagsMatch'
    BY <1>0, <1>i, <1>a DEF BootInv, FlagsMatch
  <1> QED BY <1>0, <1>1, <1>2, <1>3, <1>4, <1>g, SmpKeeps

(* The first and the last step of a woken CPU: q is where it gets to.      *)
LEMMA ApAdvances ==
  ASSUME BootInv, NEW c \in CPU, IsAp(c), c \in woken, pos[c] \in {1, 9},
         asked[c] = <<>>, visits[c] = <<>>, Advance(c),
         UNCHANGED <<info, visits, asked, setup, ran, target_vars, g_init_ap_cpu_id, todo, waiting, woken>>,
         g_init_ap_finished' = (IF pos[c] = 9 THEN TRUE ELSE g_init_ap_finished),
         gs' = [e \in CPU |-> gs'[e]], gs'[c] = Seqid(c), \A e \in CPU : e # c => gs'[e] = gs[e]
  PROVE  BootInv'
  <1> DEFINE b == info.bsp
  <1>0. /\ info' = info /\ visits' = visits /\ setup' = setup /\ ran' = ran /\ asked' = asked
        /\ completed' = completed /\ g_init_stage_current' = g_init_stage_current
        /\ g_init_ap_cpu_id' = g_init_ap_cpu_id /\ todo' = todo /\ waiting' = waiting /\ woken' = woken
    BY DEF target_vars
  <1>i. /\ \A e : (IsAp(e)' <=> IsAp(e)) /\ Program(e)' = Program(e) /\ Seqid(e)' = Seqid(e)
        /\ Working' = Working
        /\ \A e, t : Covers(e, t)' <=> Covers(e, t)
    BY <1>0, SameInfo
  <1>t. BootTypes /\ Turns /\ b \in CPU /\ b \notin woken /\ c # b /\ ~IsAp(b) /\ \A e \in CPU : IsAp(e) <=> e # b
    BY Ground DEF BootInv
  <1>n. Pending(c) /\ Active(c) /\ pos[c] \in Nat /\ (pos[c] = 1 \/ pos[c] = 9)
    BY <1>t DEF Pending, Active, BootTypes
  <1>p. pos' \in [CPU -> Nat] /\ pos'[c] = pos[c] + 1 /\ \A e \in CPU : e # c => pos'[e] = pos[e]
    BY <1>t, <1>n DEF Advance, BootTypes
  <1>u. \A e \in CPU : Active(e) => e = c
    BY <1>t, <1>n, OneActive
  <1>a. /\ \A e \in CPU : Active(e)' => e = c
        /\ \A e \in CPU : Pending(e)' => e = c /\ pos[c] = 1
        /\ \A e \in CPU : Pending(e) => e = c
    <2>1. \A e \in CPU : Pending(e) => e = c
      BY <1>u DEF Active
    <2>2. \A e \in CPU : Pending(e)' => e = c
      BY <1>0, <1>p, <2>1 DEF Pending
    <2>3. Pending(c)' => pos[c] = 1
      <3>1. pos[c] = 9 => ~(pos'[c] <= 9)
        BY <1>p
      <3> QED BY <1>n, <3>1 DEF Pending
    <2>4. woken' # {}
      BY <1>0
    <2> QED BY <2>1, <2>2, <2>3, <2>4 DEF Active
  <1>v. \A e \in CPU : visits[e] = <<>>
    BY <1>u DEF BootInv, Quiet
  <1> HIDE DEF b
  <1>b. b = info.bsp /\ b = info'.bsp
    BY <1>0 DEF b
  <1>1. BootTypes'
    <2>1. \A e \in CPU : pos'[e] >= 1 /\ pos'[e] <= (IF IsAp(e) THEN 10 ELSE SMP + 1)
      <3> TAKE e \in CPU
      <3>1. CASE e = c
        BY <1>n, <1>p, <3>1
      <3>2. CASE e # c
        BY <1>t, <1>p, <3>2 DEF BootTypes
      <3> QED BY <3>1, <3>2
    <2>2. g_init_ap_finished' \in BOOLEAN
      BY <1>t DEF BootTypes
    <2> QED BY <1>0, <1>i, <1>t, <1>p, <2>1, <2>2 DEF BootTypes
  <1>2. Turns'
    <2>1. \A e \in CPU : IsAp(e) /\ pos'[e] > 1 => e \in woken
      BY <1>t, <1>p DEF Turns
    <2>2. ASSUME pos[c] = 1
          PROVE  /\ waiting /\ ~g_init_ap_finished' /\ g_init_ap_cpu_id = Seqid(c)
                 /\ \A d \in woken : d # c => pos'[d] = 10
      <3>1. \A d \in woken : d \in CPU
        BY <1>t, Ground DEF BootTypes
      <3> QED BY <1>n, <1>t, <1>p, <2>2, <3>1 DEF Turns
    <2>3. pos'[b] = pos[b]
      BY <1>t, <1>p
    <2>4. (waiting => pos[b] = SMP) /\ (woken # {} => pos[b] >= SMP)
      BY <1>b, <1>t DEF Turns
    <2> QED BY <1>0, <1>b, <1>i, <1>a, <2>1, <2>2, <2>3, <2>4 DEF Turns
  <1>3. Quiet'
    <2>1. \A e \in CPU : IsAp(e) /\ pos'[e] = 10 => asked[e] = <<>>
      BY <1>p DEF BootInv, Quiet
    <2>2. \A e \in CPU : IsAp(e) /\ pos'[e] = 1 => ran[e] = <<>>
      BY <1>n, <1>p DEF BootInv, Quiet
    <2> QED BY <1>0, <1>i, <1>b, <1>t, <1>v, <2>1, <2>2 DEF Quiet
  <1>4. StagesAhead'
    <2> SUFFICES ASSUME NEW i \in pos'[c]..Len(Program(c)), Program(c)[i].op = "stage"
                 PROVE  Program(c)[i].stage >= g_init_stage_current
      BY <1>0, <1>i, <1>a DEF StagesAhead
    <2>1. i \in pos[c]..Len(Program(c))
      BY <1>n, <1>p
    <2> QED BY <1>n, <2>1 DEF BootInv, StagesAhead
  <1>5. FlagsMatch'
    BY <1>0, <1>i, <1>a, <1>n DEF BootInv, FlagsMatch
  <1>6. StagesRun'
    <2>1. ASSUME NEW e \in CPU, NEW k, Entered(e, k)' PROVE Entered(e, k)
      <3>1. PICK i \in 1..(pos'[e] - 1) : Program(e)[i].op = "stage" /\ Program(e)[i].stage = k
        BY <1>i, <2>1 DEF Entered
      <3>2. i \in 1..(pos[e] - 1)
        <4>1. CASE e = c
          <5>1. Program(c) = init_ap /\ init_ap[1].op = "parked" /\ init_ap[9].op = "finish"
            BY ApOps DEF Program
          <5>2. i # pos[c]
            BY <1>n, <3>1, <4>1, <5>1
          <5> QED BY <1>n, <1>p, <3>1, <4>1, <5>2
        <4>2. CASE e # c
          BY <1>p, <3>1, <4>2
        <4> QED BY <4>1, <4>2
      <3> QED BY <3>1, <3>2 DEF Entered
    <2> QED BY <1>0, <1>i, <2>1 DEF BootInv, StagesRun
  <1>7. VisitsClosed' /\ RanDistinct' /\ DependenciesFirst'
    BY <1>0, SameRuns
  <1>8. Recorded'
    <2>1. pos'[b] = pos[b] /\ gs'[b] = gs[b]
      BY <1>t, <1>p
    <2>2. {Seqid(e)' : e \in Working'} = {Seqid(e) : e \in Working}
      BY <1>i
    <2>3. Recorded
      BY DEF BootInv
    <2>4. \A e \in CPU : IsAp(e) /\ pos'[e] > 1 => gs'[e] = Seqid(e)
      BY <1>p, <2>3 DEF Recorded
    <2>5. /\ DOMAIN setup = (IF pos'[b] <= LOCALS THEN {EARLY_BSP}
                             ELSE {EARLY_BSP} \union {Seqid(e) : e \in Working})
          /\ setup = [s \in DOMAIN setup |-> setup[s]]
          /\ gs'[b] = (IF pos'[b] <= LOCALS THEN EARLY_BSP ELSE Seqid(b))
      BY <1>b, <2>1, <2>3 DEF Recorded
    <2>6. /\ setup[gs'[b]] = {t \in Target : Has(ran[b], t)}
          /\ pos'[b] > LOCALS => \A e \in Working \ {b} : setup[Seqid(e)] = {t \in Target : Has(ran[e], t)}
      BY <1>b, <2>1, <2>3 DEF Recorded
    <2> QED BY SMTT(40), <1>0, <1>i, <1>b, <2>2, <2>4, <2>5, <2>6 DEF Recorded
  <1> QED BY <1>1, <1>2, <1>3, <1>4, <1>5, <1>6, <1>7, <1>8 DEF BootInv

LEMMA EnterApKeeps ==
  ASSUME BootInv, NEW c \in CPU, enter_ap(c) PROVE BootInv'
  <1>1. Now(c).op = "parked" /\ asked[c] = <<>> /\ visits[c] = <<>> /\ c \in woken /\ Advance(c)
    BY DEF enter_ap, Runs
  <1>2. BootTypes /\ IsAp(c)
    BY <1>1, BspNow, Ground DEF BootInv
  <1>3. pos[c] = 1
    BY <1>1, <1>2, ApNow
  <1>4. g_init_ap_cpu_id = Seqid(c)
    <2>1. Pending(c)
      BY <1>1, <1>3 DEF Pending
    <2> QED BY <2>1 DEF BootInv, Turns
  <1>5. gs' = [e \in CPU |-> gs'[e]] /\ gs'[c] = Seqid(c) /\ \A e \in CPU : e # c => gs'[e] = gs[e]
    <2>1. gs = [e \in CPU |-> gs[e]] /\ gs' = [gs EXCEPT ![c] = Seqid(c)]
      BY <1>2, <1>4 DEF BootTypes, enter_ap
    <2> QED BY <2>1
  <1>6. UNCHANGED <<info, visits, asked, setup, ran, target_vars, g_init_ap_cpu_id, todo, waiting, woken>>
        /\ g_init_ap_finished' = (IF pos[c] = 9 THEN TRUE ELSE g_init_ap_finished)
    BY <1>3 DEF enter_ap, smp_vars
  <1> QED BY <1>1, <1>2, <1>3, <1>5, <1>6, ApAdvances

LEMMA FinishApKeeps ==
  ASSUME BootInv, NEW c \in CPU, finish_ap(c) PROVE BootInv'
  <1>1. Now(c).op = "finish" /\ asked[c] = <<>> /\ visits[c] = <<>> /\ Advance(c)
    BY DEF finish_ap, Runs
  <1>2. BootTypes /\ IsAp(c)
    BY <1>1, BspNow, Ground DEF BootInv
  <1>3. pos[c] = 9
    BY <1>1, <1>2, ApNow
  <1>4. c \in woken /\ gs[c] = Seqid(c)
    <2>1. pos[c] > 1
      BY <1>3
    <2> QED BY <1>2, <2>1 DEF BootInv, Turns, Recorded
  <1>5. gs' = [e \in CPU |-> gs'[e]] /\ gs'[c] = Seqid(c) /\ \A e \in CPU : e # c => gs'[e] = gs[e]
    BY <1>2, <1>4 DEF BootTypes, finish_ap
  <1>6. UNCHANGED <<info, visits, asked, setup, ran, target_vars, g_init_ap_cpu_id, todo, waiting, woken>>
        /\ g_init_ap_finished' = (IF pos[c] = 9 THEN TRUE ELSE g_init_ap_finished)
    BY <1>3 DEF finish_ap
  <1> QED BY <1>1, <1>2, <1>3, <1>4, <1>5, <1>6, ApAdvances

LEMMA NextKeeps == ASSUME BootInv, [Next]_vars PROVE BootInv'
  <1> DEFINE Still == UNCHANGED <<info, visits, gs, setup, ran, target_vars, smp_vars>>
  <1>t. BootTypes /\ info.bsp \in CPU /\ asked = [c \in CPU |-> asked[c]]
        /\ (\A c \in CPU : IsAp(c) <=> c # info.bsp) /\ \A c \in CPU : IsAp(c) /\ pos[c] = 10 => asked[c] = <<>>
    BY Ground DEF BootInv, BootTypes, Quiet
  <1>1. CASE count_cpus
    <2>1. CASE Panic
      <3>1. UNCHANGED <<info, pos, visits, gs, setup, ran, target_vars, smp_vars>> /\ asked' = asked
        BY <2>1 DEF Panic, cpu_vars
      <3> QED BY <1>t, <3>1, MemoryKeeps
    <2>2. CASE ~Panic
      <3>1. Runs(info.bsp, "count") /\ Advance(info.bsp) /\ asked' = asked /\ Still
        BY <1>1, <2>2 DEF count_cpus
      <3> QED BY <1>t, <3>1, BspAdvances
    <2> QED BY <2>1, <2>2
  <1>2. CASE earlymem_init
    <2>1. Runs(info.bsp, "regions") /\ Advance(info.bsp) /\ asked' = asked /\ Still
      BY <1>2 DEF earlymem_init
    <2> QED BY <1>t, <2>1, BspAdvances
  <1>3. CASE map_early
    <2>1. Runs(info.bsp, "map") /\ Advance(info.bsp) /\ Still
      BY <1>3 DEF map_early
    <2>2. asked' = [c \in CPU |-> asked'[c]] /\ \A c \in CPU : IsAp(c) => asked'[c] = asked[c]
      BY <1>3, <1>t DEF map_early, Ask
    <2> QED BY <1>t, <2>1, <2>2, BspAdvances
  <1>4. CASE handover
    <2>1. Runs(info.bsp, "handover") /\ Advance(info.bsp) /\ asked' = asked /\ Still
      BY <1>4 DEF handover
    <2> QED BY <1>t, <2>1, BspAdvances
  <1>5. CASE smp_done
    <2>1. Runs(info.bsp, "smp") /\ Advance(info.bsp) /\ asked' = asked /\ Still /\ ~waiting
      BY <1>5 DEF smp_done
    <2> QED BY <1>t, <2>1, BspAdvances
  <1>6. ASSUME NEW c \in CPU, Take(c) PROVE BootInv'
    <2>1. UNCHANGED <<info, pos, visits, gs, setup, ran, target_vars, smp_vars>>
          /\ asked' = [asked EXCEPT ![c] = Tail(asked[c])] /\ asked[c] # <<>>
      BY <1>6 DEF Take
    <2>2. asked' = [e \in CPU |-> asked'[e]] /\ \A e \in CPU : IsAp(e) /\ pos[e] = 10 => asked'[e] = <<>>
      BY <1>t, <2>1
    <2> QED BY <2>1, <2>2, MemoryKeeps
  <1>7. CASE UNCHANGED vars
    <2>1. UNCHANGED <<info, pos, visits, gs, setup, ran, target_vars, smp_vars>> /\ asked' = asked
      BY <1>7 DEF vars, cpu_vars
    <2> QED BY <1>t, <2>1, MemoryKeeps
  <1>8. ASSUME NEW c \in CPU, CpuStep(c) PROVE BootInv'
    BY <1>6, <1>8, EnterStageKeeps, VisitKeeps, EnterApKeeps, FinishApKeeps DEF CpuStep
  <1> QED BY <1>1, <1>2, <1>3, <1>4, <1>5, <1>7, <1>8, LocalsKeeps, StartKeeps, AwaitKeeps DEF Next, BspStep

(* Whatever the targets, their order and the CPUs, the visits, the flags,  *)
(* the stages and the records of the CPUs fit together in every state.     *)
THEOREM BootInvariant == Spec => []BootInv
  BY InitHolds, NextKeeps, PTL DEF Spec

---------------------------------------------------------------------------
(* What the invariant gives.                                               *)

LEMMA DistinctCounted ==
  ASSUME NEW w \in Seq(Target), \A i, j \in 1..Len(w) : w[i] = w[j] => i = j
  PROVE  Cardinality(ToSet(w)) = Len(w)
  <1>1. Len(w) \in Nat /\ DOMAIN w = 1..Len(w) /\ w \in [1..Len(w) -> Target]
    OBVIOUS
  <1>2. w \in Bijection(1..Len(w), ToSet(w))
    <2>1. w \in [1..Len(w) -> ToSet(w)]
      BY <1>1 DEF ToSet
    <2>2. \A y \in ToSet(w) : \E i \in 1..Len(w) : w[i] = y
      BY <1>1 DEF ToSet
    <2> QED BY <2>1, <2>2, Fun_IsBij
  <1>3. ExistsBijection(1..Len(w), ToSet(w))
    BY <1>2 DEF ExistsBijection
  <1> QED BY <1>1, <1>3, FS_CountingElements

LEMMA InvGivesOrder == ASSUME BootInv PROVE TargetsInOrder
  <1>1. ScopesKept
    <2> SUFFICES ASSUME NEW c \in CPU
                 PROVE  /\ Cardinality(ToSet(ran[c])) = Len(ran[c])
                        /\ \A t \in ToSet(ran[c]) : DO_TARGET(t, IsAp(c))
      BY DEF ScopesKept
    <2>1. /\ ran[c] \in Seq(Target) /\ (\A i, j \in 1..Len(ran[c]) : ran[c][i] = ran[c][j] => i = j)
          /\ \A i \in 1..Len(ran[c]) : Covers(c, ran[c][i])
      BY DEF BootInv, BootTypes, RanDistinct
    <2>2. Cardinality(ToSet(ran[c])) = Len(ran[c])
      BY <2>1, DistinctCounted
    <2>3. \A t \in ToSet(ran[c]) : \E i \in 1..Len(ran[c]) : t = ran[c][i]
      BY <2>1 DEF ToSet
    <2> QED BY <2>1, <2>2, <2>3 DEF Covers
  <1>2. OneAtATime
    <2>t. BootTypes /\ Turns
      BY DEF BootInv
    <2>1. ASSUME NEW c \in CPU, ComingUp(c) PROVE Pending(c) /\ waiting
      <3>1. IsAp(c) /\ pos[c] > 1 /\ ~Up(c)
        BY <2>1 DEF ComingUp
      <3>2. c \in woken
        BY <2>t, <3>1 DEF Turns
      <3>3. pos[c] # 10
        <4>1. pos[c] = 10 => asked[c] = <<>> /\ Now(c).op = "handoff"
          BY <2>t, <3>1, ApNow DEF BootInv, Quiet
        <4> QED BY <3>1, <4>1 DEF Up
      <3>4. pos[c] <= 9
        BY <2>t, <3>1, <3>3, ApNow
      <3> QED BY <2>t, <3>2, <3>4 DEF Pending, Turns
    <2>2. ASSUME NEW c \in CPU, ComingUp(c)
          PROVE  Now(info.bsp).op = "smp" /\ waiting /\ \A d \in CPU \ {c} : ~ComingUp(d)
      <3>1. waiting /\ Pending(c)
        BY <2>1, <2>2
      <3>2. pos[info.bsp] = SMP
        BY <2>t, <3>1 DEF Turns
      <3>3. Now(info.bsp).op = "smp"
        BY <2>t, <3>2, BspNow
      <3>4. \A d \in CPU : ComingUp(d) => d = c
        BY <2>t, <2>1, <3>1, OneActive DEF Active
      <3> QED BY <3>1, <3>3, <3>4
    <2>3. ASSUME NEW c \in CPU, Runs(c, "stage") PROVE Now(c).stage >= g_init_stage_current
      <3>1. Now(c).op = "stage"
        BY <2>3 DEF Runs
      <3>2. Active(c)
        BY <2>t, <3>1, WhoStages
      <3>3. pos[c] \in pos[c]..Len(Program(c))
        <4>1. pos[c] \in Int /\ Len(Program(c)) \in Int /\ pos[c] <= Len(Program(c))
          <5>1. CASE IsAp(c)
            <6>1. pos[c] \in 1..10 /\ Program(c) = init_ap
              BY <2>t, <5>1, ApNow
            <6>2. Len(init_ap) = 10
              BY ApOps
            <6> QED BY <6>1, <6>2
          <5>2. CASE ~IsAp(c)
            <6>1. c = info.bsp
              BY <2>t, <5>2, Ground
            <6> QED BY <2>t, <6>1, BspNow, InitOps, Marks
          <5> QED BY <5>1, <5>2
        <4> QED BY <4>1
      <3> QED BY <3>1, <3>2, <3>3 DEF BootInv, StagesAhead, Now
    <2> QED BY <2>2, <2>3 DEF OneAtATime
  <1> QED BY <1>1, <1>2 DEF TargetsInOrder, BootInv

LEMMA InvGivesSetUp == ASSUME BootInv PROVE SetUpAtHandoff
  <1> SUFFICES ASSUME NEW c \in CPU, Up(c)
               PROVE  gs[c] = Seqid(c) /\ setup[gs[c]] = {t \in Target : DO_TARGET(t, IsAp(c))}
    BY DEF SetUpAtHandoff
  <1>t. BootTypes /\ Turns /\ info.bsp \in CPU /\ info.bsp \notin woken /\ \A e \in CPU : IsAp(e) <=> e # info.bsp
    BY Ground DEF BootInv
  <1>1. Now(c).op = "handoff"
    BY DEF Up
  <1>2. CASE IsAp(c)
    <2>1. pos[c] = 10 /\ Program(c) = init_ap
      BY <1>t, <1>1, <1>2, ApNow
    <2>2. c \in woken /\ gs[c] = Seqid(c)
      <3>1. pos[c] > 1
        BY <2>1
      <3> QED BY <1>2, <3>1 DEF BootInv, Turns, Recorded
    <2>3. pos[info.bsp] > LOCALS
      <3>1. pos[info.bsp] >= SMP /\ pos[info.bsp] \in Nat
        BY <1>t, <2>2, BspNow DEF Turns
      <3> QED BY <3>1, Marks
    <2>4. setup[gs[c]] = {t \in Target : Has(ran[c], t)}
      BY <1>t, <2>2, <2>3 DEF BootInv, Recorded, BootTypes
    <2>5. visits[c] = <<>>
      <3>1. ~Active(c)
        BY <1>t, <1>2, <2>1 DEF Active, Pending
      <3> QED BY <3>1 DEF BootInv, Quiet
    <2>6. \A t \in Target : Covers(c, t) => Has(ran[c], t)
      <3> TAKE t \in Target
      <3>1. PICK i \in 1..8 : init_ap[i].op = "stage" /\ init_ap[i].stage = Stage[t]
        BY ApOps, TargetAssumption
      <3>2. i \in 1..(pos[c] - 1)
        BY <2>1, <3>1
      <3>3. Entered(c, Stage[t])
        BY <2>1, <3>1, <3>2 DEF Entered
      <3> QED BY <2>5, <3>3, HasFew DEF BootInv, StagesRun
    <2>7. \A t \in Target : Has(ran[c], t) => Covers(c, t)
      BY DEF BootInv, RanDistinct, Has
    <2> QED BY <2>2, <2>4, <2>6, <2>7 DEF Covers
  <1>3. CASE ~IsAp(c)
    <2>0. c = info.bsp
      BY <1>t, <1>3
    <2>1. pos[c] = SMP + 1 /\ Program(c) = init
      BY <1>t, <1>1, <2>0, BspNow
    <2>2. gs[c] = Seqid(c)
      <3>1. ~(pos[info.bsp] <= LOCALS)
        BY <2>0, <2>1, Marks
      <3> QED BY <2>0, <3>1 DEF BootInv, Recorded
    <2>3. setup[gs[c]] = {t \in Target : Has(ran[c], t)}
      BY <2>0 DEF BootInv, Recorded
    <2>4. visits[c] = <<>>
      <3>1. pos[info.bsp] > SMP
        BY <2>0, <2>1, Marks
      <3> QED BY <2>0, <3>1 DEF BootInv, Quiet
    <2>5. \A t \in Target : Covers(c, t) => Has(ran[c], t)
      <3> TAKE t \in Target
      <3>1. PICK i \in 1..(SMP - 1) : init[i].op = "stage" /\ init[i].stage = Stage[t]
        BY InitOps, TargetAssumption
      <3>2. i \in 1..(pos[c] - 1)
        BY <2>1, <3>1, Marks
      <3>3. Entered(c, Stage[t])
        BY <2>1, <3>1, <3>2 DEF Entered
      <3> QED BY <2>4, <3>3, HasFew DEF BootInv, StagesRun
    <2>6. \A t \in Target : Has(ran[c], t) => Covers(c, t)
      BY DEF BootInv, RanDistinct, Has
    <2> QED BY <2>2, <2>3, <2>5, <2>6 DEF Covers
  <1> QED BY <1>2, <1>3

(* For any targets without a cycle, in any order, and any CPUs: each CPU   *)
(* runs the targets of its scope at most once and behind what they depend  *)
(* on, with no other CPU between its wake-up and its answer, and           *)
(* init_run_stage (sys/init.c) never finds the stage beyond its own.       *)
THEOREM TargetsAlwaysInOrder == Spec => []TargetsInOrder
  BY BootInvariant, InvGivesOrder, PTL

(* Every CPU that reaches the scheduler uses the cpu_t with its own id,    *)
(* and all targets of its scope have been run for that cpu_t, across the   *)
(* change of cpu_t in arch_init_cpu_locals and the resets of init_reset_ap *)
(* (arch/x86_64/init.c).                                                   *)
THEOREM AlwaysSetUpAtHandoff == Spec => []SetUpAtHandoff
  BY BootInvariant, InvGivesSetUp, PTL
===========================================================================
