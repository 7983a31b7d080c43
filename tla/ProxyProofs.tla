---------------------------- MODULE ProxyProofs ----------------------------
(***************************************************************************)
(* Proofs about Proxy, for any number of tasks, routes and connections.     *)
(* The invariant has three parts: each task is sound by itself, the served  *)
(* connections are listed, and the debt leaves room for every task that may *)
(* still charge.  The second half is about the providers' records: the      *)
(* tasks that record sessions and the sync leave the proxy to itself, and   *)
(* as long as no record is accessed in between, what was recorded is what   *)
(* is pending and what was reported.                                        *)
(***************************************************************************)
EXTENDS ProviderMetrics, FiniteSetTheorems, TLAPS

Early == {"idle", "handshake", "plan"}

\* The configured routes that match are all in the plan.
CoversStatic(k) ==
  \A r \in Static : MatchesTarget(r, k.target, k.mode) =>
    \E i \in DOMAIN k.plan : k.plan[i] = r

Sound(k) ==
  /\ k \in Task
  /\ k.pc \in Early => k.next = 1
  /\ k.pc \notin {"reply", "copy"} => k.via = Direct
  /\ k.pc = "direct" => IsDirect(k.target, k.mode)
  /\ k.pc = "reply" => (k.via = Direct <=> IsDirect(k.target, k.mode))
  /\ k.pc = "try" => k.next \in DOMAIN k.plan /\ ~ IsDirect(k.target, k.mode)
  /\ k.pc \in {"try", "refuse"} /\ ~ IsDirect(k.target, k.mode) => CoversStatic(k)
  /\ k.pc = "refuse" /\ ~ IsDirect(k.target, k.mode) => k.next = Len(k.plan) + 1

TasksOK ==
  /\ task = [t \in Tasks |-> task[t]]
  /\ \A t \in Tasks : Sound(task[t])

Listed ==
  /\ registry \in [Ids -> {"none", "active", "closed"}]
  /\ registered \in 0..MaxConns
  /\ \A t \in Tasks : Serving(t) =>
       task[t].id \in 1..registered /\ registry[task[t].id] = "active"
  /\ \A t, u \in Tasks : Serving(t) /\ Serving(u) /\ t # u => task[t].id # task[u].id

\* What may still be charged to the account.
Spends(k) ==
  \/ k.pc = "plan" /\ k.allowed
  \/ k.pc = "try" /\ \E i \in DOMAIN k.plan : k.plan[i] \in Premium
  \/ k.via \in Premium

Spenders == {t \in Tasks : Spends(task[t])}

Room(spenders) == Limit + Cardinality(Tasks \ spenders) * (2 * MaxBytes)

Affordable ==
  /\ debt \in Nat
  /\ Spenders # {} \/ debt > 0 => debt < Room(Spenders)

IInv == TasksOK /\ Listed /\ Affordable

-----------------------------------------------------------------------------
(* Arithmetic. *)

LEMMA TimesMonotone ==
  ASSUME NEW a \in Nat, NEW b \in Nat, NEW k \in Nat, a <= b
  PROVE  a * k <= b * k /\ a * k \in Nat
<1>1. PICK d \in Nat : b = a + d
  <2> WITNESS b - a \in Nat
  <2> QED  OBVIOUS
<1>2. (a + d) * k = a * k + d * k
  OBVIOUS
<1>3. a * k \in Nat /\ d * k \in Nat
  OBVIOUS
<1> QED
  BY <1>1, <1>2, <1>3

LEMMA TimesNext ==
  ASSUME NEW a \in Nat, NEW k \in Nat
  PROVE  (a + 1) * k = a * k + k
  OBVIOUS

LEMMA RoomShrinks ==
  ASSUME NEW S \in SUBSET Tasks, NEW T \in SUBSET S
  PROVE  Room(S) <= Room(T) /\ Room(S) \in Nat /\ Room(T) \in Nat
<1>1. IsFiniteSet(Tasks \ T) /\ IsFiniteSet(Tasks \ S)
  BY FS_Difference, ProxyAssumption
<1>2. Tasks \ S \in SUBSET (Tasks \ T)
  OBVIOUS
<1>3. Cardinality(Tasks \ S) <= Cardinality(Tasks \ T)
  BY <1>1, <1>2, FS_Subset
<1>4. Cardinality(Tasks \ S) \in Nat /\ Cardinality(Tasks \ T) \in Nat
  BY <1>1, FS_CardinalityType
<1>5. 2 * MaxBytes \in Nat /\ Limit \in Nat
  BY ProxyAssumption
<1>6. /\ Cardinality(Tasks \ S) * (2 * MaxBytes) <= Cardinality(Tasks \ T) * (2 * MaxBytes)
      /\ Cardinality(Tasks \ S) * (2 * MaxBytes) \in Nat
      /\ Cardinality(Tasks \ T) * (2 * MaxBytes) \in Nat
  BY <1>3, <1>4, <1>5, TimesMonotone
<1> QED
  BY <1>5, <1>6 DEF Room

LEMMA RoomWithout ==
  ASSUME NEW S \in SUBSET Tasks, NEW t \in S
  PROVE  Room(S \ {t}) = Room(S) + 2 * MaxBytes /\ Room(S) \in Nat
<1>1. IsFiniteSet(Tasks \ S)
  BY FS_Difference, ProxyAssumption
<1>2. Tasks \ (S \ {t}) = (Tasks \ S) \cup {t} /\ t \notin Tasks \ S
  OBVIOUS
<1>3. Cardinality(Tasks \ (S \ {t})) = Cardinality(Tasks \ S) + 1
  BY <1>1, <1>2, FS_AddElement
<1>4. Cardinality(Tasks \ S) \in Nat /\ 2 * MaxBytes \in Nat
  BY <1>1, FS_CardinalityType, ProxyAssumption
<1>5. (Cardinality(Tasks \ S) + 1) * (2 * MaxBytes)
        = Cardinality(Tasks \ S) * (2 * MaxBytes) + 2 * MaxBytes
  BY <1>4, TimesNext
<1>6. Room(S) \in Nat
  BY RoomShrinks
<1>7. Cardinality(Tasks \ S) * (2 * MaxBytes) \in Nat /\ Limit \in Nat
  BY <1>4, TimesMonotone, ProxyAssumption
<1> QED
  BY <1>3, <1>4, <1>5, <1>6, <1>7 DEF Room

LEMMA InvariantImplies ==
  IInv => TypeOK /\ ModeIsRespected /\ RefusedLast /\ ServedIsListed /\ OverdraftIsBounded
<1> SUFFICES ASSUME IInv
             PROVE  TypeOK /\ ModeIsRespected /\ RefusedLast /\ ServedIsListed /\ OverdraftIsBounded
  OBVIOUS
<1>1. TypeOK
  BY DEF IInv, TasksOK, Sound, Listed, Affordable, TypeOK
<1>2. ModeIsRespected
  <2> SUFFICES ASSUME NEW t \in Tasks, Contacting(t)
               PROVE  /\ task[t].via = Direct /\ task[t].target = "telegram" =>
                            task[t].mode \notin Routing
                      /\ task[t].via # Direct =>
                            task[t].target # "infra" /\ task[t].mode \in Routing
    BY DEF ModeIsRespected
  <2>1. Sound(task[t])
    BY DEF IInv, TasksOK
  <2>2. CASE task[t].pc = "direct"
    BY <2>1, <2>2 DEF Sound, IsDirect, Routing
  <2>3. CASE task[t].pc = "reply"
    BY <2>1, <2>3 DEF Sound, IsDirect, Routing
  <2> QED
    BY <2>2, <2>3 DEF Contacting
<1>3. RefusedLast
  <2> SUFFICES ASSUME NEW t \in Tasks, task[t].pc = "refuse",
                      ~ IsDirect(task[t].target, task[t].mode),
                      NEW r \in Static, MatchesTarget(r, task[t].target, task[t].mode)
               PROVE  \E i \in 1..(task[t].next - 1) : task[t].plan[i] = r
    BY DEF RefusedLast
  <2>1. Sound(task[t])
    BY DEF IInv, TasksOK
  <2>2. PICK i \in DOMAIN task[t].plan : task[t].plan[i] = r
    BY <2>1 DEF Sound, CoversStatic
  <2>3. task[t].plan \in Seq(Routes) /\ task[t].next = Len(task[t].plan) + 1
    BY <2>1 DEF Sound, Task
  <2>4. i \in 1..(task[t].next - 1)
    BY <2>3
  <2> QED
    BY <2>2, <2>4
<1>4. ServedIsListed
  BY DEF IInv, Listed, ServedIsListed
<1>5. OverdraftIsBounded
  <2> SUFFICES ASSUME debt > 0
               PROVE  debt < Limit + Cardinality(Tasks) * 2 * MaxBytes
    BY DEF OverdraftIsBounded
  <2>1. debt < Room(Spenders) /\ debt \in Nat
    BY DEF IInv, Affordable
  <2>2. Room(Spenders) <= Room({}) /\ Room(Spenders) \in Nat /\ Room({}) \in Nat
    BY RoomShrinks DEF Spenders
  <2>3. Room({}) = Limit + Cardinality(Tasks) * 2 * MaxBytes
    <3>1. Tasks \ {} = Tasks
      OBVIOUS
    <3>2. Cardinality(Tasks) \in Nat /\ MaxBytes \in Nat
      BY FS_CardinalityType, ProxyAssumption
    <3>3. Cardinality(Tasks) * (2 * MaxBytes) = Cardinality(Tasks) * 2 * MaxBytes
      BY <3>2
    <3> QED
      BY <3>1, <3>3 DEF Room
  <2> QED
    BY <2>1, <2>2, <2>3
<1> QED
  BY <1>1, <1>2, <1>3, <1>4, <1>5

-----------------------------------------------------------------------------
(* What Plan may choose. *)

Covers(p, found, target, mode) ==
  /\ p \in Seq(Routes)
  /\ \A i \in DOMAIN p : p[i] \in Static \cup found
  /\ ~ IsDirect(target, mode) =>
       \A r \in Static : MatchesTarget(r, target, mode) =>
         \E i \in DOMAIN p : p[i] = r

\* A plan has every configured route that matches, and otherwise found ones.
LEMMA PlanFacts ==
  \A found \in SUBSET Dynamic : \A premiumFirst, target, mode :
    \A p \in Plans(found, premiumFirst, target, mode) : Covers(p, found, target, mode)
<1> SUFFICES ASSUME NEW found \in SUBSET Dynamic, NEW premiumFirst, NEW target, NEW mode,
                    NEW p \in Plans(found, premiumFirst, target, mode)
             PROVE  Covers(p, found, target, mode)
  OBVIOUS
<1>1. CASE IsDirect(target, mode)
  <2>1. p = <<>>
    BY <1>1 DEF Plans
  <2> QED
    BY <1>1, <2>1 DEF Covers
<1>2. CASE ~ IsDirect(target, mode)
  <2> DEFINE S == {r \in Static \cup found : MatchesTarget(r, target, mode)}
  <2>1. IsFiniteSet(S)
    <3>1. IsFiniteSet(Static \cup Dynamic)
      BY FS_Union, ProxyAssumption
    <3>2. S \in SUBSET (Static \cup Dynamic)
      OBVIOUS
    <3> QED
      BY <3>1, <3>2, FS_Subset
  <2>2. Cardinality(S) \in Nat
    BY <2>1, FS_CardinalityType
  <2>3. p \in Orderings(S, premiumFirst)
    BY <1>2 DEF Plans
  <2> HIDE DEF S
  <2>4. p \in [1..Cardinality(S) -> S] /\ \A r \in S : \E i \in DOMAIN p : p[i] = r
    BY <2>3 DEF Orderings
  <2>5. S \subseteq Static \cup found /\ S \subseteq Routes
    BY DEF S, Routes
  <2>6. p \in Seq(Routes)
    BY <2>2, <2>4, <2>5
  <2>7. \A i \in DOMAIN p : p[i] \in Static \cup found
    BY <2>4, <2>5
  <2>8. \A r \in Static : MatchesTarget(r, target, mode) => r \in S
    BY DEF S
  <2> QED
    BY <2>4, <2>6, <2>7, <2>8 DEF Covers
<1> QED
  BY <1>1, <1>2

-----------------------------------------------------------------------------
(* Ways an action preserves a part of the invariant. *)

\* Only task t takes a step.
Moves(t) ==
  /\ task' = [u \in Tasks |-> task'[u]]
  /\ \A u \in Tasks \ {t} : task'[u] = task[u]

LEMMA TasksUpdate ==
  ASSUME TasksOK, NEW t \in Tasks, Moves(t), Sound(task'[t])
  PROVE  TasksOK'
  BY DEF TasksOK, Moves

\* A task that stops serving, or serves the same connection.
LEMMA ListedSame ==
  ASSUME Listed, NEW t \in Tasks, Moves(t), UNCHANGED <<registry, registered>>,
         Serving(t)' => Serving(t) /\ task'[t].id = task[t].id
  PROVE  Listed'
  BY DEF Listed, Moves, Serving

\* A task that closes its entry and stops serving.
LEMMA ListedClose ==
  ASSUME Listed, NEW t \in Tasks, Moves(t), UNCHANGED registered,
         Serving(t), ~ Serving(t)', registry' = Close(t)
  PROVE  Listed'
<1>1. registry' \in [Ids -> {"none", "active", "closed"}]
  BY DEF Listed, Close
<1>2. \A u \in Tasks : Serving(u)' => u # t /\ Serving(u) /\ task'[u] = task[u]
  BY DEF Serving, Moves
<1>3. \A u \in Tasks : u # t /\ Serving(u) => registry'[task[u].id] = registry[task[u].id]
  BY DEF Listed, Close
<1>4. \A u \in Tasks : Serving(u)' =>
        task'[u].id \in 1..registered' /\ registry'[task'[u].id] = "active"
  BY <1>2, <1>3 DEF Listed
<1>5. \A u, v \in Tasks : Serving(u)' /\ Serving(v)' /\ u # v => task'[u].id # task'[v].id
  BY <1>2 DEF Listed
<1> QED
  BY <1>1, <1>4, <1>5 DEF Listed

\* The cleaning leaves the active entries.
LEMMA ListedGc ==
  ASSUME Listed, NEW t \in Tasks, Moves(t), UNCHANGED registered,
         ~ Serving(t)', registry' = Gc(registry)
  PROVE  Listed'
<1>1. registry' \in [Ids -> {"none", "active", "closed"}]
  BY DEF Listed, Gc
<1>2. \A i \in Ids : registry[i] = "active" => registry'[i] = "active"
  BY DEF Gc, Closed
<1>3. \A u \in Tasks : Serving(u)' => Serving(u) /\ task'[u] = task[u]
  BY DEF Serving, Moves
<1>4. \A u \in Tasks : Serving(u)' =>
        task'[u].id \in 1..registered' /\ registry'[task'[u].id] = "active"
  <2>1. 1..registered \subseteq Ids
    BY ProxyAssumption DEF Listed, Ids
  <2> QED
    BY <1>2, <1>3, <2>1 DEF Listed
<1>5. \A u, v \in Tasks : Serving(u)' /\ Serving(v)' /\ u # v => task'[u].id # task'[v].id
  BY <1>3 DEF Listed
<1> QED
  BY <1>1, <1>4, <1>5 DEF Listed

\* A task that begins to serve a connection of its own.
LEMMA ListedNew ==
  ASSUME Listed, NEW t \in Tasks, Moves(t), registered < MaxConns,
         registered' = registered + 1,
         registry' = [registry EXCEPT ![registered + 1] = "active"],
         task'[t].id = registered + 1
  PROVE  Listed'
<1>1. registered + 1 \in Ids /\ registered' \in 0..MaxConns /\ registered \in Nat
  BY ProxyAssumption DEF Listed, Ids
<1>2. registry' \in [Ids -> {"none", "active", "closed"}]
  BY DEF Listed
<1>3. \A u \in Tasks : Serving(u)' /\ u # t =>
        /\ Serving(u) /\ task'[u] = task[u]
        /\ task[u].id \in 1..registered /\ task[u].id # registered + 1
  BY <1>1 DEF Serving, Moves, Listed
<1>4. \A u \in Tasks : Serving(u)' =>
        task'[u].id \in 1..registered' /\ registry'[task'[u].id] = "active"
  <2> SUFFICES ASSUME NEW u \in Tasks, Serving(u)'
               PROVE  task'[u].id \in 1..registered' /\ registry'[task'[u].id] = "active"
    OBVIOUS
  <2>1. CASE u = t
    BY <1>1, <2>1 DEF Listed
  <2>2. CASE u # t
    BY <1>1, <1>3, <2>2 DEF Listed
  <2> QED
    BY <2>1, <2>2
<1>5. \A u, v \in Tasks : Serving(u)' /\ Serving(v)' /\ u # v => task'[u].id # task'[v].id
  BY <1>3 DEF Listed
<1> QED
  BY <1>1, <1>2, <1>4, <1>5 DEF Listed

LEMMA AffordableSame ==
  ASSUME Affordable, NEW t \in Tasks, Moves(t), UNCHANGED debt,
         Spends(task'[t]) => Spends(task[t])
  PROVE  Affordable'
<1>1. Spenders' \in SUBSET Spenders /\ Spenders \in SUBSET Tasks
  BY DEF Spenders, Moves
<1>2. Room(Spenders) <= Room(Spenders') /\ Room(Spenders) \in Nat /\ Room(Spenders') \in Nat
  BY <1>1, RoomShrinks
<1>3. debt' \in Nat /\ debt' = debt
  BY DEF Affordable
<1>4. ASSUME Spenders' # {} \/ debt' > 0 PROVE debt' < Room(Spenders')
  <2>1. debt < Room(Spenders)
    BY <1>1, <1>3, <1>4 DEF Affordable
  <2> QED
    BY <1>2, <1>3, <2>1
<1>5. Room(Spenders)' = Room(Spenders')
  BY DEF Room
<1> QED
  BY <1>3, <1>4, <1>5 DEF Affordable

\* A task sees credit: the debt is below the limit.
LEMMA AffordableAdmitted ==
  ASSUME Affordable, NEW t \in Tasks, Moves(t), UNCHANGED debt, debt < Limit
  PROVE  Affordable'
<1>1. Spenders' \in SUBSET Tasks
  BY DEF Spenders
<1>2. IsFiniteSet(Tasks \ Spenders')
  BY FS_Difference, ProxyAssumption
<1>3. Cardinality(Tasks \ Spenders') \in Nat /\ 2 * MaxBytes \in Nat /\ Limit \in Nat
  BY <1>2, FS_CardinalityType, ProxyAssumption
<1>4. Cardinality(Tasks \ Spenders') * (2 * MaxBytes) \in Nat
  BY <1>3, TimesMonotone
<1>5. debt' < Room(Spenders') /\ debt' \in Nat
  BY <1>3, <1>4 DEF Room, Affordable
<1>6. Room(Spenders)' = Room(Spenders')
  BY DEF Room
<1> QED
  BY <1>5, <1>6 DEF Affordable

\* A task charges its session and is done with it.
LEMMA AffordableCharged ==
  ASSUME Affordable, NEW t \in Tasks, Moves(t), Spends(task[t]), ~ Spends(task'[t]),
         NEW n \in 0..(2 * MaxBytes), debt' = debt + n
  PROVE  Affordable'
<1>1. Spenders' = Spenders \ {t} /\ t \in Spenders /\ Spenders \in SUBSET Tasks
  BY DEF Spenders, Moves
<1>2. Room(Spenders') = Room(Spenders) + 2 * MaxBytes /\ Room(Spenders) \in Nat
  BY <1>1, RoomWithout
<1>3. debt < Room(Spenders) /\ debt \in Nat
  BY <1>1 DEF Affordable
<1>4. debt' < Room(Spenders') /\ debt' \in Nat
  BY <1>2, <1>3, ProxyAssumption
<1>5. Room(Spenders)' = Room(Spenders')
  BY DEF Room
<1> QED
  BY <1>4, <1>5 DEF Affordable

-----------------------------------------------------------------------------
(* One lemma per action. *)

LEMMA NoTaskSound == Sound(NoTask) /\ ~ Spends(NoTask)
<1>1. NoTask \in Task
  BY ProxyAssumption DEF NoTask, Task, Modes, Targets
<1>2. Direct \notin Premium
  BY ProxyAssumption DEF Routes
<1> QED
  BY <1>1, <1>2 DEF NoTask, Sound, Early, Spends

\* A task that has nothing more to do.
LEMMA ReturnPreserves ==
  ASSUME IInv, NEW t \in Tasks, Return(t), UNCHANGED debt,
         \/ UNCHANGED <<registry, registered>>
         \/ Serving(t) /\ registry' = Close(t) /\ UNCHANGED registered
  PROVE  IInv'
<1>1. Moves(t) /\ task'[t] = NoTask
  BY DEF Return, IInv, TasksOK, Moves
<1>2. ~ Serving(t)'
  BY <1>1 DEF Serving, NoTask
<1>3. TasksOK'
  BY <1>1, NoTaskSound, TasksUpdate DEF IInv
<1>4. Listed'
  BY <1>1, <1>2, ListedSame, ListedClose DEF IInv
<1>5. Affordable'
  BY <1>1, NoTaskSound, AffordableSame DEF IInv
<1> QED
  BY <1>3, <1>4, <1>5 DEF IInv

LEMMA AcceptPreserves ==
  ASSUME IInv, NEW t \in Tasks, Accept(t)
  PROVE  IInv'
<1>1. PICK mode \in Modes : task' = [task EXCEPT ![t].pc = "handshake", ![t].mode = mode]
  BY DEF Accept
<1>2. Sound(task[t]) /\ task[t].pc = "idle" /\ task[t] \in Task
  BY DEF IInv, TasksOK, Accept, Sound
<1>3. Moves(t) /\ task'[t] = [task[t] EXCEPT !.pc = "handshake", !.mode = mode]
  BY <1>1 DEF IInv, TasksOK, Moves
<1>4. Sound(task'[t])
  BY <1>2, <1>3 DEF Sound, Task, Early
<1>5. ~ Serving(t)' /\ (Spends(task'[t]) => Spends(task[t]))
  BY <1>2, <1>3 DEF Serving, Spends, Task
<1>6. TasksOK'
  BY <1>3, <1>4, TasksUpdate DEF IInv
<1>7. Listed'
  BY <1>3, <1>5, ListedGc DEF IInv, Accept
<1>8. Affordable'
  BY <1>3, <1>5, AffordableSame DEF IInv, Accept
<1> QED
  BY <1>6, <1>7, <1>8 DEF IInv

LEMMA RequestPreserves ==
  ASSUME IInv, NEW t \in Tasks, Request(t)
  PROVE  IInv'
<1>1. PICK target \in Targets, allowed \in BOOLEAN :
        /\ allowed => debt < Limit
        /\ task' = [task EXCEPT ![t].pc = "plan", ![t].target = target, ![t].allowed = allowed]
  BY DEF Request
<1>2. Sound(task[t]) /\ task[t].pc = "handshake" /\ task[t] \in Task
  BY DEF IInv, TasksOK, Request, Sound
<1>3. Moves(t) /\ task'[t] = [task[t] EXCEPT !.pc = "plan", !.target = target,
                                             !.allowed = allowed]
  BY <1>1 DEF IInv, TasksOK, Moves
<1>5. Sound(task'[t])
  BY <1>2, <1>3 DEF Sound, Task, Early
<1>6. ~ Serving(t)'
  BY <1>2, <1>3 DEF Serving, Task
<1>7. TasksOK'
  BY <1>3, <1>5, TasksUpdate DEF IInv
<1>8. Listed'
  BY <1>3, <1>6, ListedSame DEF IInv, Request
<1>9. Affordable'
  <2>1. CASE debt < Limit
    BY <1>3, <2>1, AffordableAdmitted DEF IInv, Request
  <2>2. CASE ~ (debt < Limit)
    <3>1. ~ allowed
      BY <1>1, <2>2
    <3>2. Spends(task'[t]) => Spends(task[t])
      BY <1>2, <1>3, <3>1 DEF Spends, Task
    <3> QED
      BY <1>3, <3>2, AffordableSame DEF IInv, Request
  <2> QED
    BY <2>1, <2>2
<1> QED
  BY <1>7, <1>8, <1>9 DEF IInv

LEMMA PlanPreserves ==
  ASSUME IInv, NEW t \in Tasks, Plan(t)
  PROVE  IInv'
<1> DEFINE k == task[t]
<1>1. PICK routes \in SUBSET Dynamic, premiumFirst \in PremiumBetter(k.allowed) :
        \E plan \in Plans(Discovered(routes, k.target, k.mode, k.allowed), premiumFirst,
                          k.target, k.mode) : Registered(t, plan)
  BY DEF Plan
<1> DEFINE found == Discovered(routes, k.target, k.mode, k.allowed)
<1>2. PICK plan \in Plans(found, premiumFirst, k.target, k.mode) : Registered(t, plan)
  BY <1>1
<1>3. found \in SUBSET Dynamic /\ (~ k.allowed => found \cap Premium = {})
  BY DEF Discovered
<1>4. Sound(k) /\ k.pc = "plan" /\ k \in Task
  BY DEF IInv, TasksOK, Plan, Sound
<1> DEFINE pc == IF IsDirect(k.target, k.mode) THEN "direct"
                 ELSE IF plan = <<>> THEN "refuse" ELSE "try"
<1>5. Moves(t) /\ task'[t] = [k EXCEPT !.id = registered + 1, !.plan = plan,
                                       !.allowed = FALSE, !.pc = pc]
  BY <1>2 DEF Registered, IInv, TasksOK, Moves
<1>6. /\ plan \in Seq(Routes)
      /\ \A i \in DOMAIN plan : plan[i] \in Static \cup found
      /\ ~ IsDirect(k.target, k.mode) =>
           \A r \in Static : MatchesTarget(r, k.target, k.mode) =>
             \E i \in DOMAIN plan : plan[i] = r
  <2>1. found \in SUBSET Dynamic
    BY <1>3
  <2>2. plan \in Plans(found, premiumFirst, k.target, k.mode)
    BY <1>2
  <2> HIDE DEF found, k, pc
  <2>3. Covers(plan, found, k.target, k.mode)
    BY <2>1, <2>2, PlanFacts, Zenon
  <2> QED
    BY <2>3 DEF Covers
<1>7. registered + 1 \in 0..MaxConns
  BY ProxyAssumption DEF IInv, Listed, Plan
<1> HIDE DEF found
<1>8. /\ task'[t].id = registered + 1 /\ task'[t].plan = plan /\ ~ task'[t].allowed
      /\ task'[t].pc = pc /\ task'[t].target = k.target /\ task'[t].mode = k.mode
      /\ task'[t].next = 1 /\ task'[t].via = Direct /\ task'[t] \in Task
  <2>1. pc \in {"direct", "refuse", "try"}
    OBVIOUS
  <2>2. k.next = 1 /\ k.via = Direct
    BY <1>4 DEF Sound, Early
  <2> HIDE DEF pc, k
  <2> QED
    BY <1>4, <1>5, <1>6, <1>7, <2>1, <2>2 DEF Task
<1>9. Sound(task'[t])
  <2>1. pc = "try" => 1 \in DOMAIN plan
    BY <1>6
  <2>2. pc = "refuse" => Len(plan) + 1 = 1
    OBVIOUS
  <2>3. pc \in {"try", "refuse"} <=> ~ IsDirect(k.target, k.mode)
    OBVIOUS
  <2>4. pc = "direct" <=> IsDirect(k.target, k.mode)
    OBVIOUS
  <2>5. pc \in {"direct", "refuse", "try"}
    OBVIOUS
  <2> HIDE DEF pc, k
  <2> QED
    BY <1>6, <1>8, <2>1, <2>2, <2>3, <2>4, <2>5 DEF Sound, Early, CoversStatic
<1>10. Spends(task'[t]) => Spends(task[t])
  <2>1. ASSUME Spends(task'[t]) PROVE k.allowed
    <3>1. Direct \notin Premium /\ Static \cap Premium = {}
      BY ProxyAssumption DEF Routes
    <3>2. pc # "plan"
      OBVIOUS
    <3> HIDE DEF pc, k
    <3>3. PICK i \in DOMAIN plan : plan[i] \in Premium
      BY <1>8, <2>1, <3>1, <3>2 DEF Spends
    <3> QED
      BY <1>3, <1>6, <3>1, <3>3
  <2> QED
    BY <1>4, <2>1 DEF Spends
<1>11. TasksOK'
  BY <1>5, <1>9, TasksUpdate DEF IInv
<1>12. Listed'
  BY <1>2, <1>5, <1>8, ListedNew DEF IInv, Plan, Registered, Opened
<1>13. Affordable'
  BY <1>5, <1>10, AffordableSame DEF IInv, Plan
<1> QED
  BY <1>11, <1>12, <1>13 DEF IInv

LEMMA ConnectDirectPreserves ==
  ASSUME IInv, NEW t \in Tasks, ConnectDirect(t)
  PROVE  IInv'
<1>1. PICK pc \in {"reply", "refuse"} : task' = [task EXCEPT ![t].pc = pc]
  BY DEF ConnectDirect
<1>2. Sound(task[t]) /\ task[t].pc = "direct" /\ task[t] \in Task
  BY DEF IInv, TasksOK, ConnectDirect, Sound
<1>3. Moves(t) /\ task'[t] = [task[t] EXCEPT !.pc = pc]
  BY <1>1 DEF IInv, TasksOK, Moves
<1>4. Sound(task'[t])
  BY <1>2, <1>3 DEF Sound, Task, Early
<1>5. Serving(t) /\ task'[t].id = task[t].id /\ ~ Spends(task'[t])
  <2>1. Direct \notin Premium
    BY ProxyAssumption DEF Routes
  <2> QED
    BY <1>2, <1>3, <1>4, <2>1 DEF Serving, Spends, Task, Sound
<1>6. TasksOK'
  BY <1>3, <1>4, TasksUpdate DEF IInv
<1>7. Listed'
  BY <1>3, <1>5, ListedSame DEF IInv, ConnectDirect
<1>8. Affordable'
  BY <1>3, <1>5, AffordableSame DEF IInv, ConnectDirect
<1> QED
  BY <1>6, <1>7, <1>8 DEF IInv

LEMMA TryRoutePreserves ==
  ASSUME IInv, NEW t \in Tasks, TryRoute(t)
  PROVE  IInv'
<1>1. Sound(task[t]) /\ task[t].pc = "try" /\ task[t] \in Task
  BY DEF IInv, TasksOK, TryRoute, Sound
<1>2. Moves(t) /\ task'[t] = [task[t] EXCEPT !.pc = "reply", !.plan = <<>>, !.next = 1,
                                             !.via = task[t].plan[task[t].next]]
  BY DEF TryRoute, IInv, TasksOK, Moves
<1>3. task[t].next \in DOMAIN task[t].plan /\ task[t].plan[task[t].next] \in Routes
  BY <1>1 DEF Sound, Task
<1>4. task'[t].via # Direct
  BY <1>1, <1>2, <1>3, ProxyAssumption DEF Task
<1>5. task'[t] \in Task
  <2>1. <<>> \in Seq(Routes) /\ 1 \in Nat /\ task[t].plan[task[t].next] \in Routes \cup {Direct}
    BY <1>3
  <2> DEFINE r == task[t].plan[task[t].next]
  <2>2. task'[t] = [task[t] EXCEPT !.pc = "reply", !.plan = <<>>, !.next = 1, !.via = r]
    BY <1>2
  <2>3. r \in Routes \cup {Direct}
    BY <2>1
  <2> HIDE DEF r
  <2> QED
    BY <1>1, <2>1, <2>2, <2>3 DEF Task
<1>6. Sound(task'[t])
  BY <1>1, <1>2, <1>4, <1>5 DEF Sound, Task, Early
<1>7. Serving(t) /\ task'[t].id = task[t].id
  BY <1>1, <1>2 DEF Serving, Task
<1>8. Spends(task'[t]) => Spends(task[t])
  BY <1>1, <1>2, <1>3 DEF Spends, Task
<1>9. TasksOK'
  BY <1>2, <1>6, TasksUpdate DEF IInv
<1>10. Listed'
  BY <1>2, <1>7, ListedSame DEF IInv, TryRoute
<1>11. Affordable'
  BY <1>2, <1>8, AffordableSame DEF IInv, TryRoute
<1> QED
  BY <1>9, <1>10, <1>11 DEF IInv

LEMMA RouteFailsPreserves ==
  ASSUME IInv, NEW t \in Tasks, RouteFails(t)
  PROVE  IInv'
<1> DEFINE pc == IF task[t].next = Len(task[t].plan) THEN "refuse" ELSE "try"
<1>1. Sound(task[t]) /\ task[t].pc = "try" /\ task[t] \in Task
  BY DEF IInv, TasksOK, RouteFails, Sound
<1>2. Moves(t) /\ task'[t] = [task[t] EXCEPT !.pc = pc, !.next = task[t].next + 1]
  BY DEF RouteFails, IInv, TasksOK, Moves
<1>3. /\ pc \in {"refuse", "try"}
      /\ pc = "refuse" => task[t].next = Len(task[t].plan)
      /\ pc = "try" => task[t].next + 1 \in DOMAIN task[t].plan
  BY <1>1 DEF Sound, Task
<1> HIDE DEF pc
<1>4. task'[t] \in Task
  <2>1. task[t].next + 1 \in Nat
    BY <1>1 DEF Task
  <2> QED
    BY <1>1, <1>2, <1>3, <2>1 DEF Task
<1>5. /\ task'[t].plan = task[t].plan /\ task'[t].via = task[t].via /\ task'[t].pc = pc
      /\ task'[t].target = task[t].target /\ task'[t].mode = task[t].mode
      /\ task'[t].next = task[t].next + 1 /\ task'[t].id = task[t].id
  BY <1>1, <1>2 DEF Task
<1>6. Sound(task'[t])
  BY <1>1, <1>3, <1>4, <1>5 DEF Sound, Early, CoversStatic
<1>7. Serving(t)
  BY <1>1 DEF Serving
<1>8. Spends(task'[t]) => Spends(task[t])
  BY <1>1, <1>3, <1>5 DEF Spends
<1>9. TasksOK'
  BY <1>2, <1>6, TasksUpdate DEF IInv
<1>10. Listed'
  BY <1>2, <1>5, <1>7, ListedSame DEF IInv, RouteFails
<1>11. Affordable'
  BY <1>2, <1>8, AffordableSame DEF IInv, RouteFails
<1> QED
  BY <1>9, <1>10, <1>11 DEF IInv

LEMMA ReplyPreserves ==
  ASSUME IInv, NEW t \in Tasks, Reply(t)
  PROVE  IInv'
<1>1. Sound(task[t]) /\ task[t].pc = "reply" /\ task[t] \in Task
  BY DEF IInv, TasksOK, Reply, Sound
<1>2. Moves(t) /\ task'[t] = [NoTask EXCEPT !.pc = "copy", !.id = task[t].id,
                                            !.via = task[t].via]
  BY DEF Reply, IInv, TasksOK, Moves
<1>3. Sound(task'[t])
  BY <1>1, <1>2, NoTaskSound DEF Sound, Task, Early, NoTask
<1>4. Serving(t) /\ task'[t].id = task[t].id /\ (Spends(task'[t]) => Spends(task[t]))
  BY <1>1, <1>2 DEF Serving, Spends, NoTask, Task
<1>5. TasksOK'
  BY <1>2, <1>3, TasksUpdate DEF IInv
<1>6. Listed'
  BY <1>2, <1>4, ListedSame DEF IInv, Reply
<1>7. Affordable'
  BY <1>2, <1>4, AffordableSame DEF IInv, Reply
<1> QED
  BY <1>5, <1>6, <1>7 DEF IInv

LEMMA CopyAndChargePreserves ==
  ASSUME IInv, NEW t \in Tasks, CopyAndCharge(t)
  PROVE  IInv'
<1>1. Sound(task[t]) /\ task[t].pc = "copy" /\ task[t] \in Task
  BY DEF IInv, TasksOK, CopyAndCharge, Sound
<1>2. Moves(t) /\ task'[t] = [task[t] EXCEPT !.pc = "close", !.via = Direct]
  BY DEF CopyAndCharge, IInv, TasksOK, Moves
<1>3. Sound(task'[t])
  BY <1>1, <1>2 DEF Sound, Task, Early
<1>4. Serving(t) /\ task'[t].id = task[t].id /\ ~ Spends(task'[t])
  <2>1. Direct \notin Premium
    BY ProxyAssumption DEF Routes
  <2> QED
    BY <1>1, <1>2, <2>1 DEF Serving, Spends, Task
<1>5. TasksOK'
  BY <1>2, <1>3, TasksUpdate DEF IInv
<1>6. Listed'
  BY <1>2, <1>4, ListedSame DEF IInv, CopyAndCharge
<1>7. Affordable'
  <2>1. CASE UNCHANGED debt
    BY <1>2, <1>4, <2>1, AffordableSame DEF IInv
  <2>2. CASE task[t].via \in Premium /\ \E up, down \in 0..MaxBytes : debt' = debt + up + down
    <3>1. PICK up \in 0..MaxBytes, down \in 0..MaxBytes : debt' = debt + up + down
      BY <2>2
    <3>2. up + down \in 0..(2 * MaxBytes) /\ debt' = debt + (up + down)
      BY <3>1, ProxyAssumption DEF IInv, Affordable
    <3>3. Spends(task[t])
      BY <2>2 DEF Spends
    <3> QED
      BY <1>2, <1>4, <3>2, <3>3, AffordableCharged DEF IInv
  <2> QED
    BY <2>1, <2>2 DEF CopyAndCharge, Copied
<1> QED
  BY <1>5, <1>6, <1>7 DEF IInv

-----------------------------------------------------------------------------
LEMMA InitEstablishes == Init => IInv
<1> SUFFICES ASSUME Init PROVE IInv
  OBVIOUS
<1>1. \A t \in Tasks : task[t] = NoTask
  BY DEF Init
<1>2. TasksOK
  BY <1>1, NoTaskSound DEF Init, TasksOK
<1>3. Listed
  BY <1>1, ProxyAssumption DEF Init, Listed, Serving, NoTask
<1>4. Affordable
  BY <1>1, NoTaskSound DEF Init, Affordable, Spenders
<1> QED
  BY <1>2, <1>3, <1>4 DEF IInv

LEMMA StepPreserves == IInv /\ [Next]_vars => IInv'
<1> SUFFICES ASSUME IInv, [Next]_vars PROVE IInv'
  OBVIOUS
<1>1. ASSUME NEW t \in Tasks, Accept(t) PROVE IInv'
  BY <1>1, AcceptPreserves
<1>2. ASSUME NEW t \in Tasks, TaskStep(t) PROVE IInv'
  <2>1. CASE HandshakeFails(t) \/ ClientGone(t)
    BY <2>1, ReturnPreserves DEF HandshakeFails, ClientGone
  <2>2. CASE Refuse(t) \/ Finish(t)
    BY <2>2, ReturnPreserves DEF Refuse, Finish, Serving
  <2>3. CASE Request(t)
    BY <2>3, RequestPreserves
  <2>4. CASE Plan(t)
    BY <2>4, PlanPreserves
  <2>5. CASE ConnectDirect(t)
    BY <2>5, ConnectDirectPreserves
  <2>6. CASE TryRoute(t)
    BY <2>6, TryRoutePreserves
  <2>7. CASE RouteFails(t)
    BY <2>7, RouteFailsPreserves
  <2>8. CASE Reply(t)
    BY <2>8, ReplyPreserves
  <2>9. CASE CopyAndCharge(t)
    BY <2>9, CopyAndChargePreserves
  <2> QED
    BY <1>2, <2>1, <2>2, <2>3, <2>4, <2>5, <2>6, <2>7, <2>8, <2>9 DEF TaskStep
<1>3. CASE UNCHANGED vars
  BY <1>3 DEF vars, IInv, TasksOK, Listed, Affordable, Spenders, Serving, Room
<1> QED
  BY <1>1, <1>2, <1>3 DEF Next

\* The parts of the invariant hold together in every state.
LEMMA Inductive == Spec => []IInv
  BY InitEstablishes, StepPreserves, PTL DEF Spec

-----------------------------------------------------------------------------
\* Every variable keeps its type, and a task that tries routes never reads past the
\* end of its list, however many routes fail.
THEOREM TypeCorrect == Spec => []TypeOK
  BY Inductive, InvariantImplies, PTL

\* Telegram is contacted directly only by connections accepted while the proxy was
\* off, and the relay never through a route, whatever handle_connection is told meanwhile.
THEOREM ModeCorrect == Spec => []ModeIsRespected
  BY Inductive, InvariantImplies, PTL

\* handle_connection refuses a connection only after every configured route for its
\* target has failed, for any number of routes and any order among them.
THEOREM RefusalCorrect == Spec => []RefusedLast
  BY Inductive, InvariantImplies, PTL

\* The registry lists each served connection as active and under a number of its own,
\* however many tasks register, close and clean entries.
THEOREM RegistryCorrect == Spec => []ServedIsListed
  BY Inductive, InvariantImplies, PTL

\* The debt exceeds the limit by less than one session for each task that may run, for
\* any number of tasks and any size of session.
THEOREM OverdraftCorrect == Spec => []OverdraftIsBounded
  BY Inductive, InvariantImplies, PTL

-----------------------------------------------------------------------------
(* The providers' records.  Apart from the sessions in doubt, what is        *)
(* pending is what is due, a task saves what is pending and its own session, *)
(* a sync lists all that is pending, and no two syncs list the same session. *)

Reporting(a) == \E y \in Syncs : sync[y].at = a

AgentOK(a) ==
  LET D == disturbed[a] IN
  /\ ~ Reporting(a) => pending[a] \ D = due[a] \ D
  /\ Reporting(a) => due[a] \subseteq D
  /\ \A y \in Syncs :
       /\ sync[y].listed[a] \ D \subseteq due[a]
       /\ sync[y].listed[a] # {} => pending[a] \ D \subseteq sync[y].listed[a]
  /\ \A y, z \in Syncs : y # z => sync[y].listed[a] \cap sync[z].listed[a] \subseteq D
  /\ \A t \in Tasks : rating[t].agent = a =>
       /\ rating[t].record \ D = (pending[a] \cup {rating[t].session}) \ D
       /\ Syncing(a) => rating[t].session \in D /\ pending[a] \subseteq D
  /\ \A t, u \in Tasks : t # u /\ rating[t].agent = a /\ rating[u].agent = a =>
       rating[t].session \in D

RecordsTyped ==
  /\ pending \in [Agents -> SUBSET Ids]
  /\ rating \in [Tasks -> Rating]
  /\ \A t \in Tasks :
         rating[t] = NoRating \/ (rating[t].agent \in Agents /\ rating[t].session \in Ids)
  /\ sync \in [Syncs -> Sync]
  /\ due \in [Agents -> SUBSET Ids]
  /\ disturbed \in [Agents -> SUBSET Ids]

RecordsInv == RecordsTyped /\ \A a \in Agents : AgentOK(a)

LEMMA AgentFacts == NoAgent \notin Agents /\ Direct \notin Agents
  BY MetricsAssumption, ProxyAssumption DEF Routes

LEMMA NothingTyped ==
  /\ NoRating \in Rating /\ NoRating.agent = NoAgent
  /\ NoSync \in Sync /\ NoSync.at = NoAgent /\ \A a \in Agents : NoSync.listed[a] = {}
  BY ProxyAssumption DEF NoRating, Rating, NoSync, Sync

LEMMA RecordsInit == MetricsInit => RecordsInv
<1> SUFFICES ASSUME MetricsInit PROVE RecordsInv
  OBVIOUS
<1>1. RecordsTyped
  BY NothingTyped DEF MetricsInit, RecordsTyped
<1>2. ASSUME NEW a \in Agents PROVE AgentOK(a)
  <2>1. /\ \A t \in Tasks : rating[t].agent # a
        /\ \A y \in Syncs : sync[y].at # a /\ sync[y].listed[a] = {}
    BY NothingTyped, AgentFacts DEF MetricsInit
  <2> QED BY <2>1 DEF MetricsInit, AgentOK, Reporting
<1> QED BY <1>1, <1>2 DEF RecordsInv

\* What a step may do without disturbing an agent: put sessions in doubt, give up lists
\* and finish with the record of a task.
LEMMA Untouched ==
  ASSUME NEW a \in Agents, AgentOK(a),
         pending'[a] = pending[a], due'[a] = due[a], disturbed[a] \subseteq disturbed'[a],
         \A t \in Tasks : rating'[t].agent = a => rating'[t] = rating[t],
         \A y \in Syncs : /\ sync'[y].listed[a] = {} \/ sync'[y].listed[a] = sync[y].listed[a]
                          /\ sync'[y].at = a <=> sync[y].at = a
  PROVE  AgentOK(a)'
<1>1. Reporting(a)' <=> Reporting(a)
  BY DEF Reporting
<1>2. Syncing(a)' => Syncing(a)
  BY DEF Syncing
<1>3. /\ ~ Reporting(a)' => pending'[a] \ disturbed'[a] = due'[a] \ disturbed'[a]
      /\ Reporting(a)' => due'[a] \subseteq disturbed'[a]
  BY <1>1 DEF AgentOK
<1>4. \A y \in Syncs :
       /\ sync'[y].listed[a] \ disturbed'[a] \subseteq due'[a]
       /\ sync'[y].listed[a] # {} => pending'[a] \ disturbed'[a] \subseteq sync'[y].listed[a]
  BY DEF AgentOK
<1>5. \A y, z \in Syncs : y # z =>
        sync'[y].listed[a] \cap sync'[z].listed[a] \subseteq disturbed'[a]
  BY DEF AgentOK
<1>6. \A t \in Tasks : rating'[t].agent = a =>
       /\ rating'[t].record \ disturbed'[a] =
            (pending'[a] \cup {rating'[t].session}) \ disturbed'[a]
       /\ Syncing(a)' => rating'[t].session \in disturbed'[a] /\ pending'[a] \subseteq disturbed'[a]
  BY <1>2 DEF AgentOK
<1>7. \A t, u \in Tasks : t # u /\ rating'[t].agent = a /\ rating'[u].agent = a =>
       rating'[t].session \in disturbed'[a]
  BY DEF AgentOK
<1> QED BY <1>3, <1>4, <1>5, <1>6, <1>7 DEF AgentOK

\* A task loads the record of the agent of the route it has used.
LEMMA LoadKeeps ==
  ASSUME RecordsInv, NEW t \in Tasks, rating[t] = NoRating, task[t].id \in Ids,
         NEW a, LoadRecord(t, a)
  PROVE  RecordsInv'
<1>1. CASE a \notin Agents
  BY <1>1 DEF LoadRecord, metricsVars, RecordsInv, RecordsTyped, AgentOK, Reporting, Syncing
<1>2. CASE a \in Agents
  <2> DEFINE s == task[t].id
             r == [agent |-> a, record |-> pending[a] \cup {s}, session |-> s]
             more == InDoubt(a, s)
  <2>1. /\ rating' = [rating EXCEPT ![t] = r]
        /\ disturbed' = [disturbed EXCEPT ![a] = @ \cup more]
        /\ UNCHANGED <<pending, sync, due>>
    BY <1>2 DEF LoadRecord
  <2>2. r \in Rating /\ r.agent = a /\ r.session = s /\ r.record = pending[a] \cup {s}
    BY <1>2, ProxyAssumption DEF RecordsInv, RecordsTyped, Ids, Rating
  <2>3. more \subseteq Ids
    <3>1. Added(a) \subseteq Ids
      BY <1>2, NothingTyped, AgentFacts DEF Added, RecordsInv, RecordsTyped
    <3> QED BY <1>2, <3>1 DEF InDoubt, RecordsInv, RecordsTyped
  <2>4. /\ Syncing(a) => pending[a] \cup Added(a) \cup {s} \subseteq more
        /\ Added(a) # {} => Added(a) \cup {s} \subseteq more
    BY DEF InDoubt
  <2> HIDE DEF r, more
  <2>5. /\ rating'[t] = r /\ \A u \in Tasks : u # t => rating'[u] = rating[u]
        /\ disturbed'[a] = disturbed[a] \cup more
        /\ \A b \in Agents : b # a => disturbed'[b] = disturbed[b]
    BY <1>2, <2>1 DEF RecordsInv, RecordsTyped
  <2>6. RecordsTyped'
    <3>1. disturbed[a] \cup more \in SUBSET Ids
      BY <1>2, <2>3 DEF RecordsInv, RecordsTyped
    <3>2. disturbed' \in [Agents -> SUBSET Ids] /\ rating' \in [Tasks -> Rating]
      BY <2>1, <2>2, <3>1 DEF RecordsInv, RecordsTyped
    <3> QED BY <1>2, <2>1, <2>2, <2>5, <3>2 DEF RecordsInv, RecordsTyped
  <2>7. ASSUME NEW b \in Agents, b # a PROVE AgentOK(b)'
    <3>1. \A u \in Tasks : rating'[u].agent = b => rating'[u] = rating[u]
      BY <2>2, <2>5, <2>7
    <3>2. /\ AgentOK(b) /\ pending'[b] = pending[b] /\ due'[b] = due[b]
          /\ disturbed[b] \subseteq disturbed'[b] /\ sync' = sync
      BY <2>1, <2>5, <2>7 DEF RecordsInv
    <3> QED BY <3>1, <3>2, Untouched
  <2>8. AgentOK(a)'
    <3> DEFINE D == disturbed[a]
               E == disturbed'[a]
    <3>1. D \subseteq E /\ more \subseteq E /\ AgentOK(a)
      BY <1>2, <2>5 DEF RecordsInv
    <3>2. (Syncing(a)' <=> Syncing(a)) /\ (Reporting(a)' <=> Reporting(a))
      BY <2>1 DEF Syncing, Reporting
    <3>3. \A u \in Tasks : u # t /\ rating[u].agent = a => rating[u].session \in Added(a)
      BY DEF Added
    <3>4. ASSUME NEW u \in Tasks, rating'[u].agent = a
          PROVE  /\ rating'[u].record \ E = (pending[a] \cup {rating'[u].session}) \ E
                 /\ Syncing(a) => rating'[u].session \in E /\ pending[a] \subseteq E
      <4>1. CASE u = t
        BY <2>2, <2>4, <2>5, <3>1, <4>1
      <4>2. CASE u # t
        <5>1. rating'[u] = rating[u]
          BY <2>5, <4>2
        <5>2. rating[u].record \ D = (pending[a] \cup {rating[u].session}) \ D
          BY <3>1, <3>4, <5>1 DEF AgentOK
        <5>3. Syncing(a) => rating[u].session \in E /\ pending[a] \subseteq E
          BY <2>4, <3>1, <3>3, <3>4, <4>2, <5>1
        <5> QED BY <3>1, <5>1, <5>2, <5>3
      <4> QED BY <4>1, <4>2
    <3>5. ASSUME NEW u \in Tasks, NEW v \in Tasks, u # v,
                 rating'[u].agent = a, rating'[v].agent = a
          PROVE  rating'[u].session \in E
      <4>1. CASE u = t
        <5>1. Added(a) # {}
          BY <2>5, <3>3, <3>5, <4>1
        <5> QED BY <2>2, <2>4, <2>5, <3>1, <4>1, <5>1
      <4>2. CASE u # t
        <5>1. rating[u].session \in Added(a) /\ rating'[u] = rating[u]
          BY <2>5, <3>3, <3>5, <4>2
        <5> QED BY <2>4, <3>1, <5>1
      <4> QED BY <4>1, <4>2
    <3>6. /\ ~ Reporting(a) => pending[a] \ E = due[a] \ E
          /\ Reporting(a) => due[a] \subseteq E
          /\ \A y \in Syncs :
               /\ sync[y].listed[a] \ E \subseteq due[a]
               /\ sync[y].listed[a] # {} => pending[a] \ E \subseteq sync[y].listed[a]
          /\ \A y, z \in Syncs : y # z => sync[y].listed[a] \cap sync[z].listed[a] \subseteq E
      BY <3>1 DEF AgentOK
    <3> QED BY <2>1, <3>2, <3>4, <3>5, <3>6 DEF AgentOK
  <2> QED BY <2>6, <2>7, <2>8 DEF RecordsInv
<1> QED BY <1>1, <1>2

LEMMA SaveKeeps ==
  ASSUME RecordsInv, NEW t \in Tasks, SaveRecord(t)
  PROVE  RecordsInv'
<1>0. PICK r, a : r = rating[t] /\ a = r.agent
  OBVIOUS
<1>1. a \in Agents /\ r.record \in SUBSET Ids /\ r.session \in Ids
  BY <1>0 DEF SaveRecord, RecordsInv, RecordsTyped, Rating
<1>2. /\ rating' = [rating EXCEPT ![t] = NoRating]
      /\ UNCHANGED <<sync, disturbed>>
  BY DEF SaveRecord
<1>3. \/ /\ pending' = [pending EXCEPT ![a] = r.record]
         /\ due' = [due EXCEPT ![a] = @ \cup {r.session}]
      \/ UNCHANGED <<pending, due>>
  BY <1>0 DEF SaveRecord
<1>4. \A u \in Tasks : rating'[u] = IF u = t THEN NoRating ELSE rating[u]
  BY <1>2 DEF RecordsInv, RecordsTyped
<1>5. \A b \in Agents, u \in Tasks : rating'[u].agent = b => u # t /\ rating'[u] = rating[u]
  BY <1>4, NothingTyped, AgentFacts
<1>6. RecordsTyped'
  <2>1. due[a] \cup {r.session} \in SUBSET Ids
    BY <1>1 DEF RecordsInv, RecordsTyped
  <2>2. pending' \in [Agents -> SUBSET Ids] /\ due' \in [Agents -> SUBSET Ids]
    BY <1>1, <1>3, <2>1 DEF RecordsInv, RecordsTyped
  <2>3. rating' \in [Tasks -> Rating]
    BY <1>2, NothingTyped DEF RecordsInv, RecordsTyped
  <2> QED BY <1>2, <1>4, <2>2, <2>3 DEF RecordsInv, RecordsTyped
<1>7. CASE UNCHANGED <<pending, due>>
  <2>1. ASSUME NEW b \in Agents PROVE AgentOK(b)'
    <3>1. AgentOK(b) /\ disturbed[b] \subseteq disturbed'[b]
      BY <1>2 DEF RecordsInv
    <3> QED BY <1>2, <1>5, <1>7, <3>1, Untouched
  <2> QED BY <1>6, <2>1 DEF RecordsInv
<1>8. CASE /\ pending' = [pending EXCEPT ![a] = r.record]
           /\ due' = [due EXCEPT ![a] = @ \cup {r.session}]
  <2>1. /\ pending'[a] = r.record /\ due'[a] = due[a] \cup {r.session}
        /\ \A b \in Agents : b # a => pending'[b] = pending[b] /\ due'[b] = due[b]
    BY <1>1, <1>8 DEF RecordsInv, RecordsTyped
  <2>2. ASSUME NEW b \in Agents, b # a PROVE AgentOK(b)'
    <3>1. /\ AgentOK(b) /\ disturbed[b] \subseteq disturbed'[b]
           /\ pending'[b] = pending[b] /\ due'[b] = due[b]
      BY <1>2, <2>1, <2>2 DEF RecordsInv
    <3> QED BY <1>2, <1>5, <3>1, Untouched
  <2>3. AgentOK(a)'
    <3> DEFINE D == disturbed[a]
    <3>1. AgentOK(a) /\ disturbed'[a] = D
      BY <1>1, <1>2 DEF RecordsInv
    <3>2. (Syncing(a)' <=> Syncing(a)) /\ (Reporting(a)' <=> Reporting(a))
      BY <1>2 DEF Syncing, Reporting
    <3>3. /\ r.record \ D = (pending[a] \cup {r.session}) \ D
          /\ Syncing(a) => r.session \in D /\ pending[a] \subseteq D
      BY <1>0, <3>1 DEF AgentOK
    <3>4. Syncing(a) => r.record \subseteq D
      BY <3>3
    <3>5. Reporting(a) => Syncing(a)
      BY DEF Reporting, Syncing
    <3>6. /\ ~ Reporting(a) => r.record \ D = (due[a] \cup {r.session}) \ D
          /\ Reporting(a) => due[a] \cup {r.session} \subseteq D
      <4>1. ~ Reporting(a) => pending[a] \ D = due[a] \ D
        BY <3>1 DEF AgentOK
      <4>2. Reporting(a) => due[a] \subseteq D
        BY <3>1 DEF AgentOK
      <4> QED BY <3>3, <3>5, <4>1, <4>2
    <3>7. \A y \in Syncs :
            /\ sync[y].listed[a] \ D \subseteq due[a] \cup {r.session}
            /\ sync[y].listed[a] # {} => r.record \ D \subseteq sync[y].listed[a]
      <4>1. \A y \in Syncs : sync[y].listed[a] \ D \subseteq due[a]
        BY <3>1 DEF AgentOK
      <4>2. \A y \in Syncs : sync[y].listed[a] # {} => Syncing(a)
        BY DEF Syncing
      <4> QED BY <3>4, <4>1, <4>2
    <3>8. \A u \in Tasks : rating'[u].agent = a =>
            /\ rating'[u].record \ D = (r.record \cup {rating'[u].session}) \ D
            /\ Syncing(a) => rating'[u].session \in D
      <4> SUFFICES ASSUME NEW u \in Tasks, rating'[u].agent = a
                   PROVE  /\ rating'[u].record \ D = (r.record \cup {rating'[u].session}) \ D
                          /\ Syncing(a) => rating'[u].session \in D
        OBVIOUS
      <4>1. u # t /\ rating'[u] = rating[u] /\ rating[u].agent = a
        BY <1>1, <1>5
      <4>2. rating[u].session \in D /\ r.session \in D
        BY <1>0, <3>1, <4>1 DEF AgentOK
      <4>3. rating[u].record \ D = (pending[a] \cup {rating[u].session}) \ D
        BY <3>1, <4>1 DEF AgentOK
      <4> QED BY <3>3, <4>1, <4>2, <4>3
    <3>9. /\ \A y, z \in Syncs : y # z => sync[y].listed[a] \cap sync[z].listed[a] \subseteq D
          /\ \A u, v \in Tasks : u # v /\ rating'[u].agent = a /\ rating'[v].agent = a =>
               rating'[u].session \in D
      BY <1>1, <1>5, <3>1 DEF AgentOK
    <3> QED BY <1>2, <2>1, <3>1, <3>2, <3>4, <3>6, <3>7, <3>8, <3>9 DEF AgentOK
  <2> QED BY <1>6, <2>2, <2>3 DEF RecordsInv
<1> QED BY <1>3, <1>7, <1>8

LEMMA ListKeeps ==
  ASSUME RecordsInv, NEW y \in Syncs, ListPending(y)
  PROVE  RecordsInv'
<1>1. PICK todo \in SUBSET {a \in Agents : pending[a] # {}} :
        /\ sync' = [sync EXCEPT ![y].listed =
                      [a \in Agents |-> IF a \in todo THEN pending[a] ELSE {}]]
        /\ disturbed' = [a \in Agents |->
             IF a \in todo /\ (Syncing(a) \/ Added(a) # {})
               THEN disturbed[a] \cup pending[a] \cup Added(a) ELSE disturbed[a]]
  BY DEF ListPending
<1>2. sync[y] = NoSync /\ UNCHANGED <<pending, rating, due>>
  BY DEF ListPending
<1> DEFINE listed == [a \in Agents |-> IF a \in todo THEN pending[a] ELSE {}]
           s == [listed |-> listed, at |-> NoAgent]
<1>3. sync' = [sync EXCEPT ![y] = s]
  <2>1. PICK none : none = [a \in Agents |-> {}]
    OBVIOUS
  <2>2. sync[y] = [listed |-> none, at |-> NoAgent]
    BY <1>2, <2>1 DEF NoSync
  <2>3. sync' = [sync EXCEPT ![y].listed = listed]
    BY <1>1
  <2> HIDE DEF listed
  <2>4. [sync[y] EXCEPT !.listed = listed] = s
    BY <2>2
  <2> QED BY <2>3, <2>4
<1>4. /\ s \in Sync /\ s.at = NoAgent
      /\ \A a \in Agents : s.listed[a] = IF a \in todo THEN pending[a] ELSE {}
  <2>1. listed \in [Agents -> SUBSET Ids]
    BY DEF RecordsInv, RecordsTyped
  <2> HIDE DEF listed
  <2>2. s \in Sync /\ s.at = NoAgent /\ s.listed = listed
    BY <2>1 DEF Sync
  <2> QED BY <2>2 DEF listed
<1> HIDE DEF s
<1>5. \A z \in Syncs : sync'[z] = IF z = y THEN s ELSE sync[z]
  BY <1>3 DEF RecordsInv, RecordsTyped
<1>6. \A a \in Agents :
        /\ disturbed[a] \subseteq disturbed'[a]
        /\ a \in todo /\ (Syncing(a) \/ Added(a) # {}) =>
             pending[a] \cup Added(a) \subseteq disturbed'[a]
  BY <1>1
<1>7. RecordsTyped'
  <2>1. \A a \in Agents : Added(a) \subseteq Ids
    BY NothingTyped, AgentFacts DEF Added, RecordsInv, RecordsTyped
  <2>2. disturbed' \in [Agents -> SUBSET Ids]
    BY <1>1, <2>1 DEF RecordsInv, RecordsTyped
  <2>3. sync' \in [Syncs -> Sync]
    BY <1>3, <1>4 DEF RecordsInv, RecordsTyped
  <2> QED BY <1>2, <2>2, <2>3 DEF RecordsInv, RecordsTyped
<1>8. ASSUME NEW a \in Agents PROVE AgentOK(a)'
  <2>1. AgentOK(a) /\ NoAgent # a /\ sync[y].at = NoAgent /\ sync[y].listed[a] = {}
    BY <1>2, NothingTyped, AgentFacts DEF RecordsInv
  <2>2. CASE a \notin todo
    <3>1. \A z \in Syncs :
            /\ sync'[z].listed[a] = {} \/ sync'[z].listed[a] = sync[z].listed[a]
            /\ sync'[z].at = a <=> sync[z].at = a
      BY <1>4, <1>5, <2>1, <2>2
    <3> QED BY <1>2, <1>6, <2>1, <3>1, Untouched
  <2>3. CASE a \in todo
    <3> DEFINE D == disturbed[a]
               E == disturbed'[a]
    <3>1. Reporting(a)' <=> Reporting(a)
      BY <1>4, <1>5, <2>1 DEF Reporting
    <3>2. /\ sync'[y].listed[a] = pending[a] /\ D \subseteq E
          /\ \A z \in Syncs : z # y => sync'[z] = sync[z]
      BY <1>4, <1>5, <1>6, <2>3
    <3>3. /\ Syncing(a) => pending[a] \subseteq E
          /\ Added(a) # {} => pending[a] \cup Added(a) \subseteq E
      BY <1>6, <2>3
    <3>4. Reporting(a) => Syncing(a)
      BY DEF Reporting, Syncing
    <3>5. /\ ~ Reporting(a) => pending[a] \ E = due[a] \ E
          /\ Reporting(a) => due[a] \subseteq E
      BY <2>1, <3>2 DEF AgentOK
    <3>6. \A z \in Syncs :
            /\ sync'[z].listed[a] \ E \subseteq due[a]
            /\ sync'[z].listed[a] # {} => pending[a] \ E \subseteq sync'[z].listed[a]
      <4> SUFFICES ASSUME NEW z \in Syncs
                   PROVE  /\ sync'[z].listed[a] \ E \subseteq due[a]
                          /\ sync'[z].listed[a] # {} => pending[a] \ E \subseteq sync'[z].listed[a]
        OBVIOUS
      <4>1. CASE z = y
        BY <3>2, <3>3, <3>4, <3>5, <4>1
      <4>2. CASE z # y
        BY <2>1, <3>2, <4>2 DEF AgentOK
      <4> QED BY <4>1, <4>2
    <3>7. ASSUME NEW z \in Syncs, NEW x \in Syncs, z # x
          PROVE  sync'[z].listed[a] \cap sync'[x].listed[a] \subseteq E
      <4>1. CASE z # y /\ x # y
        BY <2>1, <3>2, <3>7, <4>1 DEF AgentOK
      <4>2. CASE z = y \/ x = y
        <5>1. PICK w \in Syncs : w # y /\ sync'[z].listed[a] \cap sync'[x].listed[a] =
                                            pending[a] \cap sync[w].listed[a]
          BY <3>2, <3>7, <4>2
        <5>2. sync[w].listed[a] # {} => Syncing(a)
          BY DEF Syncing
        <5> QED BY <3>3, <5>1, <5>2
      <4> QED BY <4>1, <4>2
    <3>8. ASSUME NEW t \in Tasks, rating[t].agent = a
          PROVE  /\ rating[t].record \ E = (pending[a] \cup {rating[t].session}) \ E
                 /\ rating[t].session \in E /\ pending[a] \subseteq E
      <4>1. rating[t].record \ D = (pending[a] \cup {rating[t].session}) \ D
        BY <2>1, <3>8 DEF AgentOK
      <4>2. rating[t].session \in Added(a)
        BY <3>8 DEF Added
      <4> QED BY <3>2, <3>3, <4>1, <4>2
    <3> QED BY <1>2, <3>1, <3>5, <3>6, <3>7, <3>8 DEF AgentOK
  <2> QED BY <2>2, <2>3
<1> QED BY <1>7, <1>8 DEF RecordsInv

LEMMA FeedbackKeeps ==
  ASSUME RecordsInv, NEW y \in Syncs, GiveFeedback(y)
  PROVE  RecordsInv'
<1>1. PICK b \in Agents :
        /\ sync[y].listed[b] # {}
        /\ sync' = [sync EXCEPT ![y] = [listed |-> [@.listed EXCEPT ![b] = {}], at |-> b]]
        /\ due' = [due EXCEPT ![b] = @ \ sync[y].listed[b]]
  BY DEF GiveFeedback
<1>2. sync[y].at = NoAgent /\ UNCHANGED <<pending, rating, disturbed>>
  BY DEF GiveFeedback
<1> DEFINE s == [listed |-> [sync[y].listed EXCEPT ![b] = {}], at |-> b]
<1>3. sync' = [sync EXCEPT ![y] = s]
  BY <1>1
<1>4. /\ s \in Sync /\ s.at = b
      /\ \A a \in Agents : s.listed[a] = IF a = b THEN {} ELSE sync[y].listed[a]
  BY <1>1 DEF RecordsInv, RecordsTyped, Sync
<1> HIDE DEF s
<1>5. \A z \in Syncs : sync'[z] = IF z = y THEN s ELSE sync[z]
  BY <1>3 DEF RecordsInv, RecordsTyped
<1>6. /\ due'[b] = due[b] \ sync[y].listed[b]
      /\ \A a \in Agents : a # b => due'[a] = due[a]
  BY <1>1 DEF RecordsInv, RecordsTyped
<1>7. RecordsTyped'
  <2>1. due' \in [Agents -> SUBSET Ids]
    BY <1>1 DEF RecordsInv, RecordsTyped
  <2>2. sync' \in [Syncs -> Sync]
    BY <1>3, <1>4 DEF RecordsInv, RecordsTyped
  <2> QED BY <1>2, <2>1, <2>2 DEF RecordsInv, RecordsTyped
<1>8. ASSUME NEW a \in Agents, a # b PROVE AgentOK(a)'
  <2>1. AgentOK(a) /\ NoAgent # a
    BY AgentFacts DEF RecordsInv
  <2>2. \A z \in Syncs :
          /\ sync'[z].listed[a] = {} \/ sync'[z].listed[a] = sync[z].listed[a]
          /\ sync'[z].at = a <=> sync[z].at = a
    BY <1>2, <1>4, <1>5, <1>8, <2>1
  <2> QED BY <1>2, <1>6, <1>8, <2>1, <2>2, Untouched
<1>9. AgentOK(b)'
  <2> DEFINE D == disturbed[b]
             L == sync[y].listed[b]
  <2>1. AgentOK(b)
    BY DEF RecordsInv
  <2>2. Reporting(b)' /\ Syncing(b)
    BY <1>1, <1>4, <1>5 DEF Reporting, Syncing
  <2>3. due[b] \ L \subseteq D
    <3>1. CASE Reporting(b)
      BY <2>1, <3>1 DEF AgentOK
    <3>2. CASE ~ Reporting(b)
      <4>1. pending[b] \ D = due[b] \ D /\ pending[b] \ D \subseteq L
        BY <1>1, <2>1, <3>2 DEF AgentOK
      <4> QED BY <4>1
    <3> QED BY <3>1, <3>2
  <2>4. \A z \in Syncs :
          /\ sync'[z].listed[b] \ D \subseteq due[b] \ L
          /\ sync'[z].listed[b] # {} => pending[b] \ D \subseteq sync'[z].listed[b]
    <3> SUFFICES ASSUME NEW z \in Syncs, z # y
                 PROVE  /\ sync[z].listed[b] \ D \subseteq due[b] \ L
                        /\ sync[z].listed[b] # {} => pending[b] \ D \subseteq sync[z].listed[b]
      BY <1>4, <1>5
    <3>1. /\ sync[z].listed[b] \ D \subseteq due[b]
          /\ sync[z].listed[b] # {} => pending[b] \ D \subseteq sync[z].listed[b]
      BY <2>1 DEF AgentOK
    <3>2. sync[z].listed[b] \cap L \subseteq D
      BY <2>1 DEF AgentOK
    <3> QED BY <3>1, <3>2
  <2>5. \A z, x \in Syncs : z # x => sync'[z].listed[b] \cap sync'[x].listed[b] \subseteq D
    BY <1>4, <1>5, <2>1 DEF AgentOK
  <2>6. /\ \A t \in Tasks : rating[t].agent = b =>
             /\ rating[t].record \ D = (pending[b] \cup {rating[t].session}) \ D
             /\ rating[t].session \in D /\ pending[b] \subseteq D
        /\ \A t, u \in Tasks : t # u /\ rating[t].agent = b /\ rating[u].agent = b =>
             rating[t].session \in D
    BY <2>1, <2>2 DEF AgentOK
  <2> QED BY <1>2, <1>6, <2>2, <2>3, <2>4, <2>5, <2>6 DEF AgentOK
<1> QED BY <1>7, <1>8, <1>9 DEF RecordsInv

LEMMA FailKeeps ==
  ASSUME RecordsInv, NEW y \in Syncs, FeedbackFails(y)
  PROVE  RecordsInv'
<1>1. PICK b \in Agents :
        \/ disturbed' = [disturbed EXCEPT ![b] = @ \cup sync[y].listed[b]]
        \/ UNCHANGED disturbed
  BY DEF FeedbackFails
<1>2. /\ sync[y].at = NoAgent /\ sync' = [sync EXCEPT ![y] = NoSync]
      /\ UNCHANGED <<pending, rating, due>>
  BY DEF FeedbackFails
<1>3. \A z \in Syncs : sync'[z] = IF z = y THEN NoSync ELSE sync[z]
  BY <1>2 DEF RecordsInv, RecordsTyped
<1>4. /\ disturbed' \in [Agents -> SUBSET Ids]
       /\ \A a \in Agents : disturbed[a] \subseteq disturbed'[a]
  <2>1. sync[y].listed[b] \subseteq Ids
    BY DEF RecordsInv, RecordsTyped, Sync
  <2> QED BY <1>1, <2>1 DEF RecordsInv, RecordsTyped
<1>5. RecordsTyped'
  <2>1. sync' \in [Syncs -> Sync]
    BY <1>2, NothingTyped DEF RecordsInv, RecordsTyped
  <2> QED BY <1>2, <1>4, <2>1 DEF RecordsInv, RecordsTyped
<1>6. ASSUME NEW a \in Agents PROVE AgentOK(a)'
  <2>1. AgentOK(a) /\ NoAgent # a
    BY AgentFacts DEF RecordsInv
  <2>2. \A z \in Syncs :
          /\ sync'[z].listed[a] = {} \/ sync'[z].listed[a] = sync[z].listed[a]
          /\ sync'[z].at = a <=> sync[z].at = a
    BY <1>2, <1>3, <2>1, NothingTyped
  <2> QED BY <1>2, <1>4, <2>1, <2>2, Untouched
<1> QED BY <1>5, <1>6 DEF RecordsInv

LEMMA MarkKeeps ==
  ASSUME RecordsInv, NEW y \in Syncs, Mark(y)
  PROVE  RecordsInv'
<1>0. PICK b : b = sync[y].at
  OBVIOUS
<1>1. b \in Agents /\ UNCHANGED <<rating, due>> /\ sync' = [sync EXCEPT ![y].at = NoAgent]
  BY <1>0 DEF Mark, RecordsInv, RecordsTyped, Sync
<1>2. \/ pending' = [pending EXCEPT ![b] = {}] /\ UNCHANGED disturbed
      \/ disturbed' = [disturbed EXCEPT ![b] = @ \cup pending[b]] /\ UNCHANGED pending
  BY <1>0 DEF Mark
<1>3. /\ sync' \in [Syncs -> Sync]
      /\ \A z \in Syncs : sync'[z].listed = sync[z].listed
      /\ \A z \in Syncs : sync'[z].at = IF z = y THEN NoAgent ELSE sync[z].at
  BY <1>1 DEF RecordsInv, RecordsTyped, Sync
<1>4. /\ pending' \in [Agents -> SUBSET Ids] /\ disturbed' \in [Agents -> SUBSET Ids]
      /\ \A a \in Agents : disturbed[a] \subseteq disturbed'[a]
      /\ \A a \in Agents : a # b => pending'[a] = pending[a]
      /\ pending'[b] = {} \/ (pending'[b] = pending[b] /\ pending[b] \subseteq disturbed'[b])
  <2>1. pending[b] \subseteq Ids
    BY <1>1 DEF RecordsInv, RecordsTyped
  <2> QED BY <1>1, <1>2, <2>1 DEF RecordsInv, RecordsTyped
<1>5. RecordsTyped'
  BY <1>1, <1>3, <1>4 DEF RecordsInv, RecordsTyped
<1>6. ASSUME NEW a \in Agents, a # b PROVE AgentOK(a)'
  <2>1. AgentOK(a) /\ NoAgent # a
    BY AgentFacts DEF RecordsInv
  <2>2. \A z \in Syncs :
          /\ sync'[z].listed[a] = {} \/ sync'[z].listed[a] = sync[z].listed[a]
          /\ sync'[z].at = a <=> sync[z].at = a
    BY <1>0, <1>3, <1>6, <2>1
  <2> QED BY <1>1, <1>4, <1>6, <2>1, <2>2, Untouched
<1>7. AgentOK(b)'
  <2> DEFINE D == disturbed[b]
             E == disturbed'[b]
             p == pending'[b]
  <2>1. AgentOK(b) /\ D \subseteq E /\ Reporting(b) /\ Syncing(b)
    BY <1>0, <1>1, <1>4 DEF RecordsInv, Reporting, Syncing
  <2>2. due[b] \subseteq E
    BY <2>1 DEF AgentOK
  <2>3. p \ E = {}
    BY <1>4
  <2>4. \A t \in Tasks : rating[t].agent = b =>
          /\ rating[t].record \ E = (p \cup {rating[t].session}) \ E
          /\ rating[t].session \in E /\ p \subseteq E
    <3> SUFFICES ASSUME NEW t \in Tasks, rating[t].agent = b
                 PROVE  /\ rating[t].record \ E = (p \cup {rating[t].session}) \ E
                        /\ rating[t].session \in E /\ p \subseteq E
      OBVIOUS
    <3>1. /\ rating[t].record \ D = (pending[b] \cup {rating[t].session}) \ D
          /\ rating[t].session \in D /\ pending[b] \subseteq D
      BY <2>1 DEF AgentOK
    <3> HIDE DEF p
    <3> QED BY <2>1, <2>3, <3>1
  <2>5. /\ \A z \in Syncs :
             /\ sync[z].listed[b] \ E \subseteq due[b]
             /\ sync[z].listed[b] # {} => p \ E \subseteq sync[z].listed[b]
        /\ \A z, x \in Syncs : z # x => sync[z].listed[b] \cap sync[x].listed[b] \subseteq E
        /\ \A t, u \in Tasks : t # u /\ rating[t].agent = b /\ rating[u].agent = b =>
             rating[t].session \in E
    BY <2>1, <2>3 DEF AgentOK
  <2> HIDE DEF p
  <2>6. p \ E = due[b] \ E
    BY <2>2, <2>3
  <2> QED BY <1>1, <1>3, <2>2, <2>4, <2>5, <2>6 DEF AgentOK, p
<1> QED BY <1>5, <1>6, <1>7 DEF RecordsInv

-----------------------------------------------------------------------------
\* Recording and reporting sessions leaves the proxy to itself: its steps are those of
\* Proxy, so all that holds of it holds here too.
THEOREM ProxyIsKept == MetricsSpec => Spec
<1>1. MetricsInit => Init
  BY DEF MetricsInit
<1>2. [MetricsNext]_allVars => [Next]_vars
  <2>1. MetricsNext => [Next]_vars
    BY DEF MetricsNext, SaveRecord, RecordFailure, RecordSuccess, OtherStep, ListPending,
           GiveFeedback, FeedbackFails, Mark, Next, TaskStep
  <2> QED BY <2>1 DEF allVars, vars
<1> QED BY <1>1, <1>2, PTL DEF MetricsSpec, Spec

LEMMA RecordsInductive == MetricsSpec => []RecordsInv
<1>1. IInv /\ RecordsInv /\ [MetricsNext]_allVars => RecordsInv'
  <2> SUFFICES ASSUME IInv, RecordsInv, [MetricsNext]_allVars PROVE RecordsInv'
    OBVIOUS
  <2>1. ASSUME NEW t \in Tasks, SaveRecord(t) PROVE RecordsInv'
    BY <2>1, SaveKeeps
  <2>2. ASSUME NEW t \in Tasks, rating[t] = NoRating, RecordFailure(t) \/ RecordSuccess(t)
        PROVE  RecordsInv'
    <3>1. task[t].id \in Ids
      BY <2>2, ProxyAssumption
         DEF IInv, Listed, Serving, Ids, RecordFailure, RecordSuccess, RouteFails, CopyAndCharge
    <3>2. PICK a : LoadRecord(t, a)
      BY <2>2 DEF RecordFailure, RecordSuccess
    <3> QED BY <2>2, <3>1, <3>2, LoadKeeps
  <2>3. CASE UNCHANGED metricsVars
    BY <2>3 DEF metricsVars, RecordsInv, RecordsTyped, AgentOK, Reporting, Syncing
  <2>4. ASSUME NEW y \in Syncs,
               ListPending(y) \/ GiveFeedback(y) \/ FeedbackFails(y) \/ Mark(y)
        PROVE  RecordsInv'
    BY <2>4, ListKeeps, FeedbackKeeps, FailKeeps, MarkKeeps
  <2>5. UNCHANGED allVars => UNCHANGED metricsVars
    BY DEF allVars, metricsVars
  <2> QED BY <2>1, <2>2, <2>3, <2>4, <2>5 DEF MetricsNext, OtherStep
<1>2. MetricsSpec => []IInv
  BY ProxyIsKept, Inductive, PTL
<1> QED BY <1>1, <1>2, RecordsInit, PTL DEF MetricsSpec

\* Every variable of the proxy and of the providers' records keeps its type.
THEOREM RecordTypesCorrect == MetricsSpec => []MetricsTypeOK
<1>1. IInv /\ RecordsInv => MetricsTypeOK
  BY InvariantImplies DEF RecordsInv, RecordsTyped, MetricsTypeOK
<1> QED BY <1>1, ProxyIsKept, Inductive, RecordsInductive, PTL

\* For any number of tasks, syncs and providers, a session that was saved while nobody
\* else was at the record (record_success, record_failure) is pending until the feedback
\* that reports it (sync_pending_reputation_internal), and is not reported again.
THEOREM RatingsCorrect == MetricsSpec => []SessionsRatedOnce
<1>1. RecordsInv => SessionsRatedOnce
  BY DEF RecordsInv, AgentOK, Reporting, SessionsRatedOnce
<1> QED BY <1>1, RecordsInductive, PTL
=============================================================================
