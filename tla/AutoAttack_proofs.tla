-------------------------- MODULE AutoAttack_proofs --------------------------
(***************************************************************************)
(* Proofs about AutoAttack, for every value of its constants.              *)
(*                                                                         *)
(* ChainExact counts the events of the current generation.  It is kept by  *)
(* a start only if no event already has the generation that the start      *)
(* moves to (Past), which the shape of the queue alone does not say.       *)
(***************************************************************************)
EXTENDS AutoAttack, FiniteSetTheorems, TLAPS

-----------------------------------------------------------------------------
(* The invariant                                                            *)

(* Event e belongs to the chain of creature c of generation g.              *)
Mine(e, c, g) == e.kind = "auto" /\ e.attacker = c /\ e.generation = g

NoneIn(q, c, g) == \A i \in 1..Len(q) : ~Mine(q[i], c, g)
OneIn(q, c, g) ==
  \E i \in 1..Len(q) :
    Mine(q[i], c, g) /\ \A j \in 1..Len(q) : Mine(q[j], c, g) => j = i

(* No event is of a generation that its attacker has yet to reach.          *)
NotAhead(e, s) == e.kind = "auto" => e.generation <= s[e.attacker].generation
Past ==
  /\ NotAhead(current, state)
  /\ \A i \in 1..Len(queue) : NotAhead(queue[i], state)

Chain(c) ==
  LET g == state[c].generation IN
  \/ Mine(current, c, g) /\ NoneIn(queue, c, g)
  \/ ~Mine(current, c, g) /\ OneIn(queue, c, g)

Chains == \A c \in Creature \cap objects : state[c].active => Chain(c)

IInv == TypeOK /\ Past /\ Chains

-----------------------------------------------------------------------------
(* The queue                                                                *)

(* The events after an addition: those from before and the new one. *)
LEMMA AddShape ==
  ASSUME queue \in Seq(Event), NEW e, Add(e)
  PROVE  \E p \in 1..(Len(queue) + 1) :
           /\ Len(queue') = Len(queue) + 1
           /\ queue'[p] = e
           /\ \A i \in 1..Len(queue') :
                /\ i < p => i \in 1..Len(queue) /\ queue'[i] = queue[i]
                /\ i > p => i - 1 \in 1..Len(queue) /\ queue'[i] = queue[i - 1]
           /\ \A i \in 1..Len(queue) :
                /\ i < p => queue'[i] = queue[i]
                /\ i >= p => queue'[i + 1] = queue[i]
<1>1. PICK p \in 1..(Len(queue) + 1) : queue' = Inserted(queue, p, e)
  BY DEF Add
<1>2. Len(queue) \in Nat
  OBVIOUS
<1>3. Len(queue') = Len(queue) + 1
  BY <1>1, <1>2 DEF Inserted
<1>4. \A i \in 1..(Len(queue) + 1) :
        queue'[i] = IF i < p THEN queue[i] ELSE IF i = p THEN e ELSE queue[i - 1]
  BY <1>1 DEF Inserted
<1>5. queue'[p] = e
  BY <1>4
<1>6. \A i \in 1..Len(queue') :
        /\ i < p => i \in 1..Len(queue) /\ queue'[i] = queue[i]
        /\ i > p => i - 1 \in 1..Len(queue) /\ queue'[i] = queue[i - 1]
  BY <1>2, <1>3, <1>4
<1>7. \A i \in 1..Len(queue) :
        /\ i < p => queue'[i] = queue[i]
        /\ i >= p => queue'[i + 1] = queue[i]
  BY <1>2, <1>4, SMTT(40)
<1> QED
  BY <1>3, <1>5, <1>6, <1>7

(* An addition keeps the type of the queue. *)
LEMMA AddType ==
  ASSUME queue \in Seq(Event), NEW e \in Event, Add(e)
  PROVE  queue' \in Seq(Event)
<1>1. PICK p \in 1..(Len(queue) + 1) : queue' = Inserted(queue, p, e)
  BY DEF Add
<1>2. Len(queue) \in Nat /\ \A i \in 1..Len(queue) : queue[i] \in Event
  OBVIOUS
<1>3. \A i \in 1..(Len(queue) + 1) :
        (IF i < p THEN queue[i] ELSE IF i = p THEN e ELSE queue[i - 1]) \in Event
  BY <1>1, <1>2
<1> QED
  BY <1>1, <1>2, <1>3 DEF Inserted

(* The event of another chain, or a scheduled attack, changes no chain. *)
LEMMA AddOther ==
  ASSUME queue \in Seq(Event), NEW e, Add(e), NEW c, NEW g, ~Mine(e, c, g)
  PROVE  /\ NoneIn(queue, c, g) => NoneIn(queue', c, g)
         /\ OneIn(queue, c, g) => OneIn(queue', c, g)
<1>1. PICK p \in 1..(Len(queue) + 1) :
        /\ Len(queue') = Len(queue) + 1
        /\ queue'[p] = e
        /\ \A i \in 1..Len(queue') :
             /\ i < p => i \in 1..Len(queue) /\ queue'[i] = queue[i]
             /\ i > p => i - 1 \in 1..Len(queue) /\ queue'[i] = queue[i - 1]
        /\ \A i \in 1..Len(queue) :
             /\ i < p => queue'[i] = queue[i]
             /\ i >= p => queue'[i + 1] = queue[i]
  BY AddShape
<1>2. Len(queue) \in Nat
  OBVIOUS
<1>3. ASSUME NoneIn(queue, c, g) PROVE NoneIn(queue', c, g)
  <2> SUFFICES ASSUME NEW i \in 1..Len(queue') PROVE ~Mine(queue'[i], c, g)
    BY DEF NoneIn
  <2> QED
    <3>1. CASE i < p
      BY <1>1, <1>2, <1>3, <3>1 DEF NoneIn
    <3>2. CASE i = p
      BY <1>1, <3>2
    <3>3. CASE i > p
      BY <1>1, <1>2, <1>3, <3>3 DEF NoneIn
    <3> QED
      BY <1>1, <1>2, <3>1, <3>2, <3>3
<1>4. ASSUME OneIn(queue, c, g) PROVE OneIn(queue', c, g)
  <2>1. PICK k \in 1..Len(queue) :
          /\ Mine(queue[k], c, g)
          /\ \A j \in 1..Len(queue) : Mine(queue[j], c, g) => j = k
    BY <1>4 DEF OneIn
  <2>2. CASE k < p
    <3>1. k \in 1..Len(queue') /\ Mine(queue'[k], c, g)
      BY <1>1, <1>2, <2>1, <2>2
    <3>2. ASSUME NEW j \in 1..Len(queue'), Mine(queue'[j], c, g) PROVE j = k
      <4>1. CASE j < p
        BY <1>1, <1>2, <2>1, <3>2, <4>1
      <4>2. CASE j > p
        <5>1. Mine(queue[j - 1], c, g) /\ j - 1 \in 1..Len(queue)
          BY <1>1, <3>2, <4>2
        <5> QED
          BY <1>2, <2>1, <2>2, <4>2, <5>1
      <4> QED
        BY <1>1, <1>2, <3>2, <4>1, <4>2
    <3> QED
      BY <3>1, <3>2 DEF OneIn
  <2>3. CASE k >= p
    <3>1. k + 1 \in 1..Len(queue') /\ Mine(queue'[k + 1], c, g)
      BY <1>1, <1>2, <2>1, <2>3
    <3>2. ASSUME NEW j \in 1..Len(queue'), Mine(queue'[j], c, g) PROVE j = k + 1
      <4>1. CASE j < p
        BY <1>1, <1>2, <2>1, <2>3, <3>2, <4>1
      <4>2. CASE j > p
        <5>1. Mine(queue[j - 1], c, g) /\ j - 1 \in 1..Len(queue)
          BY <1>1, <3>2, <4>2
        <5> QED
          BY <1>1, <1>2, <2>1, <5>1
      <4> QED
        BY <1>1, <1>2, <3>2, <4>1, <4>2
    <3> QED
      BY <3>1, <3>2 DEF OneIn
  <2> QED
    BY <1>1, <1>2, <2>1, <2>2, <2>3
<1> QED
  BY <1>3, <1>4

(* The event of a chain that has none gives it one. *)
LEMMA AddMine ==
  ASSUME queue \in Seq(Event), NEW e, Add(e), NEW c, NEW g,
         Mine(e, c, g), NoneIn(queue, c, g)
  PROVE  OneIn(queue', c, g)
<1>1. PICK p \in 1..(Len(queue) + 1) :
        /\ Len(queue') = Len(queue) + 1
        /\ queue'[p] = e
        /\ \A i \in 1..Len(queue') :
             /\ i < p => i \in 1..Len(queue) /\ queue'[i] = queue[i]
             /\ i > p => i - 1 \in 1..Len(queue) /\ queue'[i] = queue[i - 1]
  BY AddShape
<1>2. Len(queue) \in Nat
  OBVIOUS
<1>3. ASSUME NEW j \in 1..Len(queue'), Mine(queue'[j], c, g) PROVE j = p
  BY <1>1, <1>2, <1>3 DEF NoneIn
<1> QED
  BY <1>1, <1>2, <1>3 DEF OneIn

(* No event is ahead after an addition of one that is not. *)
LEMMA AddPast ==
  ASSUME queue \in Seq(Event), NEW e, Add(e), NEW s,
         \A i \in 1..Len(queue) : NotAhead(queue[i], s), NotAhead(e, s)
  PROVE  \A i \in 1..Len(queue') : NotAhead(queue'[i], s)
<1>1. PICK p \in 1..(Len(queue) + 1) :
        /\ Len(queue') = Len(queue) + 1
        /\ queue'[p] = e
        /\ \A i \in 1..Len(queue') :
             /\ i < p => i \in 1..Len(queue) /\ queue'[i] = queue[i]
             /\ i > p => i - 1 \in 1..Len(queue) /\ queue'[i] = queue[i - 1]
  BY AddShape
<1>2. Len(queue) \in Nat
  OBVIOUS
<1> SUFFICES ASSUME NEW i \in 1..Len(queue') PROVE NotAhead(queue'[i], s)
  OBVIOUS
<1>3. CASE i < p
  BY <1>1, <1>3
<1>4. CASE i = p
  BY <1>1, <1>4
<1>5. CASE i > p
  BY <1>1, <1>5
<1> QED
  BY <1>1, <1>2, <1>3, <1>4, <1>5

(* Taking the first event leaves a chain that does not have it alone, and   *)
(* takes its only event from the one that has it.                           *)
LEMMA TailChains ==
  ASSUME queue \in Seq(Event), queue # << >>, NEW c, NEW g
  PROVE  /\ NoneIn(queue, c, g) => NoneIn(Tail(queue), c, g)
         /\ ~Mine(Head(queue), c, g) /\ OneIn(queue, c, g) => OneIn(Tail(queue), c, g)
         /\ Mine(Head(queue), c, g) /\ OneIn(queue, c, g) => NoneIn(Tail(queue), c, g)
<1>1. /\ Len(queue) \in Nat \ {0}
      /\ Len(Tail(queue)) = Len(queue) - 1
      /\ Head(queue) = queue[1]
      /\ \A i \in 1..Len(Tail(queue)) : Tail(queue)[i] = queue[i + 1]
  OBVIOUS
<1>2. ASSUME NoneIn(queue, c, g) PROVE NoneIn(Tail(queue), c, g)
  <2> SUFFICES ASSUME NEW i \in 1..Len(Tail(queue)) PROVE ~Mine(Tail(queue)[i], c, g)
    BY DEF NoneIn
  <2>1. i + 1 \in 1..Len(queue) /\ Tail(queue)[i] = queue[i + 1]
    BY <1>1
  <2> QED
    BY <1>2, <2>1 DEF NoneIn
<1>3. ASSUME OneIn(queue, c, g), ~Mine(Head(queue), c, g) PROVE OneIn(Tail(queue), c, g)
  <2>1. PICK k \in 1..Len(queue) :
          /\ Mine(queue[k], c, g)
          /\ \A j \in 1..Len(queue) : Mine(queue[j], c, g) => j = k
    BY <1>3 DEF OneIn
  <2>2. k # 1
    BY <1>1, <1>3, <2>1
  <2>3. k - 1 \in 1..Len(Tail(queue)) /\ Tail(queue)[k - 1] = queue[k]
    BY <1>1, <2>2
  <2>4. ASSUME NEW j \in 1..Len(Tail(queue)), Mine(Tail(queue)[j], c, g) PROVE j = k - 1
    <3>1. j + 1 \in 1..Len(queue) /\ Tail(queue)[j] = queue[j + 1]
      BY <1>1
    <3> QED
      BY <2>1, <2>4, <3>1
  <2> QED
    BY <2>1, <2>3, <2>4 DEF OneIn
<1>4. ASSUME OneIn(queue, c, g), Mine(Head(queue), c, g) PROVE NoneIn(Tail(queue), c, g)
  <2>1. PICK k \in 1..Len(queue) :
          /\ Mine(queue[k], c, g)
          /\ \A j \in 1..Len(queue) : Mine(queue[j], c, g) => j = k
    BY <1>4 DEF OneIn
  <2>2. k = 1
    BY <1>1, <1>4, <2>1
  <2> SUFFICES ASSUME NEW i \in 1..Len(Tail(queue)), Mine(Tail(queue)[i], c, g) PROVE FALSE
    BY DEF NoneIn
  <2>3. i + 1 \in 1..Len(queue) /\ Tail(queue)[i] = queue[i + 1]
    BY <1>1
  <2> QED
    BY <2>1, <2>2, <2>3
<1> QED
  BY <1>2, <1>3, <1>4

-----------------------------------------------------------------------------
(* Types                                                                    *)

(* What reaches the queue has the type of an event. *)
LEMMA AutoEventType ==
  ASSUME TypeOK, NEW c \in Creature, NEW delay \in Nat, NEW g \in 1..MaxGeneration
  PROVE  AutoEvent(c, delay, g) \in AutoAttack
BY NumberAssumption DEF NumberAssumption, TypeOK, AutoEvent, AutoAttack

(* The cast and the maximum make a delay of any int. *)
LEMMA CooldownType ==
  ASSUME NEW n \in Int
  PROVE  Cooldown(n) \in Nat \ {0}
<1>1. Wrap \in Nat /\ Wrap > 0
  BY NumberAssumption DEF NumberAssumption
<1>2. n % Wrap \in 0..(Wrap - 1)
  BY <1>1
<1> QED
  BY <1>1, <1>2 DEF Cooldown

(* The event that leaves the queue, and the one whose attack runs. *)
LEMMA EventTypes ==
  ASSUME TypeOK
  PROVE  /\ queue # << >> => Head(queue) \in Event /\ Tail(queue) \in Seq(Event)
         /\ InAttack => current \in Event
BY DEF TypeOK, InAttack

(* An event of kind "auto" is one of an auto attack. *)
LEMMA EventKind ==
  ASSUME NEW e \in Event \cup {NoEvent}, e.kind = "auto"
  PROVE  e \in AutoAttack
BY DEF Event, AutoAttack, ScheduledAttack, NoEvent

(* Every step keeps the types. *)
LEMMA NextTypeOK ==
  ASSUME TypeOK, [Next]_vars
  PROVE  TypeOK'
<1> USE DEF TypeOK
<1>1. ASSUME NEW c \in Creature, NEW target \in Object, NEW delay \in Delays,
             Start(c, target, delay)
      PROVE  TypeOK'
  <2>1. Started(c, target) \in AttackState /\ state[c].generation + 1 \in 1..MaxGeneration
    BY <1>1, NumberAssumption DEF NumberAssumption, Start, Started, AttackState
  <2>2. state' \in [Creature -> AttackState]
    BY <1>1, <2>1 DEF Start
  <2>3. delay \in Nat
    BY NumberAssumption DEF NumberAssumption
  <2>4. AutoEvent(c, delay, Started(c, target).generation) \in Event
    BY <2>1, <2>3, AutoEventType DEF Started, Event
  <2>5. queue' \in Seq(Event)
    BY <1>1, <2>4, AddType DEF Start
  <2> QED
    BY <1>1, <2>2, <2>5 DEF Start
<1>2. ASSUME NEW c \in Creature, NEW target \in Object, NEW delay \in Delays,
             ScheduleAttack(c, target, delay)
      PROVE  TypeOK'
  <2> DEFINE e == [kind |-> "scheduled", tick |-> tick + delay,
                   attacker |-> c, target |-> target]
  <2>1. e \in Event
    BY NumberAssumption DEF NumberAssumption, Event, ScheduledAttack
  <2>2. queue' \in Seq(Event)
    BY <1>2, <2>1, AddType DEF ScheduleAttack
  <2> QED
    BY <1>2, <2>2 DEF ScheduleAttack
<1>3. ASSUME NEW c \in Creature, Stop(c) PROVE TypeOK'
  <2>1. state' \in [Creature -> AttackState]
    BY <1>3, NumberAssumption DEF NumberAssumption, Stop, AttackState
  <2> QED
    BY <1>3, <2>1 DEF Stop
<1>4. ASSUME NEW c \in Creature, SetVitals(c) PROVE TypeOK'
  BY <1>4 DEF SetVitals
<1>5. ASSUME NEW o \in Object, DestroyObject(o) PROVE TypeOK'
  BY <1>5 DEF DestroyObject
<1>6. CASE Advance
  BY <1>6, NumberAssumption DEF NumberAssumption, Advance
<1>7. CASE ProcessStart
  BY <1>7 DEF ProcessStart
<1>8. CASE AutoAttackDropped
  BY <1>8, EventTypes DEF AutoAttackDropped, Pop, Due
<1>9. CASE AutoAttackEnds
  <2>1. state' \in [Creature -> AttackState]
    BY <1>9 DEF AutoAttackEnds, AttackState
  <2> QED
    BY <1>9, <2>1, EventTypes DEF AutoAttackEnds, Pop, Due
<1>10. CASE AutoAttackResolves
  BY <1>10, EventTypes DEF AutoAttackResolves, Pop, Due
<1>11. CASE AutoAttackResolved
  <2>1. PICK n \in Cooldowns \cup {1} :
          Add(AutoEvent(current.attacker, Cooldown(n), current.generation))
    BY <1>11 DEF AutoAttackResolved
  <2>2. current \in AutoAttack
    <3>1. current \in Event /\ current.kind = "auto"
      BY <1>11, EventTypes DEF AutoAttackResolved
    <3> QED
      BY <3>1, EventKind
  <2>3. Cooldown(n) \in Nat
    <3>1. n \in Int
      BY NumberAssumption DEF NumberAssumption
    <3> QED
      BY <3>1, CooldownType
  <2>4. AutoEvent(current.attacker, Cooldown(n), current.generation) \in Event
    BY <2>2, <2>3, AutoEventType DEF AutoAttack, Event
  <2>5. queue' \in Seq(Event)
    BY <2>1, <2>4, AddType
  <2> QED
    BY <1>11, <2>5 DEF AutoAttackResolved
<1>12. CASE ScheduledAttackDropped
  BY <1>12, EventTypes DEF ScheduledAttackDropped, Pop, Due
<1>13. CASE ScheduledAttackResolves
  BY <1>13, EventTypes DEF ScheduledAttackResolves, Pop, Due
<1>14. CASE ScheduledAttackResolved
  BY <1>14 DEF ScheduledAttackResolved
<1>15. CASE ProcessReturn
  BY <1>15 DEF ProcessReturn
<1>16. CASE UNCHANGED vars
  BY <1>16 DEF vars
<1> QED
  BY <1>1, <1>2, <1>3, <1>4, <1>5, <1>6, <1>7, <1>8, <1>9, <1>10, <1>11, <1>12,
     <1>13, <1>14, <1>15, <1>16 DEF Next, Host, Process

-----------------------------------------------------------------------------
(* Generations                                                              *)

(* A state whose generations are no smaller leaves no event ahead. *)
LEMMA GenerationsGrow ==
  ASSUME TypeOK, Past, NEW s \in [Creature -> AttackState],
         \A c \in Creature : state[c].generation <= s[c].generation
  PROVE  /\ NotAhead(current, s)
         /\ \A i \in 1..Len(queue) : NotAhead(queue[i], s)
<1>1. ASSUME NEW e \in Event \cup {NoEvent}, NotAhead(e, state) PROVE NotAhead(e, s)
  <2> SUFFICES ASSUME e.kind = "auto" PROVE e.generation <= s[e.attacker].generation
    BY DEF NotAhead
  <2>1. e \in AutoAttack
    BY EventKind
  <2>2. e.attacker \in Creature /\ e.generation \in Int
    BY <2>1 DEF AutoAttack
  <2>3. state[e.attacker].generation \in Int /\ s[e.attacker].generation \in Int
    BY <2>2, NumberAssumption DEF NumberAssumption, TypeOK, AttackState
  <2> QED
    BY <1>1, <2>2, <2>3 DEF NotAhead
<1>2. current \in Event \cup {NoEvent} /\ \A i \in 1..Len(queue) : queue[i] \in Event
  BY DEF TypeOK
<1> QED
  BY <1>1, <1>2 DEF Past

(* Every step keeps Past. *)
LEMMA NextPast ==
  ASSUME TypeOK, Past, [Next]_vars
  PROVE  Past'
<1>1. SUFFICES /\ NotAhead(current', state')
               /\ \A i \in 1..Len(queue') : NotAhead(queue'[i], state')
  BY DEF Past
<1>2. TypeOK'
  BY NextTypeOK
<1>3. queue \in Seq(Event) /\ state \in [Creature -> AttackState]
      /\ state' \in [Creature -> AttackState]
  BY <1>2 DEF TypeOK
<1>4. \A c \in Creature : state[c].generation \in Int
  BY <1>3, NumberAssumption DEF NumberAssumption, AttackState
<1>5. ASSUME NEW c \in Creature, NEW target \in Object, NEW delay \in Delays,
             Start(c, target, delay)
      PROVE  /\ NotAhead(current', state')
             /\ \A i \in 1..Len(queue') : NotAhead(queue'[i], state')
  <2> DEFINE e == AutoEvent(c, delay, Started(c, target).generation)
  <2>1. \A d \in Creature : state[d].generation <= state'[d].generation
    BY <1>3, <1>4, <1>5 DEF Start, Started
  <2>2. /\ NotAhead(current, state')
        /\ \A i \in 1..Len(queue) : NotAhead(queue[i], state')
    BY <1>3, <2>1, GenerationsGrow
  <2>3. NotAhead(e, state')
    BY <1>3, <1>4, <1>5 DEF Start, Started, AutoEvent, NotAhead
  <2>4. Add(e) /\ current' = current
    BY <1>5 DEF Start
  <2> QED
    BY <1>3, <2>2, <2>3, <2>4, AddPast
<1>6. ASSUME NEW c \in Creature, NEW target \in Object, NEW delay \in Delays,
             ScheduleAttack(c, target, delay)
      PROVE  /\ NotAhead(current', state')
             /\ \A i \in 1..Len(queue') : NotAhead(queue'[i], state')
  <2> DEFINE e == [kind |-> "scheduled", tick |-> tick + delay,
                   attacker |-> c, target |-> target]
  <2>1. NotAhead(e, state)
    BY DEF NotAhead
  <2>2. Add(e) /\ current' = current /\ state' = state
    BY <1>6 DEF ScheduleAttack
  <2> QED
    BY <1>3, <2>1, <2>2, AddPast DEF Past
<1>7. ASSUME NEW c \in Creature, Stop(c)
      PROVE  /\ NotAhead(current', state')
             /\ \A i \in 1..Len(queue') : NotAhead(queue'[i], state')
  <2>1. \A d \in Creature : state[d].generation <= state'[d].generation
    BY <1>3, <1>4, <1>7 DEF Stop
  <2> QED
    BY <1>3, <1>7, <2>1, GenerationsGrow DEF Stop
<1>8. ASSUME NEW kind, Pop(kind),
             \A d \in Creature : state[d].generation <= state'[d].generation,
             current' = current \/ current' = Head(queue)
      PROVE  /\ NotAhead(current', state')
             /\ \A i \in 1..Len(queue') : NotAhead(queue'[i], state')
  <2>1. /\ NotAhead(current, state')
        /\ \A i \in 1..Len(queue) : NotAhead(queue[i], state')
    BY <1>3, <1>8, GenerationsGrow
  <2>2. /\ 1 \in 1..Len(queue) /\ Head(queue) = queue[1]
        /\ \A i \in 1..Len(queue') :
             i + 1 \in 1..Len(queue) /\ queue'[i] = queue[i + 1]
    BY <1>3, <1>8 DEF Pop, Due
  <2>3. NotAhead(current', state')
    BY <1>8, <2>1, <2>2
  <2>4. \A i \in 1..Len(queue') : NotAhead(queue'[i], state')
    BY <2>1, <2>2
  <2> QED
    BY <2>3, <2>4
<1>9. CASE AutoAttackDropped
  BY <1>4, <1>8, <1>9 DEF AutoAttackDropped
<1>10. CASE AutoAttackEnds
  <2>1. \A d \in Creature : state[d].generation <= state'[d].generation
    BY <1>3, <1>4, <1>10 DEF AutoAttackEnds
  <2>2. Pop("auto") /\ current' = current
    BY <1>10 DEF AutoAttackEnds
  <2> QED
    BY <1>8, <2>1, <2>2
<1>11. CASE AutoAttackResolves
  BY <1>4, <1>8, <1>11 DEF AutoAttackResolves
<1>12. CASE ScheduledAttackDropped
  BY <1>4, <1>8, <1>12 DEF ScheduledAttackDropped
<1>13. CASE ScheduledAttackResolves
  BY <1>4, <1>8, <1>13 DEF ScheduledAttackResolves
<1>14. NotAhead(NoEvent, state)
  BY DEF NotAhead, NoEvent
<1>15. CASE AutoAttackResolved
  <2>1. PICK n \in Cooldowns \cup {1} :
          Add(AutoEvent(current.attacker, Cooldown(n), current.generation))
    BY <1>15 DEF AutoAttackResolved
  <2>2. NotAhead(AutoEvent(current.attacker, Cooldown(n), current.generation), state)
    BY <1>15 DEF AutoAttackResolved, Past, NotAhead, AutoEvent
  <2>3. \A i \in 1..Len(queue') : NotAhead(queue'[i], state)
    BY <1>3, <2>1, <2>2, AddPast DEF Past
  <2> QED
    BY <1>14, <1>15, <2>3 DEF AutoAttackResolved
<1>16. CASE ScheduledAttackResolved
  BY <1>14, <1>16 DEF ScheduledAttackResolved, Past
<1>17. ASSUME UNCHANGED <<state, queue, current>>
       PROVE  /\ NotAhead(current', state')
              /\ \A i \in 1..Len(queue') : NotAhead(queue'[i], state')
  BY <1>17 DEF Past
<1>18. ASSUME \/ \E c \in Creature : SetVitals(c)
              \/ \E o \in Object : DestroyObject(o)
              \/ Advance \/ ProcessStart \/ ProcessReturn \/ UNCHANGED vars
       PROVE  UNCHANGED <<state, queue, current>>
  BY <1>18 DEF SetVitals, DestroyObject, Advance, ProcessStart, ProcessReturn, vars
<1> QED
  BY <1>5, <1>6, <1>7, <1>9, <1>10, <1>11, <1>12, <1>13, <1>15, <1>16, <1>17, <1>18
     DEF Next, Host, Process

-----------------------------------------------------------------------------
(* Chains                                                                   *)

(* An addition for another chain keeps a chain whose state does not change. *)
LEMMA AddKeepsChain ==
  ASSUME TypeOK, NEW e, Add(e), NEW c \in Creature, Chain(c),
         ~Mine(e, c, state[c].generation),
         state'[c] = state[c], current' = current
  PROVE  Chain(c)'
<1> DEFINE g == state[c].generation
<1>1. queue \in Seq(Event)
  BY DEF TypeOK
<1>2. /\ NoneIn(queue, c, g) => NoneIn(queue', c, g)
      /\ OneIn(queue, c, g) => OneIn(queue', c, g)
  BY <1>1, AddOther
<1>3. /\ state'[c].generation = g
      /\ Mine(current', c, g) <=> Mine(current, c, g)
  OBVIOUS
<1> QED
  BY <1>2, <1>3 DEF Chain

(* Taking an event of another chain does too. *)
LEMMA PopKeepsChain ==
  ASSUME TypeOK, NEW kind, Pop(kind), NEW c \in Creature, Chain(c),
         ~Mine(Head(queue), c, state[c].generation),
         state'[c] = state[c], current' = current \/ current' = Head(queue)
  PROVE  Chain(c)'
<1> DEFINE g == state[c].generation
<1>1. queue \in Seq(Event) /\ queue # << >> /\ queue' = Tail(queue)
  BY DEF TypeOK, Pop, Due
<1>2. ~Mine(current, c, g)
  BY DEF Pop, InAttack, Mine, NoEvent
<1>3. ~Mine(current', c, g)
  BY <1>2
<1>4. OneIn(queue', c, g)
  BY <1>1, <1>2, TailChains DEF Chain
<1> QED
  BY <1>3, <1>4 DEF Chain

(* Every step keeps the chains of the creatures that exist. *)
LEMMA NextChains ==
  ASSUME IInv, [Next]_vars
  PROVE  Chains'
<1> USE DEF IInv
<1>1. /\ queue \in Seq(Event) /\ state \in [Creature -> AttackState]
      /\ \A c \in Creature : state[c].generation \in Int
  BY NumberAssumption DEF NumberAssumption, TypeOK, AttackState
<1>2. objects' \subseteq objects
  BY DEF Next, Host, Process, Start, Stop, ScheduleAttack, SetVitals, DestroyObject,
         Advance, ProcessStart, AutoAttackDropped, AutoAttackEnds, AutoAttackResolves,
         AutoAttackResolved, ScheduledAttackDropped, ScheduledAttackResolves,
         ScheduledAttackResolved, ProcessReturn, Pop, vars
<1> SUFFICES ASSUME NEW c \in Creature \cap objects, state'[c].active
             PROVE  Chain(c)'
  BY <1>2 DEF Chains
<1> DEFINE g == state[c].generation
<1>3. ASSUME NEW d \in Creature, NEW target \in Object, NEW delay \in Delays,
             Start(d, target, delay)
      PROVE  Chain(c)'
  <2> DEFINE e == AutoEvent(d, delay, Started(d, target).generation)
  <2>1. Add(e) /\ current' = current
    BY <1>3 DEF Start
  <2>2. CASE d = c
    <3>1. state'[c].generation = g + 1
      BY <1>1, <1>3, <2>2 DEF Start, Started
    <3>2. Mine(e, c, g + 1)
      BY <2>2 DEF Mine, AutoEvent, Started
    <3>3. ~Mine(current, c, g + 1) /\ NoneIn(queue, c, g + 1)
      BY <1>1 DEF Past, NotAhead, NoneIn, Mine
    <3>4. OneIn(queue', c, g + 1)
      BY <1>1, <2>1, <3>2, <3>3, AddMine
    <3> QED
      BY <2>1, <3>1, <3>3, <3>4 DEF Chain
  <2>3. CASE d # c
    <3>1. state'[c] = state[c] /\ ~Mine(e, c, g)
      BY <1>1, <1>3, <2>3 DEF Start, Mine, AutoEvent
    <3>2. Chain(c)
      BY <3>1 DEF Chains
    <3> QED
      BY <2>1, <3>1, <3>2, AddKeepsChain
  <2> QED
    BY <2>2, <2>3
<1>4. ASSUME NEW d \in Creature, NEW target \in Object, NEW delay \in Delays,
             ScheduleAttack(d, target, delay)
      PROVE  Chain(c)'
  <2> DEFINE e == [kind |-> "scheduled", tick |-> tick + delay,
                   attacker |-> d, target |-> target]
  <2>1. Add(e) /\ current' = current /\ state'[c] = state[c]
    BY <1>4 DEF ScheduleAttack
  <2>2. ~Mine(e, c, g)
    BY DEF Mine
  <2>3. Chain(c)
    BY <2>1 DEF Chains
  <2> QED
    BY <2>1, <2>2, <2>3, AddKeepsChain
<1>5. ASSUME NEW d \in Creature, Stop(d) PROVE Chain(c)'
  <2>1. state'[c] = state[c] /\ queue' = queue /\ current' = current
    BY <1>1, <1>5 DEF Stop
  <2> QED
    BY <2>1 DEF Chains, Chain
<1>6. ASSUME UNCHANGED <<state, queue, current>> PROVE Chain(c)'
  BY <1>6 DEF Chains, Chain
<1>7. ASSUME \/ \E d \in Creature : SetVitals(d)
             \/ \E o \in Object : DestroyObject(o)
             \/ Advance \/ ProcessStart \/ ProcessReturn \/ UNCHANGED vars
      PROVE  UNCHANGED <<state, queue, current>>
  BY <1>7 DEF SetVitals, DestroyObject, Advance, ProcessStart, ProcessReturn, vars
<1>8. CASE AutoAttackDropped
  <2>1. Pop("auto") /\ state'[c] = state[c] /\ current' = current
    BY <1>8 DEF AutoAttackDropped
  <2>2. ~Mine(Head(queue), c, g)
    BY <1>8, <2>1 DEF AutoAttackDropped, Follows, Mine
  <2>3. Chain(c)
    BY <2>1 DEF Chains
  <2> QED
    BY <2>1, <2>2, <2>3, PopKeepsChain
<1>9. CASE AutoAttackEnds
  <2>1. Pop("auto") /\ current' = current
    BY <1>9 DEF AutoAttackEnds
  <2>2. Head(queue).attacker # c
    BY <1>1, <1>9 DEF AutoAttackEnds
  <2>3. state'[c] = state[c] /\ ~Mine(Head(queue), c, g)
    BY <1>1, <1>9, <2>2 DEF AutoAttackEnds, Mine
  <2>4. Chain(c)
    BY <2>3 DEF Chains
  <2> QED
    BY <2>1, <2>3, <2>4, PopKeepsChain
<1>10. CASE AutoAttackResolves
  <2>1. Pop("auto") /\ state'[c] = state[c] /\ current' = Head(queue)
    BY <1>10 DEF AutoAttackResolves
  <2>2. Chain(c)
    BY <2>1 DEF Chains
  <2>3. CASE Mine(Head(queue), c, g)
    <3>1. queue # << >> /\ queue' = Tail(queue) /\ ~Mine(current, c, g)
      BY <2>1 DEF Pop, Due, InAttack, Mine, NoEvent
    <3>2. NoneIn(queue', c, g)
      BY <1>1, <2>2, <2>3, <3>1, TailChains DEF Chain
    <3> QED
      BY <2>1, <2>3, <3>2 DEF Chain
  <2>4. CASE ~Mine(Head(queue), c, g)
    BY <2>1, <2>2, <2>4, PopKeepsChain
  <2> QED
    BY <2>3, <2>4
<1>11. CASE AutoAttackResolved
  <2>1. PICK n \in Cooldowns \cup {1} :
          Add(AutoEvent(current.attacker, Cooldown(n), current.generation))
    BY <1>11 DEF AutoAttackResolved
  <2> DEFINE e == AutoEvent(current.attacker, Cooldown(n), current.generation)
  <2>2. state'[c] = state[c] /\ current' = NoEvent /\ ~Mine(NoEvent, c, g)
    BY <1>11 DEF AutoAttackResolved, Mine, NoEvent
  <2>3. Mine(e, c, g) <=> Mine(current, c, g)
    BY <1>11 DEF AutoAttackResolved, Mine, AutoEvent
  <2>4. Chain(c)
    BY <2>2 DEF Chains
  <2>5. CASE Mine(current, c, g)
    <3>1. NoneIn(queue, c, g)
      BY <2>4, <2>5 DEF Chain
    <3>2. OneIn(queue', c, g)
      BY <1>1, <2>1, <2>3, <2>5, <3>1, AddMine
    <3> QED
      BY <2>2, <3>2 DEF Chain
  <2>6. CASE ~Mine(current, c, g)
    <3>1. OneIn(queue, c, g)
      BY <2>4, <2>6 DEF Chain
    <3>2. OneIn(queue', c, g)
      BY <1>1, <2>1, <2>3, <2>6, <3>1, AddOther
    <3> QED
      BY <2>2, <3>2 DEF Chain
  <2> QED
    BY <2>5, <2>6
<1>12. CASE ScheduledAttackDropped \/ ScheduledAttackResolves
  <2>1. /\ Pop("scheduled") /\ state'[c] = state[c]
        /\ current' = current \/ current' = Head(queue)
    BY <1>12 DEF ScheduledAttackDropped, ScheduledAttackResolves
  <2>2. ~Mine(Head(queue), c, g)
    BY <2>1 DEF Pop, Mine
  <2>3. Chain(c)
    BY <2>1 DEF Chains
  <2> QED
    BY <2>1, <2>2, <2>3, PopKeepsChain
<1>13. CASE ScheduledAttackResolved
  <2>1. /\ state'[c] = state[c] /\ queue' = queue
        /\ ~Mine(current, c, g) /\ ~Mine(current', c, g)
    BY <1>13 DEF ScheduledAttackResolved, Mine, NoEvent
  <2> QED
    BY <2>1 DEF Chains, Chain
<1> QED
  BY <1>3, <1>4, <1>5, <1>6, <1>7, <1>8, <1>9, <1>10, <1>11, <1>12, <1>13
     DEF Next, Host, Process

-----------------------------------------------------------------------------
(* Theorems                                                                 *)

(* The initial states satisfy the invariant: nothing is queued or active. *)
LEMMA InitIInv == Init => IInv
<1> SUFFICES ASSUME Init PROVE IInv
  OBVIOUS
<1>1. TypeOK
  <2>1. state \in [Creature -> AttackState]
    BY NumberAssumption DEF NumberAssumption, Init, AttackState
  <2>2. queue \in Seq(Event) /\ tick \in 0..MaxTick
    BY NumberAssumption DEF NumberAssumption, Init
  <2> QED
    BY <2>1, <2>2 DEF Init, TypeOK
<1>2. Past
  BY DEF Init, Past, NotAhead, NoEvent
<1>3. Chains
  BY DEF Init, Chains
<1> QED
  BY <1>1, <1>2, <1>3 DEF IInv

(* A chain has one event: the count of ChainExact. *)
LEMMA ChainsCount == IInv => ChainExact
<1> SUFFICES ASSUME IInv, NEW c \in Creature \cap objects
             PROVE  Queued(c) + InHand(c) = IF state[c].active THEN 1 ELSE 0
  BY DEF ChainExact
<1> DEFINE g == state[c].generation
           S == {i \in DOMAIN queue : queue[i].kind = "auto"
                   /\ queue[i].attacker = c /\ Follows(queue[i])}
<1>1. DOMAIN queue = 1..Len(queue)
  BY DEF IInv, TypeOK
<1>2. CASE ~state[c].active
  <2>1. S = {}
    BY <1>2 DEF Follows
  <2>2. InHand(c) = 0
    BY <1>2 DEF InHand, Follows
  <2>3. Queued(c) = 0
    BY <2>1, FS_EmptySet DEF Queued
  <2> QED
    BY <1>2, <2>2, <2>3
<1>3. CASE state[c].active
  <2>1. S = {i \in 1..Len(queue) : Mine(queue[i], c, g)}
    BY <1>1, <1>3 DEF Follows, Mine
  <2>2. InHand(c) = IF Mine(current, c, g) THEN 1 ELSE 0
    BY <1>3 DEF InHand, InAttack, Follows, Mine, NoEvent
  <2>3. Chain(c)
    BY <1>3 DEF IInv, Chains
  <2>4. CASE Mine(current, c, g)
    <3>1. S = {}
      BY <2>1, <2>3, <2>4 DEF Chain, NoneIn
    <3> QED
      BY <1>3, <2>2, <2>4, <3>1, FS_EmptySet DEF Queued
  <2>5. CASE ~Mine(current, c, g)
    <3>1. PICK k \in 1..Len(queue) : S = {k}
      BY <2>1, <2>3, <2>5 DEF Chain, OneIn
    <3>2. Cardinality(S) = 1
      BY <3>1, FS_Singleton
    <3> QED
      BY <1>3, <2>2, <2>5, <3>2 DEF Queued
  <2> QED
    BY <2>4, <2>5
<1> QED
  BY <1>2, <1>3

(* The invariant holds always. *)
THEOREM Invariant == Spec => []IInv
<1>1. ASSUME IInv, [Next]_vars PROVE IInv'
  BY <1>1, NextTypeOK, NextPast, NextChains DEF IInv
<1> QED
  BY <1>1, InitIInv, PTL DEF Spec

(* Types: whatever the cooldown script returns, no event is due before the  *)
(* tick it is added at (resolve_attack_cooldown_ticks).                     *)
THEOREM TypeCorrect == Spec => []TypeOK
<1>1. IInv => TypeOK
  BY DEF IInv
<1> QED
  BY <1>1, Invariant, PTL

(* For any number of creatures, starts, stops and events, and any cooldown: *)
(* an active auto attack has exactly one event that goes on with it, a      *)
(* stopped one none (auto_attack_event_callback).                           *)
THEOREM OneAttackEach == Spec => []ChainExact
BY Invariant, ChainsCount, PTL
=============================================================================
