----------------------------- MODULE AutoAttack -----------------------------
(***************************************************************************)
(* Attacks on a schedule: combat_scheduler.cpp over the queue of           *)
(* EventSystem.cpp.  An auto attack is a chain: the callback of its event  *)
(* resolves an attack and adds the next event after a cooldown.  Starting  *)
(* and stopping do not look for the events in the queue; they change the   *)
(* generation, and the callback drops the events of other generations.     *)
(*                                                                         *)
(* Resolving an attack runs the policy script, which changes vitals and    *)
(* applies effects; the effect callback of the host may then start, stop,  *)
(* schedule and destroy, all while process waits for the attack.           *)
(***************************************************************************)
EXTENDS Integers, Sequences, FiniteSets

CONSTANTS
  Creature,       \* creatures
  Thing,          \* objects without vitals: doors, placeables
  None,           \* no object
  Wrap,           \* uint32_t has 2^32 values
  Cooldowns,      \* what the script resolve_attack_cooldown_ticks returns
  Delays,         \* initial delays that the host asks for
  MaxTick,        \* the host advances up to this tick
  MaxGeneration,  \* bound on the starts and stops of one creature
  MaxPending      \* the host adds no event beyond this number

Object == Creature \cup Thing

ASSUME ObjectAssumption == None \notin Object /\ Creature \cap Thing = {}
ASSUME NumberAssumption ==
  /\ Wrap \in Nat \ {0, 1} /\ Cooldowns \subseteq Int /\ Delays \subseteq Nat
  /\ {MaxTick, MaxGeneration, MaxPending} \subseteq Nat

VARIABLES
  objects,      \* the objects that exist; a handle is never issued twice
  dead,         \* creatures with hp_current <= 0
  state,        \* auto_attack_states
  queue,        \* EventSystem::queue_, in the order of tick and sequence
  tick,         \* EventSystem::current_tick_
  processing,   \* EventSystem::process runs
  current       \* the event whose callback resolves an attack, if any

vars == <<objects, dead, state, queue, tick, processing, current>>

(* An upserted entry has generation 1 or more: generation 0 is no entry.   *)
AttackState == [target : Object \cup {None}, active : BOOLEAN,
                generation : 0..MaxGeneration]
AutoAttack == [kind : {"auto"}, tick : Nat, attacker : Creature,
               generation : 1..MaxGeneration]
ScheduledAttack == [kind : {"scheduled"}, tick : Nat, attacker : Creature,
                    target : Object]
Event == AutoAttack \cup ScheduledAttack
NoEvent == [kind |-> "none"]

(* Every delay that reaches the queue is unsigned and counts from the      *)
(* current tick, in combat_scheduler.cpp and in its script.                *)
TypeOK ==
  /\ objects \subseteq Object
  /\ dead \subseteq Creature
  /\ state \in [Creature -> AttackState]
  /\ queue \in Seq(Event)
  /\ tick \in 0..MaxTick
  /\ processing \in BOOLEAN
  /\ current \in Event \cup {NoEvent}

Init ==
  /\ objects = Object
  /\ dead = {}
  /\ state = [c \in Creature |->
               [target |-> None, active |-> FALSE, generation |-> 0]]
  /\ queue = << >>
  /\ tick = 0
  /\ processing = FALSE
  /\ current = NoEvent

-----------------------------------------------------------------------------
(* The queue                                                                *)

Inserted(q, p, e) ==
  [i \in 1..(Len(q) + 1) |->
    IF i < p THEN q[i] ELSE IF i = p THEN e ELSE q[i - 1]]

(* Event e gets the next sequence number: it comes after the events of its  *)
(* tick, and before those of later ticks.                                   *)
Add(e) ==
  \E p \in 1..(Len(queue) + 1) :
    /\ \A i \in 1..Len(queue) : queue[i].tick <= e.tick <=> i < p
    /\ queue' = Inserted(queue, p, e)

Due == queue # << >> /\ Head(queue).tick <= tick

AutoEvent(c, delay, generation) ==
  [kind |-> "auto", tick |-> tick + delay, attacker |-> c,
   generation |-> generation]

(* Mutants of Cooldown: the cast keeps the sign; a cooldown may be 0.      *)
CooldownSigned(n) == IF n = 0 THEN 1 ELSE n
CooldownZero(n) == n % Wrap

(* resolve_attack_cooldown_ticks: an int32_t cast to uint32_t, at least 1. *)
Cooldown(n) == IF n % Wrap = 0 THEN 1 ELSE n % Wrap

-----------------------------------------------------------------------------
(* What the host calls: between two calls of process, from the effect       *)
(* callback while an attack is resolved, and from the callbacks of custom   *)
(* events of its own, between two attacks of one process.                   *)

InAttack == current # NoEvent

(* Events that a callback adds for the current tick are processed by the    *)
(* same process: a host that adds one each time never gets out of it.       *)
MayAdd(delay) == Len(queue) < MaxPending /\ (processing => delay > 0)

(* Mutant of Started: a start keeps the generation of a chain that runs.    *)
StartedSame(c, target) ==
  [target |-> target, active |-> TRUE,
   generation |-> IF state[c].active THEN state[c].generation
                  ELSE state[c].generation + 1]

Started(c, target) ==
  [target |-> target, active |-> TRUE, generation |-> state[c].generation + 1]

Start(c, target, delay) ==
  /\ MayAdd(delay)
  /\ c \in objects /\ target \in objects
  /\ state[c].generation < MaxGeneration
  /\ state' = [state EXCEPT ![c] = Started(c, target)]
  /\ Add(AutoEvent(c, delay, Started(c, target).generation))
  /\ UNCHANGED <<objects, dead, tick, processing, current>>

Stop(c) ==
  /\ c \in objects
  /\ state[c].active
  /\ state[c].generation < MaxGeneration
  /\ state' = [state EXCEPT ![c].active = FALSE, ![c].generation = @ + 1]
  /\ UNCHANGED <<objects, dead, queue, tick, processing, current>>

ScheduleAttack(c, target, delay) ==
  /\ MayAdd(delay)
  /\ c \in objects /\ target \in objects
  /\ Add([kind |-> "scheduled", tick |-> tick + delay,
          attacker |-> c, target |-> target])
  /\ UNCHANGED <<objects, dead, state, tick, processing, current>>

(* set_vitals, by the host or by the policy script: hurt or heal. *)
SetVitals(c) ==
  /\ c \in objects
  /\ dead' = IF c \in dead THEN dead \ {c} ELSE dead \cup {c}
  /\ UNCHANGED <<objects, state, queue, tick, processing, current>>

(* The entry of the creature in auto_attack_states and its events stay.     *)
DestroyObject(o) ==
  /\ o \in objects
  /\ objects' = objects \ {o}
  /\ dead' = dead \ {o}
  /\ UNCHANGED <<state, queue, tick, processing, current>>

Advance ==
  /\ ~processing
  /\ tick < MaxTick
  /\ tick' = tick + 1
  /\ UNCHANGED <<objects, dead, state, queue, processing, current>>

-----------------------------------------------------------------------------
(* EventSystem::process                                                     *)

ProcessStart ==
  /\ ~processing
  /\ processing' = TRUE
  /\ UNCHANGED <<objects, dead, state, queue, tick, current>>

(* The next due event leaves the queue before its callback looks at it.     *)
Pop(kind) ==
  /\ processing /\ ~InAttack
  /\ Due
  /\ Head(queue).kind = kind
  /\ queue' = Tail(queue)
  /\ UNCHANGED <<objects, dead, tick, processing>>

(* The event belongs to the chain that its attacker started last, and the   *)
(* chain has not been stopped.                                              *)
Follows(e) ==
  /\ e.attacker \in objects
  /\ state[e.attacker].active
  /\ state[e.attacker].generation = e.generation

Attackable(target) == target \in objects /\ target \notin dead

AutoAttackDropped ==
  /\ Pop("auto")
  /\ ~Follows(Head(queue))
  /\ UNCHANGED <<state, current>>

AutoAttackEnds ==
  /\ Pop("auto")
  /\ Follows(Head(queue))
  /\ ~Attackable(state[Head(queue).attacker].target)
  /\ state' = [state EXCEPT ![Head(queue).attacker].active = FALSE]
  /\ UNCHANGED current

AutoAttackResolves ==
  /\ Pop("auto")
  /\ Follows(Head(queue))
  /\ Attackable(state[Head(queue).attacker].target)
  /\ current' = Head(queue)
  /\ UNCHANGED state

(* The next event carries the generation of the payload, whatever was       *)
(* started or stopped during the attack.  The script is given an attacker   *)
(* and a number of ticks that a callback may have freed meanwhile: it may   *)
(* return anything for them, and fails with a cooldown of 1.                *)
AutoAttackResolved ==
  /\ InAttack /\ current.kind = "auto"
  /\ \E n \in Cooldowns \cup {1} :
       Add(AutoEvent(current.attacker, Cooldown(n), current.generation))
  /\ current' = NoEvent
  /\ UNCHANGED <<objects, dead, state, tick, processing>>

ScheduledAttackDropped ==
  /\ Pop("scheduled")
  /\ ~ {Head(queue).attacker, Head(queue).target} \subseteq objects
  /\ UNCHANGED <<state, current>>

(* A scheduled attack does not look whether its target is dead. *)
ScheduledAttackResolves ==
  /\ Pop("scheduled")
  /\ {Head(queue).attacker, Head(queue).target} \subseteq objects
  /\ current' = Head(queue)
  /\ UNCHANGED state

ScheduledAttackResolved ==
  /\ InAttack /\ current.kind = "scheduled"
  /\ current' = NoEvent
  /\ UNCHANGED <<objects, dead, state, queue, tick, processing>>

ProcessReturn ==
  /\ processing /\ ~InAttack
  /\ ~Due
  /\ processing' = FALSE
  /\ UNCHANGED <<objects, dead, state, queue, tick, current>>

Host ==
  \/ \E c \in Creature, target \in Object, delay \in Delays :
       Start(c, target, delay) \/ ScheduleAttack(c, target, delay)
  \/ \E c \in Creature : Stop(c) \/ SetVitals(c)
  \/ \E o \in Object : DestroyObject(o)
  \/ Advance
  \/ ProcessStart

Process ==
  \/ AutoAttackDropped \/ AutoAttackEnds
  \/ AutoAttackResolves \/ AutoAttackResolved
  \/ ScheduledAttackDropped
  \/ ScheduledAttackResolves \/ ScheduledAttackResolved
  \/ ProcessReturn

Next == Host \/ Process

(* process is a loop in one thread: once it runs it goes on.  The policy    *)
(* script ends, as it has a gas limit; the callbacks of the host return.    *)
Spec == Init /\ [][Next]_vars /\ WF_vars(Process)

-----------------------------------------------------------------------------
(* Properties                                                               *)

(* The events of the chain of c that would still attack, the one whose      *)
(* attack is being resolved included.                                       *)
Queued(c) ==
  Cardinality({i \in DOMAIN queue : queue[i].kind = "auto"
                 /\ queue[i].attacker = c /\ Follows(queue[i])})
InHand(c) ==
  IF InAttack /\ current.kind = "auto" /\ current.attacker = c /\ Follows(current)
  THEN 1 ELSE 0

(* A creature with an active auto attack has exactly one event that goes on *)
(* with it, and a stopped one has none: however often it is started,        *)
(* retargeted and stopped, also from inside its own attack, it neither      *)
(* attacks twice per cooldown nor stays active without attacking again      *)
(* (auto_attack_event_callback, start_auto_attack, stop_auto_attack).       *)
ChainExact ==
  \A c \in Creature \cap objects :
    Queued(c) + InHand(c) = IF state[c].active THEN 1 ELSE 0

(* process returns: an attack comes back later than the current tick, for   *)
(* every int the cooldown script returns (EventSystem::process,             *)
(* resolve_attack_cooldown_ticks).                                          *)
ProcessReturns == processing ~> ~processing
=============================================================================
