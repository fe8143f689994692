---------------------------- MODULE DiContainer ----------------------------
(***************************************************************************)
(* The dependency injection container of layer3 (di.hpp): bindings per key *)
(* and type, services built on demand, the members of aggregates injected, *)
(* cycles detected.                                                        *)
(*                                                                         *)
(* Every operation holds the recursive mutex from its first line to its    *)
(* last, factories included, so an operation is one step.  The recursion   *)
(* of the operation is over a record s: the container and, of the call in  *)
(* progress, the exception in flight and the instance being returned.      *)
(* Instances are numbers.  A factory resolves some services and gives an   *)
(* instance, a null pointer or an exception; it registers nothing.         *)
(* Members that injection passes over (const, or neither a pointer nor of  *)
(* a class) are left out, and a value member can be copied.                *)
(***************************************************************************)
EXTENDS Integers, Sequences, FiniteSets

CONSTANTS Services,     \* the types T
          Names,        \* the keys; "" is the table without a key
          Shapes,       \* what the types may look like, see ShapeType
          Factories,    \* the factories that may be registered
          MaxDiCalls    \* bound on the calls

VARIABLES shape,    \* of each type: how it is constructed and its members
          di,       \* bindings_, keyed_bindings_, resolving_, instances made
          verdict,   \* how the last call ended, and what it should have
          di_calls

diVars == <<shape, di, verdict, di_calls>>

Members == {"shared_ptr", "pointer", "value"}
ShapeType == [Services -> [ctor : {"aggregate", "class", "none"},
                           members : Seq([type : Services, as : Members])]]
ASSUME DiAssumption == Shapes \subseteq ShapeType /\ "" \in Names /\ MaxDiCalls \in Nat

Slots == Names \X Services
Default(type) == <<"", type>>
NoCall == "no call yet"
NoInstance == 0

Binding(lifetime, factory, cached) ==
  [lifetime |-> lifetime, factory |-> factory, cached |-> cached]
\* make_auto_binding
AutoBinding == Binding("Singleton", [kind |-> "default", needs |-> <<>>], NoInstance)

DiInit ==
  /\ shape \in Shapes
  /\ di = [bindings |-> <<>>, resolving |-> {}, made |-> 0, given |-> [n \in Slots |-> {}]]
  /\ verdict = [end |-> NoCall, cyclic |-> FALSE]
  /\ di_calls = 0

----------------------------------------------------------------------------
Bound(s, slot) == slot \in DOMAIN s.bindings
Bind(s, slot, binding) ==
  [s EXCEPT !.bindings = [n \in DOMAIN @ \cup {slot} |-> IF n = slot THEN binding ELSE @[n]]]
\* table_for_key, find, emplace
EnsureBound(s, slot) == IF Bound(s, slot) THEN s ELSE Bind(s, slot, AutoBinding)

Fails(s, what) == [s EXCEPT !.exc = what]
Failed(s) == s.exc # "none"
New(s) == [s EXCEPT !.made = @ + 1, !.value = s.made + 1]

\* has_binding under the key decides between the key and the default.
Preferred(s, key, type) == IF key # "" /\ Bound(s, <<key, type>>) THEN <<key, type>> ELSE Default(type)

\* A value member that is no aggregate is left alone while it has no binding.
Injected(s, member, key) ==
  \/ member.as \in {"shared_ptr", "pointer"}
  \/ Bound(s, Preferred(s, key, member.type))
  \/ shape[member.type].ctor = "aggregate"

\* ~ResolutionGuard
\* Mutant: the mark is erased on the way out without an exception only.
LeaveOnReturn(s, slot) == IF Failed(s) THEN s ELSE [s EXCEPT !.resolving = @ \ {slot}]
Leave(s, slot) == [s EXCEPT !.resolving = @ \ {slot}]

\* The instance goes out; a singleton's is kept in its binding.
Deliver(s, slot) ==
  [s EXCEPT !.bindings[slot].cached = IF s.bindings[slot].lifetime = "Singleton" THEN s.value ELSE @,
            !.given[slot] = @ \cup {s.value}]

RECURSIVE ResolveShared(_, _), ResolveRef(_, _), InjectAll(_, _, _), ResolveAll(_, _)

\* construct_default
ConstructDefault(s, type) ==
  IF shape[type].ctor = "none" THEN Fails(s, "not constructible")
  ELSE LET made == New(s)
       IN [InjectAll(made, shape[type].members, "") EXCEPT !.value = made.value]

\* binding.factory(*this)
CallFactory(s, factory, type) ==
  CASE factory.kind = "default" -> ConstructDefault(s, type)
    [] factory.kind = "value" ->
         LET ready == ResolveAll(s, factory.needs) IN IF Failed(ready) THEN ready ELSE New(ready)
    [] factory.kind = "null" -> Fails(s, "null")
    [] factory.kind = "throws" -> Fails(s, "factory")
    [] factory.kind = "instance" -> Fails(s, "internal error")

\* resolve_shared_impl
ResolveShared(s, slot) ==
  LET bound == EnsureBound(s, slot)
      binding == bound.bindings[slot]
      built == CallFactory([bound EXCEPT !.resolving = @ \cup {slot}], binding.factory, slot[2])
  IN IF binding.lifetime = "Singleton" /\ binding.cached # NoInstance
     THEN Deliver([bound EXCEPT !.value = binding.cached], slot)
     ELSE IF slot \in bound.resolving THEN Fails(bound, "cycle")
     ELSE Leave(IF Failed(built) THEN built ELSE Deliver(built, slot), slot)

\* resolve_ref_impl
ResolveRef(s, slot) ==
  LET bound == EnsureBound(s, slot)
  IN IF bound.bindings[slot].lifetime = "Transient" THEN Fails(bound, "transient")
     ELSE ResolveShared(bound, slot)

\* inject_impl and resolve_member, member by member; a class has none.
InjectAll(s, members, key) ==
  IF members = <<>> \/ Failed(s) THEN s
  ELSE LET m == Head(members)
           slot == Preferred(s, key, m.type)
           done == IF ~Injected(s, m, key) THEN s
                   ELSE IF m.as = "shared_ptr" THEN ResolveShared(s, slot)
                   ELSE ResolveRef(s, slot)
       IN InjectAll(done, Tail(members), key)

\* What a factory asks the container it is given for, in its order.
ResolveAll(s, needs) ==
  IF needs = <<>> \/ Failed(s) THEN s
  ELSE ResolveAll(ResolveShared(s, Head(needs)), Tail(needs))

----------------------------------------------------------------------------
\* What the service of a slot depends on as things stand, the slot being
\* bound or not: nothing when the instance exists.
DependsOn(slot) ==
  LET binding == IF Bound(di, slot) THEN di.bindings[slot] ELSE AutoBinding
      members == shape[slot[2]].members
  IN IF binding.lifetime = "Singleton" /\ binding.cached # NoInstance THEN {}
     ELSE IF binding.factory.kind = "default" THEN {Default(members[i].type) : i \in DOMAIN members}
     ELSE {binding.factory.needs[i] : i \in DOMAIN binding.factory.needs}
\* Some service that `slots` need, directly or not, needs itself.
NeedsItself(slots) ==
  LET needs == [n \in Slots |-> DependsOn(n)]
      closed == {c \in SUBSET Slots : \A n \in c : needs[n] \subseteq c}
      Reached(from) == {n \in Slots : \A c \in closed : from \subseteq c => n \in c}
  IN \E n \in Reached(slots) : n \in Reached(needs[n])

Called(s, roots) ==
  /\ di_calls < MaxDiCalls /\ di_calls' = di_calls + 1
  /\ di' = [n \in DOMAIN di |-> s[n]]
  /\ verdict' = [end |-> s.exc, cyclic |-> NeedsItself(roots)]
  /\ UNCHANGED shape
Running == [n \in DOMAIN di \cup {"exc", "value"} |->
              CASE n = "exc" -> "none" [] n = "value" -> NoInstance [] OTHER -> di[n]]

\* singleton and transient: a binding replaces the one before it.
Rebind(slot, binding) == [Bind(Running, slot, binding) EXCEPT !.given[slot] = {}]
SingletonInstance(slot) ==
  LET s == New(Running)
  IN Called([Rebind(slot, Binding("Singleton", [kind |-> "instance", needs |-> <<>>], s.value))
               EXCEPT !.made = s.made], {})
SingletonNull == Called(Fails(Running, "null instance"), {})
SingletonFactory(slot, factory) ==
  Called(Rebind(slot, Binding("Singleton", factory, NoInstance)), {})
Transient(slot, factory) ==
  Called(Rebind(slot, Binding("Transient", factory, NoInstance)), {})

Resolve(slot) == Called(ResolveRef(Running, slot), {slot})
ResolveSharedCall(slot) == Called(ResolveShared(Running, slot), {slot})
\* inject(object, key) of an object of the caller's, of type t
Inject(key, t) ==
  LET members == shape[t].members
  IN Called(InjectAll(Running, members, key),
            {Preferred(di, key, members[i].type) : i \in DOMAIN members})

DiNext ==
  \/ \E slot \in Slots :
       \/ SingletonInstance(slot) \/ Resolve(slot) \/ ResolveSharedCall(slot)
       \/ \E f \in Factories : SingletonFactory(slot, f) \/ Transient(slot, f)
  \/ SingletonNull
  \/ \E key \in Names, t \in Services : shape[t].ctor = "aggregate" /\ Inject(key, t)

----------------------------------------------------------------------------
\* The container after any history of registrations and of calls that gave a
\* service or failed part of the way.  No call leaves a mark in resolving_.
\* Since it was registered, a singleton has been one and the same instance
\* to everyone who was given it, members of other services included.  A call
\* reports a cycle when a service that it needs, and that does not exist yet,
\* needs itself, and a call that succeeds needed no such service.
ServicesAreSound ==
  /\ di.resolving = {}
  /\ \A slot \in DOMAIN di.bindings :
       di.bindings[slot].lifetime = "Singleton" => Cardinality(di.given[slot]) <= 1
  /\ verdict.end = "cycle" => verdict.cyclic
  /\ verdict.end = "none" => ~verdict.cyclic
  /\ verdict.end # "internal error"
=============================================================================
