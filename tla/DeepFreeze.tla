------------------------------- MODULE DeepFreeze -------------------------------
(***************************************************************************)
(* deepFreeze (infra/utils/deep-freeze.ts), which makes the configuration  *)
(* of a client immutable: depth first, one call of freezeRecursive on the  *)
(* stack per object, whose properties come in any order.                   *)
(***************************************************************************)
EXTENDS Integers, Sequences

CONSTANT Objects

VARIABLES
    properties,     \* <<value, held>>: the object `held` is a property of `value`
    before,         \* the objects that were frozen already
    root,           \* the object to freeze, as a set: {} while there is none
    frozen,
    seen,           \* the WeakSet
    stack,          \* the objects whose properties are visited
    todo            \* what each of them still has to visit

heapVars == <<properties, before, root>>
freezeVars == <<heapVars, frozen, seen, stack, todo>>

\* The objects that the properties of `value` hold; primitives are left out.
Held(value) == {o \in Objects : <<value, o>> \in properties}

FreezeInit ==
    /\ properties = {} /\ before = {} /\ root = {}
    /\ frozen = {} /\ seen = {} /\ stack = <<>> /\ todo = [o \in Objects |-> {}]

\* deepFreeze(obj)
DeepFreeze ==
    /\ root = {}
    /\ properties' \in SUBSET (Objects \X Objects) /\ before' \in SUBSET Objects
    /\ \E o \in Objects :
          /\ root' = {o} /\ seen' = {o} /\ stack' = <<o>>
          /\ todo' = [p \in Objects |-> IF p = o THEN Held(o)' ELSE {}]
    /\ frozen' = before'

Current == stack[Len(stack)]

MutVisit ==
    /\ stack # <<>>
    /\ \E o \in todo[Current] :
          LET rest == [todo EXCEPT ![Current] = @ \ {o}]
          IN  \/ /\ o \notin seen \cup frozen
                 /\ seen' = seen \cup {o} /\ stack' = Append(stack, o)
                 /\ todo' = [rest EXCEPT ![o] = Held(o)]
              \/ o \in seen \cup frozen /\ todo' = rest /\ UNCHANGED <<seen, stack>>
    /\ UNCHANGED <<heapVars, frozen>>

\* freezeRecursive(propValue), of an object that it has not seen, or that it has.
Visit ==
    /\ stack # <<>>
    /\ \E o \in todo[Current] :
          LET rest == [todo EXCEPT ![Current] = @ \ {o}]
          IN  \/ /\ o \notin seen
                 /\ seen' = seen \cup {o} /\ stack' = Append(stack, o)
                 /\ todo' = [rest EXCEPT ![o] = Held(o)]
              \/ o \in seen /\ todo' = rest /\ UNCHANGED <<seen, stack>>
    /\ UNCHANGED <<heapVars, frozen>>

\* Object.freeze(value), when its properties are frozen or under way.
Freeze ==
    /\ stack # <<>> /\ todo[Current] = {}
    /\ frozen' = frozen \cup {Current} /\ stack' = SubSeq(stack, 1, Len(stack) - 1)
    /\ UNCHANGED <<heapVars, seen, todo>>

-----------------------------------------------------------------------------

Closed(objects) == \A o \in objects : Held(o) \subseteq objects

\* What can be reached from the root: what every closed set with the root has.
Reachable ==
    {o \in Objects : \A set \in SUBSET Objects : root \subseteq set /\ Closed(set) => o \in set}

\* Nothing that can be reached from a configuration that was frozen can be changed,
\* whatever cycles it has and whatever of it was frozen before, not deeply, and
\* nothing else is frozen (deepFreeze).
FrozenDeeply == root # {} /\ stack = <<>> => frozen = before \cup Reachable

=============================================================================
