-------------------------- MODULE GuardedResource --------------------------
(***************************************************************************)
(* What a finalizer is for, apart from any controller: an object that may  *)
(* hold a resource outside the API server is marked before it can get one, *)
(* and a marked object cannot go before the resource has.                  *)
(*                                                                         *)
(* IPUpdate implements this with its finalizer and the NetBox record that  *)
(* an IPAddress is annotated with (ipupdate_controller.go:100-182).        *)
(***************************************************************************)
CONSTANT Object

VARIABLES
    stage,  \* where every object is in its life
    held    \* the objects that hold a resource

vars == <<stage, held>>

\* The stages are the phases of IPUpdate: "guarded" and "deleting" objects
\* carry the mark, "deleting" and "released" ones are to be deleted.
Stage == {"gone", "bare", "guarded", "deleting", "released"}

TypeOK ==
    /\ stage \in [Object -> Stage]
    /\ held \subseteq Object

Init ==
    /\ stage = [o \in Object |-> "gone"]
    /\ held = {}

Move(o, from, to) ==
    /\ stage[o] = from
    /\ stage' = [stage EXCEPT ![o] = to]
    /\ UNCHANGED held

\* The users of the object, and others who guard it.
Create(o) == Move(o, "gone", "bare")

RequestDelete(o) ==
    \/ Move(o, "guarded", "deleting")
    \/ Move(o, "bare", "released")
    \/ Move(o, "bare", "gone")

Leave(o) == Move(o, "released", "gone")

\* The controller.
Guard(o) == Move(o, "bare", "guarded")

Acquire(o) ==
    /\ stage[o] \in {"guarded", "deleting"}
    /\ held' = held \cup {o}
    /\ UNCHANGED stage

Release(o) ==
    /\ stage[o] = "deleting"
    /\ held' = held \ {o}
    /\ UNCHANGED stage

Finish(o) ==
    /\ o \notin held
    /\ Move(o, "deleting", "released") \/ Move(o, "deleting", "gone")

Next ==
    \E o \in Object :
        \/ Create(o) \/ RequestDelete(o) \/ Leave(o)
        \/ Guard(o) \/ Acquire(o) \/ Release(o) \/ Finish(o)

Spec == Init /\ [][Next]_vars

-----------------------------------------------------------------------------
\* What it is for: only a marked object holds a resource, and with the object
\* the resource is gone.
HeldMeansGuarded == \A o \in held : stage[o] \in {"guarded", "deleting"}
=============================================================================
