-------------------------------- MODULE Heap --------------------------------
(***************************************************************************)
(* What a garbage collector promises to the program it serves, whatever    *)
(* its algorithm: objects disappear only when nothing leads to them, weak  *)
(* references disappear no later than their target, a finalizer is called  *)
(* at most once, on an object that is still there.                         *)
(***************************************************************************)
CONSTANTS Obj, Finalizable   \* Finalizable: objects that may have a finalizer

VARIABLES
  heap,     \* the objects a program may still touch
  strong,   \* strong[o]: what o keeps alive
  loose,    \* loose[o]: what o refers to without keeping it alive
  roots,    \* where the program starts from
  pending,  \* condemned objects kept until their finalizer has been called
  done      \* objects whose finalizer has been called or is pending

vars == <<heap, strong, loose, roots, pending, done>>

\* no path from the roots leads to an object of G; paths through objects of P
\* are not followed
Unreachable(G, P) ==
  \E S \in SUBSET heap :
    roots \subseteq S /\ S \cap G = {} /\ \A o \in S \ P : strong[o] \subseteq S

Init ==
  /\ heap \subseteq Obj /\ roots \subseteq heap /\ pending = {} /\ done = {}
  /\ strong \in [Obj -> SUBSET heap] /\ loose = [o \in Obj |-> {}]

\* after any step, references lead to objects that are there
Sound ==
  /\ roots' \subseteq heap' /\ heap' \subseteq Obj
  /\ \A o \in heap' : strong'[o] \cup loose'[o] \subseteq heap'

\* the program allocates, and changes references and roots as it likes
Mutate ==
  /\ heap \subseteq heap' /\ Sound
  /\ UNCHANGED <<pending, done>>

\* the collector forgets weak references, never a strong one
Forget ==
  /\ \A o \in heap : strong'[o] = strong[o] /\ loose'[o] \subseteq loose[o]
  /\ UNCHANGED <<heap, roots, pending, done>>

\* the collector finds objects of F unreachable, other than through objects
\* whose finalizer is already due; those of P will have theirs called
Condemn(F, P) ==
  /\ pending' = pending \cup P /\ done' = done \cup F
  /\ F \cap done = {} /\ Unreachable(F, pending)
  /\ \A o \in heap : strong'[o] \cup loose'[o] = strong[o] \cup loose[o]
  /\ UNCHANGED <<heap, roots>>

\* the collector removes unreachable objects and every reference to them; an
\* object with loose references may lose strong ones along with them
Collect(G) ==
  /\ heap' = heap \ G /\ done' = done \ G
  /\ \E S \in SUBSET heap' :
       roots \cup pending \subseteq S /\ \A o \in S : strong[o] \subseteq S
  /\ \A o \in heap' :
       /\ strong'[o] \subseteq strong[o] /\ (loose[o] = {} => strong'[o] = strong[o])
       /\ loose'[o] \subseteq loose[o] \ G
  /\ UNCHANGED <<roots, pending>>

\* a finalizer is called: its object is in the program's hands again
Finalize(o) ==
  /\ o \in pending
  /\ pending' = pending \ {o} /\ roots' \subseteq roots \cup {o}
  /\ Sound
  /\ UNCHANGED <<heap, done>>

Next ==
  \/ Mutate
  \/ Forget
  \/ \E F \in SUBSET Finalizable : \E P \in SUBSET F : Condemn(F, P)
  \/ \E G \in SUBSET heap : Collect(G)
  \/ \E o \in Finalizable : Finalize(o)

Spec == Init /\ [][Next]_vars
=============================================================================
