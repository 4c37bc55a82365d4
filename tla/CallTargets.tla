----------------------------- MODULE CallTargets -----------------------------
(***************************************************************************)
(* The edges that CallGraph::HandleBody gives a call: the methods that the *)
(* call graph says a virtual or an interface call may reach, read off the  *)
(* relations of the class hierarchy.  As there, a method is named by the   *)
(* klass that declares it.                                                 *)
(***************************************************************************)
EXTENDS KlassHierarchy

Declares(k) == hier.declares[k] # None

\* What a klass reaches by subclass links, itself included.
SubKlasses(k) ==
  LET Down[n \in 0 .. Cardinality(Known)] ==
        IF n = 0 THEN {k} ELSE LET d == Down[n-1] IN d \cup UNION {subklasses[x] : x \in d}
  IN  Down[Cardinality(Known)]

\* The nearest class above k that declares the method.
NearestAbove(k) ==
  LET above == {a \in SuperInterfaces(k) \ {k} : Declares(a)}
  IN  {a \in above : above \subseteq SuperInterfaces(a)}

\* Mutant: only from the class of the call downwards.
VirtualCalleesBelow(k) == {s \in SubKlasses(k) : Declares(s)}

VirtualCallees(k) ==
  {s \in SubKlasses(k) : Declares(s)} \cup (IF Declares(k) THEN {} ELSE NearestAbove(k))

\* Subinterfaces and superinterfaces count only for static methods, so not here.
InterfaceCallees(i) == {k \in implKlasses[i] \cup {i} : Declares(k)}

----------------------------------------------------------------------------
\* The methods that a call on objects of class k or below runs.
Reached(k) == UNION {Dispatch(s) : s \in {s \in hier.class : k \in Ancestors(s)}}

(* "So callee is always compiled before caller" (callgraph.cpp:1435) needs an edge
   to what a call may run.  A virtual call has the edge to every method of a class:
   the class of the call has it, inherits it, or only a subclass has it.  Default
   methods are excepted: HandleBody climbs superclasses only, and where an object
   runs a default method of its interfaces the caller has no edge to it. *)
VirtualCallsReachClassMethods ==
  Counted => \A k \in hier.class : Reached(k) \cap hier.class \subseteq VirtualCallees(k)

(* An interface call has the edge to its own default method and to the methods of the
   classes that implement the interface, be it that only a superclass or another
   interface says so.  Excepted are a method inherited from a class that does not
   implement the interface and the default methods of other interfaces: they have no
   edge. *)
InterfaceCallsReachImplementers ==
  Counted => \A i \in Known \ hier.class :
    Reached(i) \cap ({i} \cup {k \in hier.class : i \in Ancestors(k)}) \subseteq InterfaceCallees(i)

(* A method of a class is a callee of the virtual calls that run it, and of the calls
   of the interfaces that its class implements. *)
ClassMethodsAreCallees == VirtualCallsReachClassMethods /\ InterfaceCallsReachImplementers
=============================================================================
