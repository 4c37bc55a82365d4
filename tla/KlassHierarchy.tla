--------------------------- MODULE KlassHierarchy ---------------------------
(***************************************************************************)
(* The class hierarchy (class_hierarchy.cpp): the phase links each class   *)
(* and interface with its parents, sorts them parents first, and counts,   *)
(* for a virtual method, the implementations a call may reach.             *)
(*                                                                         *)
(* Names are visited in the order of strIdx2KlassMap.  One signature is    *)
(* enough, since the candidates of one never meet those of another; the    *)
(* method a klass declares is named by the klass.  A name that is not in   *)
(* order is a type of which the module has no definition.                  *)
(***************************************************************************)
EXTENDS Integers, Sequences, FiniteSets, SequencesExt

CONSTANTS
    Hierarchies   \* records [order, class, super, interfaces, declares]

None == "none"

VARIABLES
    hier,         \* the types of the module
    phase,        \* "relate", "update", "sort", "topdown", "bottomup", "counted", or later
    pos,          \* the place of that phase's loop
    superklasses, subklasses, implKlasses, implInterfaces,
    topoWorklist,
    cands         \* strIdx2CandidateMap, <<>> where it has no entry

khVars == <<hier, superklasses, subklasses, implKlasses, implInterfaces, topoWorklist, cands>>

Known == Range(hier.order)
IsClass(k) == k \in hier.class
Ascending(S) == SelectSeq(hier.order, LAMBDA k : k \in S)

----------------------------------------------------------------------------
\* AddKlassRelationAndMethods: what one klass adds to the relations.
RelateInterface(k) ==
  LET parents == hier.interfaces[k] \cap Known IN
  /\ superklasses' = [superklasses EXCEPT ![k] = Ascending(parents)]
  /\ subklasses' = [p \in Known |-> subklasses[p] \cup (IF p \in parents THEN {k} ELSE {})]
  /\ UNCHANGED <<implKlasses, implInterfaces>>

RelateClass(k) ==
  LET super == {hier.super[k]} \cap Known
      new   == (hier.interfaces[k] \cap Known) \cup UNION {implInterfaces[s] : s \in super}
  IN  /\ superklasses' = [superklasses EXCEPT ![k] = Ascending(super)]
      /\ subklasses' = [p \in Known |-> subklasses[p] \cup (IF p \in super THEN {k} ELSE {})]
      /\ implInterfaces' = [implInterfaces EXCEPT ![k] = @ \cup new]
      /\ implKlasses' = [i \in Known |-> implKlasses[i] \cup (IF i \in new THEN {k} ELSE {})]

\* The loops over strIdx2KlassMap: the next place, or the next phase.
Loop(next) ==
  IF pos < Len(hier.order) THEN pos' = pos + 1 /\ phase' = phase
                           ELSE pos' = 1 /\ phase' = next

AddKlassRelation ==
  /\ phase = "relate"
  /\ LET k == hier.order[pos] IN IF IsClass(k) THEN RelateClass(k) ELSE RelateInterface(k)
  /\ Loop("update")
  /\ UNCHANGED <<hier, topoWorklist, cands>>

\* CollectImplInterfaces: the interfaces above k by any path of known links.
CollectImplInterfaces(k) ==
  LET Above[n \in 0 .. Cardinality(Known)] ==
        IF n = 0 THEN {k}
        ELSE LET a == Above[n-1]
             IN  a \cup UNION {Range(superklasses[x]) \cup implInterfaces[x] : x \in a}
  IN  {i \in Above[Cardinality(Known)] : i # k /\ ~IsClass(i)}

UpdateImplementedInterfaces ==
  /\ phase = "update"
  /\ LET k   == hier.order[pos]
         new == IF IsClass(k) THEN CollectImplInterfaces(k) ELSE {}
     IN  /\ implInterfaces' = [implInterfaces EXCEPT ![k] = @ \cup new]
         /\ implKlasses' = [i \in Known |-> implKlasses[i] \cup (IF i \in new THEN {k} ELSE {})]
  /\ Loop("sort")
  /\ UNCHANGED <<hier, superklasses, subklasses, topoWorklist, cands>>

----------------------------------------------------------------------------
GetParentKlasses(k) == Range(superklasses[k]) \cup (IF IsClass(k) THEN implInterfaces[k] ELSE {})

GetChildKlasses(k) ==
  Ascending(subklasses[k]) \o (IF IsClass(k) THEN <<>> ELSE Ascending(implKlasses[k]))

\* A class that names interfaces is no root, whether they are known or not.
ImplementsKlass(k) == IsClass(k) /\ hier.interfaces[k] # {}

IsRoot(k) == superklasses[k] = <<>> /\ ~ImplementsKlass(k)

\* The worklist after the children of one klass were looked at in turn.
PushChildren(list, children) ==
  LET Push[i \in 0 .. Len(children)] ==
        IF i = 0 THEN list
        ELSE LET l == Push[i-1]
                 c == children[i]
             IN  IF c \notin Range(l) /\ GetParentKlasses(c) \subseteq Range(l)
                 THEN Append(l, c) ELSE l
  IN  Push[Len(children)]

SortRoots ==
  /\ phase = "sort" /\ pos = 1 /\ topoWorklist = <<>>
  /\ topoWorklist' = SelectSeq(hier.order, IsRoot)
  /\ phase' = IF topoWorklist' = <<>> THEN "topdown" ELSE phase
  /\ UNCHANGED <<hier, pos, superklasses, subklasses, implKlasses, implInterfaces, cands>>

SortNext ==
  /\ phase = "sort" /\ topoWorklist # <<>>
  /\ topoWorklist' = PushChildren(topoWorklist, GetChildKlasses(topoWorklist[pos]))
  /\ IF pos < Len(topoWorklist') THEN pos' = pos + 1 /\ phase' = phase
                                 ELSE pos' = 1 /\ phase' = "topdown"
  /\ UNCHANGED <<hier, superklasses, subklasses, implKlasses, implInterfaces, cands>>

----------------------------------------------------------------------------
\* What a klass reaches by superclass links, itself included.
SuperInterfaces(k) ==
  LET Up[n \in 0 .. Cardinality(Known)] ==
        IF n = 0 THEN {k}
        ELSE LET u == Up[n-1] IN u \cup UNION {Range(superklasses[x]) : x \in u}
  IN  Up[Cardinality(Known)]

IsSuperKlassForInterface(super, base) ==
  ~IsClass(super) /\ ~IsClass(base) /\ super \in SuperInterfaces(base)

\* A parent's candidate against the one found so far.
Override(mine, theirs) ==
  CASE theirs = <<>> -> mine
    [] mine = <<>> -> <<theirs[1]>>
    [] OTHER -> IF ~IsClass(theirs[1]) /\ ~IsSuperKlassForInterface(mine[1], theirs[1])
                THEN mine ELSE <<theirs[1]>>

\* The interfaces a class names come first, since they have lowest priority.
SuperAndImplClasses(k) ==
  (IF IsClass(k) THEN Ascending(hier.interfaces[k]) ELSE <<>>) \o superklasses[k]

Inherited(k) ==
  LET parents == SuperAndImplClasses(k)
      Upto[i \in 0 .. Len(parents)] ==
        IF i = 0 THEN cands[k] ELSE LET mine == Upto[i-1] IN Override(mine, cands[parents[i]])
  IN  Upto[Len(parents)]

CountVirtMethTopDown(k) == IF hier.declares[k] = "concrete" THEN <<k>> ELSE Inherited(k)

\* Mutant: a subclass that has the method from this class adds nothing.
JoinedUnlessSame(mine, theirs) ==
  IF mine = <<>> \/ theirs = <<>> \/ theirs[1] = mine[1] THEN mine ELSE mine \o theirs

\* A subclass that has the method from this class would count it twice.
Joined(mine, theirs) ==
  IF mine = <<>> \/ theirs = <<>> THEN mine
  ELSE mine \o (IF theirs[1] = mine[1] THEN Tail(theirs) ELSE theirs)

CountVirtMethBottomUp(k) ==
  LET subs == Ascending(subklasses[k])
      Upto[i \in 0 .. Len(subs)] ==
        IF i = 0 THEN cands[k] ELSE LET mine == Upto[i-1] IN Joined(mine, cands[subs[i]])
  IN  Upto[Len(subs)]

CountTopDown ==
  /\ phase = "topdown"
  /\ IF pos <= Len(topoWorklist)
     THEN /\ LET k == topoWorklist[pos] IN cands' = [cands EXCEPT ![k] = CountVirtMethTopDown(k)]
          /\ pos' = pos + 1 /\ phase' = phase
     ELSE pos' = Len(topoWorklist) /\ phase' = "bottomup" /\ cands' = cands
  /\ UNCHANGED <<hier, superklasses, subklasses, implKlasses, implInterfaces, topoWorklist>>

CountBottomUp ==
  /\ phase = "bottomup"
  /\ IF pos >= 1
     THEN /\ LET k == topoWorklist[pos] IN cands' = [cands EXCEPT ![k] = CountVirtMethBottomUp(k)]
          /\ pos' = pos - 1 /\ phase' = phase
     ELSE pos' = 1 /\ phase' = "counted" /\ cands' = cands
  /\ UNCHANGED <<hier, superklasses, subklasses, implKlasses, implInterfaces, topoWorklist>>

----------------------------------------------------------------------------
KHInit ==
  /\ hier \in Hierarchies
  /\ phase = "relate" /\ pos = 1
  /\ superklasses = [k \in Known |-> <<>>]
  /\ subklasses = [k \in Known |-> {}]
  /\ implKlasses = [k \in Known |-> {}]
  /\ implInterfaces = [k \in Known |-> {}]
  /\ topoWorklist = <<>>
  /\ cands = [k \in Known |-> <<>>]

KHNext ==
  \/ AddKlassRelation \/ UpdateImplementedInterfaces
  \/ SortRoots \/ SortNext
  \/ CountTopDown \/ CountBottomUp

----------------------------------------------------------------------------
(* Java's rules, over the declarations of the types alone. *)

Parents(k) == ({hier.super[k]} \cup hier.interfaces[k]) \cap Known

Ancestors(k) ==
  LET Up[n \in 0 .. Cardinality(Known)] ==
        IF n = 0 THEN {k} ELSE LET u == Up[n-1] IN u \cup UNION {Parents(x) : x \in u}
  IN  Up[Cardinality(Known)]

\* The first declaration on the way from a class to the top.
ClassMethod(k) ==
  LET chain == {a \in Ancestors(k) : IsClass(a) /\ hier.declares[a] # None}
  IN  {a \in chain : chain \cap Ancestors(a) = chain}

\* The declarations of the interfaces above k that no other one is below of.
MaximallySpecific(k) ==
  LET decls == {i \in Ancestors(k) : ~IsClass(i) /\ hier.declares[i] # None}
  IN  {i \in decls : \A j \in decls \ {i} : i \notin Ancestors(j)}

\* The method a call on an object of class k runs, as a set with at most one member.
Dispatch(k) ==
  IF ClassMethod(k) # {} THEN {m \in ClassMethod(k) : hier.declares[m] = "concrete"}
  ELSE LET defaults == {i \in MaximallySpecific(k) : hier.declares[i] = "concrete"}
       IN  IF Cardinality(defaults) = 1 THEN defaults ELSE {}

Counted == phase = "counted"

\* Nothing above k is missing from the module.
Complete(k) ==
  \A a \in Ancestors(k) : hier.interfaces[a] \subseteq Known /\ hier.super[a] \in Known \cup {None}

(* The relations name klasses of the module, and the worklist each of them at most once. *)
KHTypeOK ==
  /\ pos \in 0 .. Cardinality(Known) + 1
  /\ \A k \in Known : /\ Range(superklasses[k]) \cup subklasses[k] \cup implKlasses[k]
                         \cup implInterfaces[k] \cup Range(cands[k]) \subseteq Known
                      /\ IsClass(k) => Len(superklasses[k]) <= 1
  /\ \A i, j \in 1 .. Len(topoWorklist) : topoWorklist[i] = topoWorklist[j] => i = j

(* After UpdateImplementedInterfaces a class has every interface above it, by
   classes and by interfaces, whatever the order the names were visited in. *)
InterfacesAreClosed ==
  phase \in {"sort", "topdown", "bottomup", "counted"} =>
    \A k \in hier.class :
      /\ implInterfaces[k] = {i \in Ancestors(k) : ~IsClass(i)}
      /\ \A i \in Known : k \in implKlasses[i] <=> i \in implInterfaces[k]

\* No link into the module leads to k or to something above it, yet it has interfaces.
Unlinked(k) == \E a \in Ancestors(k) : Parents(a) = {} /\ ImplementsKlass(a)

(* TopologicalSortKlasses visits every klass that a root leads to, after all of
   its parents; vtables are laid out in this order. *)
ParentsAreFirst ==
  /\ \A i \in 1 .. Len(topoWorklist) :
       Parents(topoWorklist[i]) \subseteq Range(SubSeq(topoWorklist, 1, i - 1))
  /\ phase \in {"topdown", "bottomup", "counted"} =>
       Range(topoWorklist) = {k \in Known : ~Unlinked(k)}

(* GetClosestMethod, which superclass calls and the SSA devirtualisation are
   bound with, is the method an object of the class runs. *)
ClosestMethodIsRun ==
  Counted => \A k \in hier.class :
    ~Unlinked(k) /\ Dispatch(k) # {} => cands[k] # <<>> /\ cands[k][1] \in Dispatch(k)

(* When GetUniqueMethod names a method of a class, every object of the class and
   of its subclasses runs that one. *)
UniqueMethodIsUnique ==
  Counted => \A k \in hier.class :
    ~Unlinked(k) /\ Len(cands[k]) = 1 =>
      \A sub \in hier.class :
        k \in Ancestors(sub) /\ ~Unlinked(sub) => Dispatch(sub) \subseteq {cands[k][1]}

(* The relations, their order and the counted candidates are those of the
   declarations, by Java's rules. *)
CandidatesAreRight ==
  KHTypeOK /\ InterfacesAreClosed /\ ParentsAreFirst /\ ClosestMethodIsRun /\ UniqueMethodIsUnique
=============================================================================
