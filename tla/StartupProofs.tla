---------------------------- MODULE StartupProofs ----------------------------
(***************************************************************************)
(* Theorems about Startup, for any processes, classes and imports.         *)
(***************************************************************************)
EXTENDS Startup, TLAPS

-----------------------------------------------------------------------------
(***************************************************************************)
(* The inductive invariant.                                                *)
(***************************************************************************)

\* What a phase of p is done with is in the catalog or in its transaction; what it has
\* found to be missing was not there when it began.
Progress(p) ==
    /\ pc[p] = "inspect" =>
           \A c \in Mapped(p) \ (ToSet(todo[p]) \cup ToSet(missing[p])) : Table(c) \in catalog
    /\ pc[p] \in {"check", "types"} =>
           /\ \A c \in Mapped(p) \ ToSet(missing[p]) : Table(c) \in catalog
           /\ \A c \in Mapped(p) \ ToSet(todo[p]) : Types(c) \in catalog \cup made[p]
    /\ pc[p] = "types" => todo[p] # <<>> /\ Types(Head(todo[p])) \notin before[p]
    /\ pc[p] = "table" =>
           /\ todo[p] # <<>>
           /\ \A c \in Mapped(p) : Types(c) \in catalog \cup made[p]
           /\ \A c \in Mapped(p) \ ToSet(todo[p]) : Table(c) \in catalog \cup made[p]
           /\ \A c \in ToSet(todo[p]) : Table(c) \notin before[p]
    /\ pc[p] = "commit" => \A c \in Mapped(p) : Table(c) \in catalog \cup made[p]
    /\ pc[p] \in {"started", "serving"} => \A c \in Mapped(p) : Table(c) \in catalog
    /\ pc[p] \in {"inspect", "check", "types"} =>
           \A c \in ToSet(missing[p]) : Table(c) \notin before[p]

\* What p has created is whole but for the tables it is still to create.
MadeWhole(p) ==
    /\ \A c \in ToSet(Classes) : Table(c) \in made[p] => Types(c) \in made[p]
    /\ \A c \in ToSet(Classes) : Types(c) \in made[p] =>
           \/ Table(c) \in made[p]
           \/ pc[p] \in {"check", "types"} /\ c \in ToSet(missing[p])
           \/ pc[p] = "table" /\ c \in ToSet(todo[p])
    /\ pc[p] \notin {"check", "types", "table", "commit"} => made[p] = {}

IInv ==
    /\ TypeOK /\ WholeClasses
    /\ \A p \in Processes : Progress(p) /\ MadeWhole(p) /\ before[p] \subseteq catalog

-----------------------------------------------------------------------------
(***************************************************************************)
(* Sequences and names.                                                    *)
(***************************************************************************)

LEMMA HeadAndTail ==
    ASSUME NEW S, NEW s \in Seq(S), s # <<>>
    PROVE  /\ Head(s) \in ToSet(s) /\ Head(s) \in S
           /\ Tail(s) \in Seq(S)
           /\ ToSet(s) = {Head(s)} \cup ToSet(Tail(s))
  <1>1. Len(s) \in Nat \ {0} /\ Head(s) = s[1] /\ 1 \in DOMAIN s
    OBVIOUS
  <1>2. /\ Tail(s) \in Seq(S)
        /\ DOMAIN Tail(s) = 1..(Len(s) - 1)
        /\ \A i \in 1..(Len(s) - 1) : Tail(s)[i] = s[i + 1]
    OBVIOUS
  <1>3. ToSet(s) \subseteq {Head(s)} \cup ToSet(Tail(s))
    <2> SUFFICES ASSUME NEW i \in 1..Len(s), i # 1 PROVE s[i] \in ToSet(Tail(s))
      BY <1>1 DEF ToSet
    <2>1. i - 1 \in 1..(Len(s) - 1) /\ s[i] = Tail(s)[i - 1]
      BY <1>1, <1>2
    <2>2. QED
      BY <1>2, <2>1 DEF ToSet
  <1>4. ToSet(Tail(s)) \subseteq ToSet(s)
    BY <1>1, <1>2 DEF ToSet
  <1>5. QED
    BY <1>1, <1>2, <1>3, <1>4 DEF ToSet

LEMMA AppendSet ==
    ASSUME NEW S, NEW s \in Seq(S), NEW x \in S
    PROVE  Append(s, x) \in Seq(S) /\ ToSet(Append(s, x)) = ToSet(s) \cup {x}
  <1>1. /\ Append(s, x) \in Seq(S)
        /\ DOMAIN Append(s, x) = 1..(Len(s) + 1)
        /\ Append(s, x)[Len(s) + 1] = x
        /\ \A i \in 1..Len(s) : Append(s, x)[i] = s[i]
        /\ DOMAIN s = 1..Len(s) /\ Len(s) \in Nat
    OBVIOUS
  <1>2. QED
    BY <1>1 DEF ToSet

LEMMA Names ==
    /\ \A c, d : /\ Table(c) # Types(d)
                 /\ Table(c) = Table(d) => c = d
                 /\ Types(c) = Types(d) => c = d
    /\ \A c \in ToSet(Classes) : Table(c) \in Objects /\ Types(c) \in Objects
  BY DEF Table, Types, Objects

\* A process imports mapped classes.
LEMMA Imports ==
    ASSUME NEW p \in Processes
    PROVE  Imported[p] \in Seq(ToSet(Classes)) /\ Mapped(p) \subseteq ToSet(Classes)
  BY ImportsAssumption DEF Mapped, ToSet

LEMMA InitIInv == Init => IInv
  <1> SUFFICES ASSUME Init PROVE IInv
    OBVIOUS
  <1>1. TypeOK
    BY ImportsAssumption DEF Init, TypeOK, ToSet
  <1>2. WholeClasses
    BY DEF Init, WholeClasses
  <1>3. ASSUME NEW p \in Processes
        PROVE  Progress(p) /\ MadeWhole(p) /\ before[p] \subseteq catalog
    BY DEF Init, Progress, MadeWhole
  <1>4. QED
    BY <1>1, <1>2, <1>3 DEF IInv

-----------------------------------------------------------------------------
(***************************************************************************)
(* The steps.                                                              *)
(***************************************************************************)

\* The other processes stand where they stood.
Others(p) ==
    \A q \in Processes \ {p} :
        /\ pc'[q] = pc[q] /\ todo'[q] = todo[q] /\ missing'[q] = missing[q]
        /\ before'[q] = before[q] /\ made'[q] = made[q]

\* Nothing is ever removed from the catalog, so a step disturbs only what the invariant
\* says of the process that takes it.
LEMMA ProcessStep ==
    ASSUME IInv, NEW p \in Processes, TypeOK', WholeClasses', Others(p), catalog \subseteq catalog',
           Progress(p)', MadeWhole(p)', before'[p] \subseteq catalog'
    PROVE  IInv'
  <1>1. ASSUME NEW q \in Processes, q # p
        PROVE  Progress(q)' /\ MadeWhole(q)' /\ before'[q] \subseteq catalog'
    <2>1. Progress(q) /\ MadeWhole(q) /\ before[q] \subseteq catalog
      BY DEF IInv
    <2>2. /\ pc'[q] = pc[q] /\ todo'[q] = todo[q] /\ missing'[q] = missing[q]
          /\ before'[q] = before[q] /\ made'[q] = made[q]
      BY <1>1 DEF Others
    <2>3. Progress(q)'
      BY <2>1, <2>2 DEF Progress
    <2>4. MadeWhole(q)'
      BY <2>1, <2>2 DEF MadeWhole
    <2>5. QED
      BY <2>1, <2>2, <2>3, <2>4
  <1>2. QED
    BY <1>1 DEF IInv

\* What the invariant says of p and its sequences.
LEMMA OwnPart ==
    ASSUME IInv, NEW p \in Processes
    PROVE  /\ TypeOK /\ WholeClasses /\ Progress(p) /\ MadeWhole(p) /\ before[p] \subseteq catalog
           /\ todo[p] \in Seq(ToSet(Classes)) /\ missing[p] \in Seq(ToSet(Classes))
           /\ made[p] \subseteq Objects /\ ToSet(todo[p]) \cup ToSet(missing[p]) \subseteq Mapped(p)
  BY DEF IInv, TypeOK

LEMMA BeginStep ==
    ASSUME IInv, NEW p \in Processes, Begin(p)
    PROVE  IInv'
  <1>1. TypeOK /\ WholeClasses /\ MadeWhole(p)
    BY OwnPart
  <1>2. Imported[p] \in Seq(ToSet(Classes)) /\ ToSet(Imported[p]) = Mapped(p)
    BY Imports DEF Mapped
  <1>3. /\ pc' = [pc EXCEPT ![p] = "inspect"] /\ todo' = [todo EXCEPT ![p] = Imported[p]]
        /\ missing' = [missing EXCEPT ![p] = <<>>] /\ before' = [before EXCEPT ![p] = catalog]
        /\ catalog' = catalog /\ made' = made /\ crashes' = crashes
    BY DEF Begin, Goto, Tables
  <1>4. /\ pc'[p] = "inspect" /\ todo'[p] = Imported[p] /\ missing'[p] = <<>>
        /\ before'[p] = catalog
    BY <1>1, <1>3 DEF TypeOK
  <1>5. Others(p)
    BY <1>1, <1>3 DEF TypeOK, Others
  <1>6. ToSet(missing'[p]) = {}
    BY <1>4 DEF ToSet
  <1>7. TypeOK'
    <2>1. /\ pc' \in [Processes -> {"down", "inspect", "check", "types", "table", "commit",
                                   "started", "serving", "failed", "broken"}]
          /\ {todo', missing'} \subseteq [Processes -> Seq(ToSet(Classes))]
          /\ before' \in [Processes -> SUBSET Objects]
      BY <1>1, <1>2, <1>3 DEF TypeOK
    <2>2. ASSUME NEW q \in Processes
          PROVE  ToSet(todo'[q]) \cup ToSet(missing'[q]) \subseteq Mapped(q)
      BY <1>1, <1>2, <1>4, <1>5, <1>6 DEF TypeOK, Others
    <2>3. QED
      BY <1>1, <1>3, <2>1, <2>2 DEF TypeOK, Mapped
  <1>8. WholeClasses'
    BY <1>1, <1>3 DEF WholeClasses
  <1>9. Progress(p)'
    BY <1>2, <1>4, <1>6 DEF Progress, Mapped
  <1>10. MadeWhole(p)'
    <2>1. made'[p] = {}
      BY <1>1, <1>3 DEF MadeWhole, Begin
    <2>2. QED
      BY <1>4, <2>1 DEF MadeWhole
  <1>11. QED
    BY <1>3, <1>4, <1>5, <1>7, <1>8, <1>9, <1>10, ProcessStep

LEMMA InspectStep ==
    ASSUME IInv, NEW p \in Processes, InspectTable(p)
    PROVE  IInv'
  <1> DEFINE h == Head(todo[p])
  <1>1. /\ TypeOK /\ WholeClasses /\ Progress(p) /\ MadeWhole(p) /\ before[p] \subseteq catalog
        /\ todo[p] \in Seq(ToSet(Classes)) /\ missing[p] \in Seq(ToSet(Classes))
    BY OwnPart
  <1>2. /\ pc[p] = "inspect" /\ todo[p] # <<>>
        /\ todo' = [todo EXCEPT ![p] = Tail(todo[p])]
        /\ missing' = [missing EXCEPT ![p] = IF Absent(h) THEN Append(missing[p], h) ELSE missing[p]]
        /\ UNCHANGED <<catalog, made, pc, before, crashes>>
    BY DEF InspectTable
  <1>3. /\ h \in ToSet(Classes) /\ h \in ToSet(todo[p]) /\ Tail(todo[p]) \in Seq(ToSet(Classes))
        /\ ToSet(todo[p]) = {h} \cup ToSet(Tail(todo[p]))
    BY <1>1, <1>2, HeadAndTail
  <1>4. /\ Append(missing[p], h) \in Seq(ToSet(Classes))
        /\ ToSet(Append(missing[p], h)) = ToSet(missing[p]) \cup {h}
    BY <1>1, <1>3, AppendSet
  <1> HIDE DEF h
  <1>5. /\ todo'[p] = Tail(todo[p])
        /\ missing'[p] = IF Absent(h) THEN Append(missing[p], h) ELSE missing[p]
    BY <1>1, <1>2 DEF TypeOK
  <1>6. Others(p)
    BY <1>1, <1>2 DEF TypeOK, Others
  <1>7. /\ ToSet(missing'[p]) \subseteq ToSet(missing[p]) \cup {h}
        /\ ToSet(missing[p]) \subseteq ToSet(missing'[p])
        /\ Absent(h) <=> Table(h) \notin catalog
        /\ Absent(h) => h \in ToSet(missing'[p])
        /\ ~ Absent(h) => ToSet(missing'[p]) = ToSet(missing[p])
    BY <1>4, <1>5 DEF Absent
  <1>8. TypeOK'
    <2>1. {todo', missing'} \subseteq [Processes -> Seq(ToSet(Classes))]
      BY <1>1, <1>2, <1>3, <1>4 DEF TypeOK
    <2>2. ASSUME NEW q \in Processes
          PROVE  ToSet(todo'[q]) \cup ToSet(missing'[q]) \subseteq Mapped(q)
      BY <1>1, <1>3, <1>5, <1>6, <1>7 DEF TypeOK, Others
    <2>3. QED
      BY <1>1, <1>2, <2>1, <2>2 DEF TypeOK, Mapped
  <1>9. WholeClasses'
    BY <1>1, <1>2 DEF WholeClasses
  <1>10. Progress(p)'
    <2>1. \A c \in Mapped(p) \ (ToSet(todo'[p]) \cup ToSet(missing'[p])) : Table(c) \in catalog
      BY <1>1, <1>2, <1>3, <1>5, <1>7 DEF Progress
    <2>2. \A c \in ToSet(missing'[p]) : Table(c) \notin before[p]
      BY <1>1, <1>2, <1>7 DEF Progress
    <2>3. QED
      BY <1>2, <2>1, <2>2 DEF Progress, Mapped
  <1>11. MadeWhole(p)'
    BY <1>1, <1>2 DEF MadeWhole
  <1>12. QED
    BY <1>1, <1>2, <1>6, <1>8, <1>9, <1>10, <1>11, ProcessStep

LEMMA NextPhaseStep ==
    ASSUME IInv, NEW p \in Processes, NextPhase(p)
    PROVE  IInv'
  <1>1. /\ TypeOK /\ WholeClasses /\ Progress(p) /\ MadeWhole(p) /\ before[p] \subseteq catalog
        /\ missing[p] \in Seq(ToSet(Classes))
        /\ ToSet(todo[p]) \cup ToSet(missing[p]) \subseteq Mapped(p)
    BY OwnPart
  <1>2. UNCHANGED <<catalog, made, missing, before, crashes>> /\ todo[p] = <<>>
    BY DEF NextPhase
  <1>3. WholeClasses'
    BY <1>1, <1>2 DEF WholeClasses
  <1>4. Imported[p] \in Seq(ToSet(Classes)) /\ ToSet(Imported[p]) = Mapped(p)
    BY Imports DEF Mapped
  <1>5. ToSet(todo[p]) = {} /\ (missing[p] = <<>> => ToSet(missing[p]) = {})
    BY <1>2 DEF ToSet
  <1>6. ASSUME NEW stage \in {"check", "table", "commit"}, NEW s \in Seq(ToSet(Classes)),
               ToSet(s) \subseteq Mapped(p), Goto(p, stage), todo' = [todo EXCEPT ![p] = s]
        PROVE  TypeOK' /\ Others(p) /\ pc'[p] = stage /\ todo'[p] = s
    <2>1. Others(p) /\ pc'[p] = stage /\ todo'[p] = s
      BY <1>1, <1>2, <1>6 DEF TypeOK, Others, Goto
    <2>2. /\ pc' \in [Processes -> {"down", "inspect", "check", "types", "table", "commit",
                                   "started", "serving", "failed", "broken"}]
          /\ {todo', missing'} \subseteq [Processes -> Seq(ToSet(Classes))]
      BY <1>1, <1>2, <1>6 DEF TypeOK, Goto
    <2>3. ASSUME NEW q \in Processes
          PROVE  ToSet(todo'[q]) \cup ToSet(missing'[q]) \subseteq Mapped(q)
      BY <1>1, <1>2, <1>6, <2>1 DEF TypeOK, Others
    <2>4. QED
      BY <1>1, <1>2, <2>1, <2>2, <2>3 DEF TypeOK, Mapped
  <1>7. CASE /\ pc[p] = "inspect" /\ todo' = [todo EXCEPT ![p] = Tables(p)]
             /\ Goto(p, "check")
    <2>1. TypeOK' /\ Others(p) /\ pc'[p] = "check" /\ todo'[p] = Imported[p]
      BY <1>4, <1>6, <1>7 DEF Tables
    <2>2. Progress(p)'
      BY <1>1, <1>2, <1>4, <1>5, <1>7, <2>1 DEF Progress, Mapped
    <2>3. MadeWhole(p)'
      BY <1>1, <1>2, <1>7, <2>1 DEF MadeWhole
    <2>4. QED
      BY <1>1, <1>2, <1>3, <2>1, <2>2, <2>3, ProcessStep
  <1>8. CASE /\ pc[p] = "check" /\ todo' = [todo EXCEPT ![p] = missing[p]]
             /\ Goto(p, IF missing[p] = <<>> THEN "commit" ELSE "table")
    <2>1. /\ pc'[p] = (IF missing[p] = <<>> THEN "commit" ELSE "table")
          /\ TypeOK' /\ Others(p) /\ todo'[p] = missing[p]
      BY <1>1, <1>6, <1>8
    <2>2. /\ \A c \in Mapped(p) \ ToSet(missing[p]) : Table(c) \in catalog
          /\ \A c \in Mapped(p) : Types(c) \in catalog \cup made[p]
          /\ \A c \in ToSet(missing[p]) : Table(c) \notin before[p]
      BY <1>1, <1>5, <1>8 DEF Progress
    <2>3. CASE missing[p] = <<>>
      <3>1. Progress(p)'
        BY <1>2, <1>5, <2>1, <2>2, <2>3 DEF Progress, Mapped
      <3>2. MadeWhole(p)'
        BY <1>1, <1>2, <1>5, <1>8, <2>1, <2>3 DEF MadeWhole
      <3>3. QED
        BY <1>1, <1>2, <1>3, <2>1, <3>1, <3>2, ProcessStep
    <2>4. CASE missing[p] # <<>>
      <3>1. Progress(p)'
        BY <1>2, <2>1, <2>2, <2>4 DEF Progress, Mapped
      <3>2. MadeWhole(p)'
        BY <1>1, <1>2, <1>8, <2>1, <2>4 DEF MadeWhole
      <3>3. QED
        BY <1>1, <1>2, <1>3, <2>1, <3>1, <3>2, ProcessStep
    <2>5. QED
      BY <2>3, <2>4
  <1>9. QED
    BY <1>7, <1>8 DEF NextPhase

LEMMA CheckTypesStep ==
    ASSUME IInv, NEW p \in Processes, CheckTypes(p)
    PROVE  IInv'
  <1> DEFINE h == Head(todo[p])
  <1>1. /\ TypeOK /\ WholeClasses /\ Progress(p) /\ MadeWhole(p) /\ before[p] \subseteq catalog
        /\ todo[p] \in Seq(ToSet(Classes)) /\ ToSet(todo[p]) \subseteq Mapped(p)
    BY OwnPart
  <1>2. /\ pc[p] = "check" /\ todo[p] # <<>>
        /\ UNCHANGED <<catalog, made, missing, before, crashes>>
    BY DEF CheckTypes
  <1>3. /\ h \in ToSet(Classes) /\ Tail(todo[p]) \in Seq(ToSet(Classes))
        /\ ToSet(todo[p]) = {h} \cup ToSet(Tail(todo[p]))
    BY <1>1, <1>2, HeadAndTail
  <1>4. WholeClasses'
    BY <1>1, <1>2 DEF WholeClasses
  <1>5. CASE Types(h) \in catalog /\ todo' = [todo EXCEPT ![p] = Tail(todo[p])] /\ pc' = pc
    <2>1. pc'[p] = "check" /\ todo'[p] = Tail(todo[p]) /\ Others(p)
      BY <1>1, <1>2, <1>5 DEF TypeOK, Others
    <2> HIDE DEF h
    <2>2. TypeOK'
      <3>1. {todo', missing'} \subseteq [Processes -> Seq(ToSet(Classes))]
        BY <1>1, <1>2, <1>3, <1>5 DEF TypeOK
      <3>2. ASSUME NEW q \in Processes
            PROVE  ToSet(todo'[q]) \cup ToSet(missing'[q]) \subseteq Mapped(q)
        BY <1>1, <1>2, <1>3, <2>1 DEF TypeOK, Others
      <3>3. QED
        BY <1>1, <1>2, <1>5, <3>1, <3>2 DEF TypeOK, Mapped
    <2>3. Progress(p)'
      BY <1>1, <1>2, <1>3, <1>5, <2>1 DEF Progress, Mapped
    <2>4. MadeWhole(p)'
      BY <1>1, <1>2, <2>1 DEF MadeWhole
    <2>5. QED
      BY <1>1, <1>2, <1>4, <2>1, <2>2, <2>3, <2>4, ProcessStep
  <1>6. CASE Types(h) \notin catalog /\ todo' = todo /\ Goto(p, "types")
    <2>1. pc'[p] = "types" /\ Others(p)
      BY <1>1, <1>2, <1>6 DEF TypeOK, Others, Goto
    <2>2. TypeOK'
      <3>1. pc' \in [Processes -> {"down", "inspect", "check", "types", "table", "commit",
                                  "started", "serving", "failed", "broken"}]
        BY <1>1, <1>6 DEF TypeOK, Goto
      <3>2. QED
        BY <1>1, <1>2, <1>6, <3>1 DEF TypeOK, Mapped
    <2>3. Progress(p)'
      BY <1>1, <1>2, <1>6, <2>1 DEF Progress, Mapped
    <2>4. MadeWhole(p)'
      BY <1>1, <1>2, <1>6, <2>1 DEF MadeWhole
    <2>5. QED
      BY <1>1, <1>2, <1>4, <2>1, <2>2, <2>3, <2>4, ProcessStep
  <1>7. QED
    BY <1>5, <1>6 DEF CheckTypes

LEMMA CreateTypesStep ==
    ASSUME IInv, NEW p \in Processes, CreateTypes(p)
    PROVE  IInv'
  <1> DEFINE h == Head(todo[p])
  <1>1. /\ TypeOK /\ WholeClasses /\ Progress(p) /\ MadeWhole(p) /\ before[p] \subseteq catalog
        /\ todo[p] \in Seq(ToSet(Classes)) /\ ToSet(todo[p]) \subseteq Mapped(p)
    BY OwnPart
  <1>2. /\ pc[p] = "types" /\ pc' = [pc EXCEPT ![p] = "check"]
        /\ Types(h) \notin catalog
        /\ made' = [made EXCEPT ![p] = made[p] \cup {Types(h)}]
        /\ todo' = [todo EXCEPT ![p] = Tail(todo[p])]
        /\ UNCHANGED <<catalog, missing, before, crashes>>
    BY DEF CreateTypes, Make, Goto
  <1>3. /\ h \in ToSet(Classes) /\ Types(h) \in Objects /\ Tail(todo[p]) \in Seq(ToSet(Classes))
        /\ ToSet(todo[p]) = {h} \cup ToSet(Tail(todo[p]))
    <2>1. todo[p] # <<>>
      BY <1>1, <1>2 DEF Progress
    <2>2. QED
      BY <1>1, <2>1, HeadAndTail, Names
  <1> HIDE DEF h
  <1>4. /\ pc'[p] = "check" /\ made'[p] = made[p] \cup {Types(h)}
        /\ todo'[p] = Tail(todo[p]) /\ Others(p)
    BY <1>1, <1>2 DEF TypeOK, Others
  <1>5. h \in ToSet(missing[p])
    <2>1. Table(h) \notin catalog
      BY <1>1, <1>2, <1>3 DEF WholeClasses
    <2>2. QED
      BY <1>1, <1>2, <1>3, <2>1 DEF Progress
  <1>6. TypeOK'
    <2>1. /\ pc' \in [Processes -> {"down", "inspect", "check", "types", "table", "commit",
                                   "started", "serving", "failed", "broken"}]
          /\ made' \in [Processes -> SUBSET Objects]
          /\ {todo', missing'} \subseteq [Processes -> Seq(ToSet(Classes))]
      BY <1>1, <1>2, <1>3 DEF TypeOK
    <2>2. ASSUME NEW q \in Processes
          PROVE  ToSet(todo'[q]) \cup ToSet(missing'[q]) \subseteq Mapped(q)
      BY <1>1, <1>2, <1>3, <1>4 DEF TypeOK, Others
    <2>3. QED
      BY <1>1, <1>2, <2>1, <2>2 DEF TypeOK, Mapped
  <1>7. WholeClasses'
    BY <1>1, <1>2 DEF WholeClasses
  <1>8. Progress(p)'
    BY <1>1, <1>2, <1>3, <1>4 DEF Progress, Mapped
  <1>9. MadeWhole(p)'
    <2>1. \A c \in ToSet(Classes) : Table(c) \in made'[p] => Types(c) \in made'[p]
      BY <1>1, <1>4, Names DEF MadeWhole
    <2>2. \A c \in ToSet(Classes) : Types(c) \in made'[p] =>
              Table(c) \in made'[p] \/ c \in ToSet(missing[p])
      BY <1>1, <1>2, <1>4, <1>5, Names DEF MadeWhole
    <2>3. QED
      BY <1>2, <1>4, <2>1, <2>2 DEF MadeWhole
  <1>10. QED
    BY <1>1, <1>2, <1>4, <1>6, <1>7, <1>8, <1>9, ProcessStep

LEMMA CreateTableStep ==
    ASSUME IInv, NEW p \in Processes, CreateTable(p)
    PROVE  IInv'
  <1> DEFINE h == Head(todo[p])
             stage == IF Tail(todo[p]) = <<>> THEN "commit" ELSE "table"
  <1>1. /\ TypeOK /\ WholeClasses /\ Progress(p) /\ MadeWhole(p) /\ before[p] \subseteq catalog
        /\ todo[p] \in Seq(ToSet(Classes)) /\ ToSet(todo[p]) \subseteq Mapped(p)
    BY OwnPart
  <1>2. /\ pc[p] = "table" /\ pc' = [pc EXCEPT ![p] = stage]
        /\ Table(h) \notin catalog
        /\ made' = [made EXCEPT ![p] = made[p] \cup {Table(h)}]
        /\ todo' = [todo EXCEPT ![p] = Tail(todo[p])]
        /\ UNCHANGED <<catalog, missing, before, crashes>>
    BY DEF CreateTable, Make, Goto
  <1>3. /\ h \in ToSet(Classes) /\ Table(h) \in Objects /\ Tail(todo[p]) \in Seq(ToSet(Classes))
        /\ ToSet(todo[p]) = {h} \cup ToSet(Tail(todo[p]))
    <2>1. todo[p] # <<>>
      BY <1>1, <1>2 DEF Progress
    <2>2. QED
      BY <1>1, <2>1, HeadAndTail, Names
  <1> HIDE DEF h
  <1>4. /\ pc'[p] = stage /\ made'[p] = made[p] \cup {Table(h)} /\ todo'[p] = Tail(todo[p])
        /\ Others(p)
    BY <1>1, <1>2 DEF TypeOK, Others
  <1>5. Types(h) \in made[p]
    <2>1. Types(h) \notin catalog
      BY <1>1, <1>2, <1>3 DEF WholeClasses
    <2>2. QED
      BY <1>1, <1>2, <1>3, <2>1 DEF Progress
  <1>6. TypeOK'
    <2>1. /\ pc' \in [Processes -> {"down", "inspect", "check", "types", "table", "commit",
                                   "started", "serving", "failed", "broken"}]
          /\ made' \in [Processes -> SUBSET Objects]
          /\ {todo', missing'} \subseteq [Processes -> Seq(ToSet(Classes))]
      BY <1>1, <1>2, <1>3 DEF TypeOK
    <2>2. ASSUME NEW q \in Processes
          PROVE  ToSet(todo'[q]) \cup ToSet(missing'[q]) \subseteq Mapped(q)
      BY <1>1, <1>2, <1>3, <1>4 DEF TypeOK, Others
    <2>3. QED
      BY <1>1, <1>2, <2>1, <2>2 DEF TypeOK, Mapped
  <1>7. WholeClasses'
    BY <1>1, <1>2 DEF WholeClasses
  <1>8. Progress(p)'
    <2>1. \A c \in Mapped(p) \ ToSet(Tail(todo[p])) : Table(c) \in catalog \cup made'[p]
      BY <1>1, <1>2, <1>3, <1>4 DEF Progress
    <2>2. \A c \in ToSet(Tail(todo[p])) : Table(c) \notin before[p]
      BY <1>1, <1>2, <1>3 DEF Progress
    <2>3. Tail(todo[p]) = <<>> => ToSet(Tail(todo[p])) = {}
      BY DEF ToSet
    <2>t. \A c \in Mapped(p) : Types(c) \in catalog \cup made'[p]
      BY <1>1, <1>2, <1>4 DEF Progress
    <2>4. CASE Tail(todo[p]) = <<>>
      BY <1>2, <1>4, <2>1, <2>3, <2>4 DEF Progress, Mapped
    <2>5. CASE Tail(todo[p]) # <<>>
      BY <1>2, <1>4, <2>1, <2>2, <2>t, <2>5 DEF Progress, Mapped
    <2>6. QED
      BY <2>4, <2>5
  <1>9. MadeWhole(p)'
    <2>1. \A c \in ToSet(Classes) : Table(c) \in made'[p] => Types(c) \in made'[p]
      BY <1>1, <1>4, <1>5, Names DEF MadeWhole
    <2>2. \A c \in ToSet(Classes) : Types(c) \in made'[p] =>
              Table(c) \in made'[p] \/ c \in ToSet(Tail(todo[p]))
      BY <1>1, <1>2, <1>3, <1>4, Names DEF MadeWhole
    <2>3. Tail(todo[p]) = <<>> => ToSet(Tail(todo[p])) = {}
      BY DEF ToSet
    <2>4. CASE Tail(todo[p]) = <<>>
      BY <1>4, <2>1, <2>2, <2>3, <2>4 DEF MadeWhole
    <2>5. CASE Tail(todo[p]) # <<>>
      BY <1>4, <2>1, <2>2, <2>5 DEF MadeWhole
    <2>6. QED
      BY <2>4, <2>5
  <1>10. QED
    BY <1>1, <1>2, <1>4, <1>6, <1>7, <1>8, <1>9, ProcessStep

LEMMA CommitStep ==
    ASSUME IInv, NEW p \in Processes, CommitTables(p)
    PROVE  IInv'
  <1>1. /\ TypeOK /\ WholeClasses /\ Progress(p) /\ MadeWhole(p) /\ before[p] \subseteq catalog
        /\ made[p] \subseteq Objects
    BY OwnPart
  <1>2. /\ pc[p] = "commit" /\ pc' = [pc EXCEPT ![p] = "started"]
        /\ catalog' = catalog \cup made[p] /\ made' = [made EXCEPT ![p] = {}]
        /\ UNCHANGED <<todo, missing, before, crashes>>
    BY DEF CommitTables, Goto
  <1>3. pc'[p] = "started" /\ made'[p] = {} /\ Others(p)
    BY <1>1, <1>2 DEF TypeOK, Others
  <1>4. TypeOK'
    <2>1. /\ pc' \in [Processes -> {"down", "inspect", "check", "types", "table", "commit",
                                   "started", "serving", "failed", "broken"}]
          /\ made' \in [Processes -> SUBSET Objects] /\ catalog' \subseteq Objects
      BY <1>1, <1>2 DEF TypeOK
    <2>2. QED
      BY <1>1, <1>2, <2>1 DEF TypeOK, Mapped
  <1>5. WholeClasses'
    <2>1. \A c \in ToSet(Classes) : Types(c) \in made[p] <=> Table(c) \in made[p]
      BY <1>1, <1>2 DEF MadeWhole
    <2>2. QED
      BY <1>1, <1>2, <2>1 DEF WholeClasses
  <1>6. Progress(p)'
    BY <1>1, <1>2, <1>3 DEF Progress, Mapped
  <1>7. MadeWhole(p)'
    BY <1>3 DEF MadeWhole
  <1>8. QED
    BY <1>1, <1>2, <1>3, <1>4, <1>5, <1>6, <1>7, ProcessStep

\* A process ends, by itself or not, and its transaction is rolled back; or it serves.
LEMMA EndStep ==
    ASSUME IInv, NEW p \in Processes, NEW stage \in {"down", "failed", "broken", "serving"},
           Goto(p, stage), UNCHANGED <<catalog, todo, missing, before, crashes>> \/ Crash(p),
           Rollback(p) \/ (pc[p] = "started" /\ UNCHANGED made),
           stage = "serving" => pc[p] = "started"
    PROVE  IInv'
  <1>1. /\ TypeOK /\ WholeClasses /\ Progress(p) /\ MadeWhole(p) /\ before[p] \subseteq catalog
    BY OwnPart
  <1>2. /\ UNCHANGED <<catalog, todo, missing, before>> /\ crashes' \in 0..MaxCrashes
    BY <1>1, ImportsAssumption DEF Crash, TypeOK
  <1>3. pc'[p] = stage /\ made'[p] = {} /\ made' \in [Processes -> SUBSET Objects]
    BY <1>1 DEF TypeOK, Goto, Rollback, MadeWhole
  <1>4. Others(p)
    BY <1>1, <1>2 DEF TypeOK, Others, Goto, Rollback
  <1>5. TypeOK'
    <2>1. pc' \in [Processes -> {"down", "inspect", "check", "types", "table", "commit",
                                "started", "serving", "failed", "broken"}]
      BY <1>1 DEF TypeOK, Goto
    <2>2. QED
      BY <1>1, <1>2, <1>3, <2>1 DEF TypeOK, Mapped
  <1>6. WholeClasses'
    BY <1>1, <1>2 DEF WholeClasses
  <1>7. Progress(p)'
    BY <1>1, <1>2, <1>3 DEF Progress, Mapped
  <1>8. MadeWhole(p)'
    BY <1>3 DEF MadeWhole
  <1>9. QED
    BY <1>1, <1>2, <1>4, <1>5, <1>6, <1>7, <1>8, ProcessStep

LEMMA NextIInv == IInv /\ [Next]_vars => IInv'
  <1> SUFFICES ASSUME IInv, [Next]_vars PROVE IInv'
    OBVIOUS
  <1>1. ASSUME NEW p \in Processes, CreateRefused(p) PROVE IInv'
    BY <1>1, EndStep DEF CreateRefused, Fail
  <1>2. ASSUME NEW p \in Processes, FirstQuery(p) PROVE IInv'
    BY <1>2, EndStep DEF FirstQuery
  <1>3. ASSUME NEW p \in Processes, Crash(p) PROVE IInv'
    BY <1>3, EndStep DEF Crash
  <1>4. CASE UNCHANGED vars
    BY <1>4 DEF vars, process, IInv, TypeOK, WholeClasses, Progress, MadeWhole, Mapped
  <1>5. QED
    BY <1>1, <1>2, <1>3, <1>4, BeginStep, InspectStep, NextPhaseStep, CheckTypesStep,
       CreateTypesStep, CreateTableStep, CommitStep DEF Next, Step

-----------------------------------------------------------------------------
(***************************************************************************)
(* The theorems.                                                           *)
(***************************************************************************)

\* The inductive invariant holds in every state of every behaviour.
THEOREM Invariance == Spec => []IInv
  <1>1. QED
    BY InitIInv, NextIInv, PTL DEF Spec

\* Every variable keeps its type.
THEOREM TypeCorrect == Spec => []TypeOK
  <1>1. IInv => TypeOK
    BY DEF IInv
  <1>2. QED
    BY <1>1, Invariance, PTL

\* However many processes create tables at once, whichever of them are refused or
\* killed, the catalog never has part of a class (session.py:42-44).
THEOREM ClassesAreWhole == Spec => []WholeClasses
  <1>1. IInv => WholeClasses
    BY DEF IInv
  <1>2. QED
    BY <1>1, Invariance, PTL

\* A worker that has come through its start has all of its tables, whoever made them
\* (main.py:32-37).
THEOREM ServersHaveTables == Spec => []ServesWithTables
  <1>1. IInv => ServesWithTables
    BY DEF IInv, Progress, ServesWithTables, Processes
  <1>2. QED
    BY <1>1, Invariance, PTL

\* A refused CREATE means that another process has committed one since the start began
\* (main.py:35-37).
THEOREM FailuresAreRaces == Spec => FailsOnlyInRaces
  <1> DEFINE Justified == \A p \in Processes :
                              pc[p] # "failed" /\ pc'[p] = "failed" => catalog # before[p]
  <1>1. ASSUME IInv, Next PROVE Justified
    <2> SUFFICES ASSUME NEW p \in Processes, pc[p] # "failed", pc'[p] = "failed"
                 PROVE  catalog # before[p]
      OBVIOUS
    <2>1. CreateRefused(p)
      <3>1. PICK q \in Processes : Begin(q) \/ Step(q) \/ Crash(q)
        BY <1>1 DEF Next
      <3>2. TypeOK
        BY <1>1 DEF IInv
      <3>3. q = p
        <4>1. q # p => pc'[p] = pc[p]
          BY <3>1, <3>2 DEF TypeOK, Begin, Step, Crash, InspectTable, NextPhase, CheckTypes,
             CreateTypes, CreateTable, CommitTables, CreateRefused, FirstQuery, Goto, Fail
        <4>2. QED
          BY <4>1
      <3>4. QED
        BY <3>1, <3>2, <3>3 DEF TypeOK, Begin, Step, Crash, InspectTable, NextPhase, CheckTypes,
           CreateTypes, CreateTable, CommitTables, FirstQuery, Goto
    <2>2. /\ WholeClasses /\ todo[p] \in Seq(ToSet(Classes)) /\ Progress(p)
      BY <1>1, OwnPart
    <2>4. CASE pc[p] = "types" /\ Types(Head(todo[p])) \in catalog
      BY <2>2, <2>4 DEF Progress
    <2>5. CASE pc[p] = "table" /\ Table(Head(todo[p])) \in catalog
      <3>1. todo[p] # <<>> /\ \A c \in ToSet(todo[p]) : Table(c) \notin before[p]
        BY <2>2, <2>5 DEF Progress
      <3>2. Table(Head(todo[p])) \notin before[p]
        BY <2>2, <3>1, HeadAndTail
      <3>3. QED
        BY <2>5, <3>2
    <2>6. QED
      BY <2>1, <2>4, <2>5 DEF CreateRefused
  <1>2. IInv /\ [Next]_vars => [Justified]_vars
    BY <1>1
  <1> HIDE DEF Justified
  <1>3. Spec => [][Justified]_vars
    BY <1>2, Invariance, PTL DEF Spec
  <1>4. QED
    BY <1>3 DEF FailsOnlyInRaces, Justified
=============================================================================
