------------------------ MODULE ConfigurationProofs ------------------------
(***************************************************************************)
(* Who frees components and values, for any number of components, options  *)
(* and Arguments.                                                          *)
(*                                                                         *)
(* Components: while load() takes the list apart, the components that it   *)
(* has dealt with are those before "head", each alone and owned by the     *)
(* vector, and the rest is still linked in order (Loading).  Values: a     *)
(* cell is in use exactly while one Argument or one option has it          *)
(* (CellsHeld, NotShared), and without misuse it has the type of the       *)
(* Argument's option (Typed).                                              *)
(***************************************************************************)
EXTENDS Configuration, FiniteSetTheorems, TLAPS

\* The component that gpgme's list has after c.
Succ(c) == IF c = N THEN 0 ELSE c + 1

\* What load() has dealt with and what it has not, at each of its places.
Loading ==
  /\ phase = "load" =>
       /\ head = 0 /\ next = 0 /\ components = {}
       /\ \A c \in Comp : link[c] = Succ(c) /\ freed[c] = 0
  /\ phase \in {"secure", "cut", "add"} =>
       /\ next = IF phase = "secure" THEN 0 ELSE Succ(head)
       /\ phase # "secure" => head # 0
       /\ \A c \in Comp :
            /\ freed[c] = 0
            /\ c \in components <=> head = 0 \/ c < head
            /\ link[c] = IF head = 0 \/ c < head \/ (phase = "add" /\ c = head)
                         THEN 0 ELSE Succ(c)
  /\ phase = "done" =>
       /\ head = 0 /\ next = 0
       /\ \A c \in Comp : /\ link[c] = 0
                          /\ freed[c] = IF c \in components THEN 0 ELSE 1
  /\ phase = "thrown" =>
       \A c \in Comp : freed[c] = IF c \in Chain(head) \ {head} THEN 2 ELSE 1

\* A cell is in use while an Argument or an option has it.
CellsHeld ==
  \A x \in Cell :
    cells[x] # Free <=> \/ \E h \in Handle : args[h].cell = x
                        \/ \E o \in Option : newvalue[o] = x

\* No two of them have the same cell.
NotShared ==
  /\ \A h, g \in Handle : args[h].cell # Nil /\ args[h].cell = args[g].cell => h = g
  /\ \A o, p \in Option : newvalue[o] # Nil /\ newvalue[o] = newvalue[p] => o = p
  /\ \A h \in Handle, o \in Option : args[h].cell # Nil => args[h].cell # newvalue[o]

\* An Argument with a value has an option, and the value the option's type,
\* unless the application has mixed types up.
Typed ==
  \A h \in Handle :
    args[h].cell # Nil =>
      /\ args[h].opt \in Option
      /\ ~misused => cells[args[h].cell].type = AltType[args[h].opt]

IInv ==
  /\ TypeOK
  /\ Loading
  /\ CellsHeld
  /\ NotShared
  /\ Typed
  /\ StaleAccessKnown
  /\ TypesMatch

-----------------------------------------------------------------------------
\* What gpgme_conf_release() frees: nothing for a null pointer, a component that
\* was cut off alone, and from one that was not all that follow.
LEMMA ChainOfNone == Chain(0) = {}
BY DEF Chain

LEMMA ChainAlone ==
  ASSUME NEW c \in Comp, link[c] = 0
  PROVE  Chain(c) = {c}
<1> USE ConfigurationAssumption DEF Comp
<1>1. ASSUME NEW d \in Chain(c), d # c
      PROVE  FALSE
  <2>1. d \in c .. N /\ \A k \in c .. d - 1 : link[k] = k + 1
    BY <1>1 DEF Chain
  <2>2. c \in c .. d - 1
    BY <1>1, <2>1
  <2>3. QED
    BY <2>1, <2>2
<1>2. c \in Chain(c)
  BY DEF Chain
<1>3. QED
  BY <1>1, <1>2

LEMMA ChainOfRest ==
  ASSUME NEW c \in Comp, \A d \in Comp : d >= c => link[d] = Succ(d)
  PROVE  Chain(c) = c .. N
<1> USE ConfigurationAssumption DEF Comp
<1>1. c # 0
  OBVIOUS
<1>2. ASSUME NEW d \in c .. N, NEW k \in c .. d - 1
      PROVE  link[k] = k + 1
  <2>1. k \in Comp /\ k >= c /\ k # N
    OBVIOUS
  <2>2. QED
    BY <2>1 DEF Succ
<1>3. QED
  BY <1>1, <1>2 DEF Chain

\* While load() is at "secure", the pointers and what each of them would free.
LEMMA OwnersAtSecure ==
  ASSUME TypeOK, Loading, phase = "secure"
  PROVE  /\ \A p \in components : p \in Comp /\ Chain(p) = {p}
         /\ head # 0 => Chain(head) = head .. N
         /\ head # 0 /\ head # N => Chain(head + 1) = head + 1 .. N
<1> USE ConfigurationAssumption DEF Comp
<1>1. ASSUME NEW p \in components
      PROVE  p \in Comp /\ Chain(p) = {p}
  <2>1. p \in Comp /\ link[p] = 0
    BY DEF TypeOK, Loading
  <2>2. QED
    BY <2>1, ChainAlone
<1>2. ASSUME head # 0
      PROVE  Chain(head) = head .. N
  <2>1. head \in Comp /\ \A d \in Comp : d >= head => link[d] = Succ(d)
    BY <1>2 DEF TypeOK, Loading
  <2>2. QED
    BY <2>1, ChainOfRest
<1>3. ASSUME head # 0, head # N
      PROVE  Chain(head + 1) = head + 1 .. N
  <2>1. head + 1 \in Comp /\ \A d \in Comp : d >= head + 1 => link[d] = Succ(d)
    BY <1>3 DEF TypeOK, Loading
  <2>2. QED
    BY <2>1, ChainOfRest
<1>4. QED
  BY <1>1, <1>2, <1>3

\* At "add", when the first component is cut off.
LEMMA OwnersAtAdd ==
  ASSUME TypeOK, Loading, phase = "add"
  PROVE  /\ \A p \in components : p \in Comp /\ Chain(p) = {p}
         /\ head \in Comp /\ Chain(head) = {head}
         /\ next = Succ(head)
         /\ next # 0 => Chain(next) = next .. N
<1> USE ConfigurationAssumption DEF Comp
<1>1. head \in Comp /\ next = Succ(head) /\ link[head] = 0
  BY DEF TypeOK, Loading
<1>2. Chain(head) = {head}
  BY <1>1, ChainAlone
<1>3. ASSUME NEW p \in components
      PROVE  p \in Comp /\ Chain(p) = {p}
  <2>1. p \in Comp /\ link[p] = 0
    BY <1>1 DEF TypeOK, Loading
  <2>2. QED
    BY <2>1, ChainAlone
<1>4. ASSUME next # 0
      PROVE  Chain(next) = next .. N
  <2>1. next \in Comp /\ \A d \in Comp : d >= next => link[d] = Succ(d)
    BY <1>1, <1>4 DEF Loading, Succ
  <2>2. QED
    BY <2>1, ChainOfRest
<1>5. QED
  BY <1>1, <1>2, <1>3, <1>4

-----------------------------------------------------------------------------
\* The first half of FreedOnce: who owns what, at the three places.
LEMMA OneOwnerEach ==
  ASSUME TypeOK, Loading, phase \in {"secure", "add", "done"}
  PROVE  \A c \in Comp : freed[c] + Cardinality(Owners(c)) = 1
<1> USE ConfigurationAssumption DEF Comp
<1> SUFFICES ASSUME NEW c \in Comp
             PROVE  freed[c] + Cardinality(Owners(c)) = 1
  OBVIOUS
<1>1. \A e : Cardinality({e}) = 1
  BY FS_Singleton
<1>2. CASE phase = "secure"
  <2>1. /\ freed[c] = 0 /\ next = 0
        /\ c \in components <=> head = 0 \/ c < head
    BY <1>2 DEF Loading
  <2>2. /\ \A p \in components : Chain(p) = {p}
        /\ head # 0 => Chain(head) = head .. N
    BY <1>2, OwnersAtSecure
  <2>3. head \in Comp \cup {0}
    BY DEF TypeOK
  <2>4. components \subseteq Comp
    BY DEF TypeOK
  <2>5. CASE head = 0 \/ c < head
    <3>1. c \in Owners(c)
      BY <2>1, <2>2, <2>3, <2>4, <2>5, ChainOfNone DEF Owners
    <3>2. ASSUME NEW p \in Owners(c)
          PROVE  p = c
      BY <3>2, <2>1, <2>2, <2>3, <2>4, <2>5, ChainOfNone DEF Owners
    <3>3. Owners(c) = {c}
      BY <3>1, <3>2
    <3>4. Cardinality(Owners(c)) = 1
      BY <1>1, <3>3
    <3>5. QED
      BY <2>1, <3>4
  <2>6. CASE head # 0 /\ ~(c < head)
    <3>1. head \in Owners(c)
      BY <2>1, <2>2, <2>3, <2>4, <2>6, ChainOfNone DEF Owners
    <3>2. ASSUME NEW p \in Owners(c)
          PROVE  p = head
      BY <3>2, <2>1, <2>2, <2>3, <2>4, <2>6, ChainOfNone DEF Owners
    <3>3. Owners(c) = {head}
      BY <3>1, <3>2
    <3>4. Cardinality(Owners(c)) = 1
      BY <1>1, <3>3
    <3>5. QED
      BY <2>1, <3>4
  <2>7. QED
    BY <2>5, <2>6
<1>3. CASE phase = "add"
  <2>1. /\ freed[c] = 0
        /\ head # 0
        /\ c \in components <=> c < head
    BY <1>3 DEF Loading
  <2>2. /\ \A p \in components : Chain(p) = {p}
        /\ head \in Comp /\ Chain(head) = {head}
        /\ next = IF head = N THEN 0 ELSE head + 1
        /\ next # 0 => Chain(next) = next .. N
    BY <1>3, OwnersAtAdd DEF Succ
  <2>3. components \subseteq Comp
    BY DEF TypeOK
  <2>4. CASE c <= head
    <3>1. c \in Owners(c)
      BY <2>1, <2>2, <2>3, <2>4, ChainOfNone DEF Owners
    <3>2. ASSUME NEW p \in Owners(c)
          PROVE  p = c
      BY <3>2, <2>1, <2>2, <2>3, <2>4, ChainOfNone DEF Owners
    <3>3. Owners(c) = {c}
      BY <3>1, <3>2
    <3>4. Cardinality(Owners(c)) = 1
      BY <1>1, <3>3
    <3>5. QED
      BY <2>1, <3>4
  <2>5. CASE c > head
    <3>1. next \in Owners(c)
      BY <2>1, <2>2, <2>3, <2>5, ChainOfNone DEF Owners
    <3>2. ASSUME NEW p \in Owners(c)
          PROVE  p = next
      BY <3>2, <2>1, <2>2, <2>3, <2>5, ChainOfNone DEF Owners
    <3>3. Owners(c) = {next}
      BY <3>1, <3>2
    <3>4. Cardinality(Owners(c)) = 1
      BY <1>1, <3>3
    <3>5. QED
      BY <2>1, <3>4
  <2>6. QED
    BY <2>2, <2>4, <2>5
<1>4. CASE phase = "done"
  <2>1. /\ head = 0 /\ next = 0
        /\ \A d \in Comp : link[d] = 0
        /\ freed[c] = IF c \in components THEN 0 ELSE 1
        /\ components \subseteq Comp
    BY <1>4 DEF Loading, TypeOK
  <2>2. \A p \in components : Chain(p) = {p}
    BY <2>1, ChainAlone
  <2>3. CASE c \in components
    <3>1. c \in Owners(c)
      BY <2>1, <2>2, <2>3, ChainOfNone DEF Owners
    <3>2. ASSUME NEW p \in Owners(c)
          PROVE  p = c
      BY <3>2, <2>1, <2>2, <2>3, ChainOfNone DEF Owners
    <3>3. Owners(c) = {c}
      BY <3>1, <3>2
    <3>4. Cardinality(Owners(c)) = 1
      BY <1>1, <3>3
    <3>5. QED
      BY <2>1, <2>3, <3>4
  <2>4. CASE c \notin components
    <3>1. ASSUME NEW p \in Owners(c)
          PROVE  FALSE
      BY <3>1, <2>1, <2>2, <2>4, ChainOfNone DEF Owners
    <3>2. Owners(c) = {}
      BY <3>1
    <3>3. Cardinality(Owners(c)) = 0
      BY <3>2, FS_EmptySet
    <3>4. QED
      BY <2>1, <2>4, <3>3
  <2>5. QED
    BY <2>3, <2>4
<1>5. QED
  BY <1>2, <1>3, <1>4

LEMMA ImpliesFreedOnce == TypeOK /\ Loading => FreedOnce
BY OneOwnerEach DEF Loading, FreedOnce

-----------------------------------------------------------------------------
LEMMA InitEstablishes == Init => IInv
<1> SUFFICES ASSUME Init
             PROVE  IInv
  OBVIOUS
<1> USE ConfigurationAssumption
<1>1. TypeOK
  <2>1. link \in [Comp -> Comp \cup {0}]
    BY DEF Init, Comp
  <2>2. /\ value \in [Option -> Value \cup {Unset}]
        /\ file \in [Option -> Value \cup {Default, Unset}]
    BY DEF Init
  <2>3. args \in [Handle -> [opt : Option \cup {Unset}, cell : Cell \cup {Nil}]]
    BY DEF Init, NoArg
  <2>4. QED
    BY <2>1, <2>2, <2>3 DEF Init, TypeOK
<1>2. Loading
  BY DEF Init, Loading, Succ
<1>3. CellsHeld /\ NotShared /\ Typed
  BY DEF Init, CellsHeld, NotShared, Typed, NoArg
<1>4. StaleAccessKnown /\ TypesMatch
  BY DEF Init, StaleAccessKnown, TypesMatch
<1>5. QED
  BY <1>1, <1>2, <1>3, <1>4 DEF IInv

\* load() leaves Arguments and options alone.
LEMMA ValuesUntouched ==
  ASSUME IInv, UNCHANGED <<options, cells, args, file, history>>
  PROVE  CellsHeld' /\ NotShared' /\ Typed' /\ StaleAccessKnown' /\ TypesMatch'
BY DEF IInv, options, history, CellsHeld, NotShared, Typed, StaleAccessKnown,
       TypesMatch

\* An exception that leaves load(): what has to be shown is that the pointers
\* free every component once, or twice where "head" is still linked to it.
LEMMA UnwindPreserves ==
  ASSUME IInv, NEW more, Unwind(more),
         UNCHANGED <<options, cells, args, file, history>>,
         \A c \in Comp :
           freed[c] + Cardinality({p \in components \cup {head, next} \cup more :
                                     c \in Chain(p)})
             = IF c \in Chain(head) \ {head} THEN 2 ELSE 1
  PROVE  IInv'
<1>1. /\ phase' = "thrown" /\ components' = {}
      /\ head' = head /\ next' = next /\ link' = link
      /\ freed' = [c \in Comp |->
           freed[c] + Cardinality({p \in components \cup {head, next} \cup more :
                                     c \in Chain(p)})]
  BY DEF Unwind, Release
<1>2. Chain(head)' = Chain(head)
  BY <1>1 DEF Chain
<1>3. /\ freed' = [c \in Comp |-> freed'[c]]
      /\ \A c \in Comp : freed'[c] = IF c \in Chain(head) \ {head} THEN 2 ELSE 1
  BY <1>1
<1>4. freed' \in [Comp -> Nat]
  BY <1>3
<1>5. TypeOK'
  BY <1>1, <1>4 DEF IInv, TypeOK, options, history
<1>6. Loading'
  BY <1>1, <1>2, <1>3 DEF Loading
<1>7. QED
  BY <1>5, <1>6, ValuesUntouched DEF IInv

\* gpgme's list is taken over whole, not at all, or lost.
LEMMA LoadPreserves == IInv /\ Load => IInv'
<1> SUFFICES ASSUME IInv, Load
             PROVE  IInv'
  OBVIOUS
<1> USE ConfigurationAssumption
<1>1. /\ phase = "load" /\ head = 0 /\ next = 0 /\ components = {}
      /\ \A c \in Comp : link[c] = Succ(c) /\ freed[c] = 0
      /\ UNCHANGED <<options, cells, args, file, history>>
  BY DEF Load, IInv, Loading
<1>2. CASE /\ phase' \in {"secure", "failed"}
           /\ head' = IF phase' = "secure" THEN 1 ELSE 0
           /\ UNCHANGED <<next, link, components, freed>>
  <2>1. 1 \in Comp
    BY DEF Comp
  <2>2. TypeOK'
    BY <1>1, <1>2, <2>1 DEF IInv, TypeOK, options, history
  <2>3. Loading'
    BY <1>1, <1>2 DEF Loading, Comp
  <2>4. QED
    BY <1>1, <2>2, <2>3, ValuesUntouched DEF IInv
<1>3. CASE Unwind({1})
  <2>1. Chain(1) = 1 .. N /\ Chain(0) = {}
    BY <1>1, ChainOfRest, ChainOfNone DEF Comp
  <2>2. ASSUME NEW c \in Comp
        PROVE  {p \in components \cup {head, next} \cup {1} : c \in Chain(p)} = {1}
    BY <1>1, <2>1 DEF Comp
  <2>3. \A c \in Comp :
          freed[c] + Cardinality({p \in components \cup {head, next} \cup {1} :
                                    c \in Chain(p)})
            = IF c \in Chain(head) \ {head} THEN 2 ELSE 1
    <3>1. ASSUME NEW c \in Comp
          PROVE  /\ freed[c] = 0 /\ c \notin Chain(head) \ {head}
                 /\ Cardinality({p \in components \cup {head, next} \cup {1} :
                                   c \in Chain(p)}) = 1
      BY <1>1, <2>1, <2>2, FS_Singleton
    <3>2. QED
      BY <3>1
  <2>4. QED
    BY <1>1, <1>3, <2>3, UnwindPreserves
<1>4. QED
  BY <1>1, <1>2, <1>3 DEF Load

\* Without memory for the counter of "next" the followers are freed twice: by it
\* and by the first component.
LEMMA SecureNextPreserves == IInv /\ SecureNext => IInv'
<1> SUFFICES ASSUME IInv, SecureNext
             PROVE  IInv'
  OBVIOUS
<1> USE ConfigurationAssumption
<1>1. /\ phase = "secure" /\ head # 0 /\ head \in Comp /\ next = 0
      /\ \A c \in Comp :
           /\ freed[c] = 0
           /\ c \in components <=> c < head
           /\ link[c] = IF c < head THEN 0 ELSE Succ(c)
      /\ components \subseteq Comp
      /\ UNCHANGED <<options, cells, args, file, history>>
  BY DEF SecureNext, IInv, Loading, TypeOK
<1>2. link[head] = Succ(head)
  BY <1>1 DEF Comp
<1>3. CASE /\ next' = link[head]
           /\ phase' = "cut"
           /\ UNCHANGED <<head, link, components, freed>>
  <2>1. TypeOK'
    BY <1>1, <1>3 DEF IInv, TypeOK, options, history
  <2>2. Loading'
    BY <1>1, <1>2, <1>3 DEF Loading
  <2>3. QED
    BY <1>1, <2>1, <2>2, ValuesUntouched DEF IInv
<1>4. CASE link[head] # 0 /\ Unwind({link[head]})
  <2>1. link[head] = head + 1 /\ head # N
    BY <1>2, <1>4 DEF Succ
  <2> DEFINE Freeing(c) ==
        {p \in components \cup {head, next} \cup {link[head]} : c \in Chain(p)}
  <2>2. /\ \A p \in components : Chain(p) = {p}
        /\ Chain(head) = head .. N
        /\ Chain(head + 1) = head + 1 .. N
        /\ Chain(0) = {}
    BY <1>1, <2>1, OwnersAtSecure, ChainOfNone DEF IInv
  <2>3. ASSUME NEW c \in Comp
        PROVE  Cardinality(Freeing(c)) = IF c \in Chain(head) \ {head} THEN 2 ELSE 1
    <3>1. CASE c < head
      <4>1. c \in Freeing(c) /\ c \notin Chain(head)
        BY <1>1, <2>1, <2>2, <3>1 DEF Comp
      <4>2. ASSUME NEW p \in Freeing(c)
            PROVE  p = c
        BY <4>2, <1>1, <2>1, <2>2, <3>1 DEF Comp
      <4>3. Freeing(c) = {c}
        BY <4>1, <4>2
      <4>4. QED
        BY <4>1, <4>3, FS_Singleton
    <3>2. CASE c = head
      <4>1. head \in Freeing(c)
        BY <1>1, <2>1, <2>2, <3>2 DEF Comp
      <4>2. ASSUME NEW p \in Freeing(c)
            PROVE  p = head
        BY <4>2, <1>1, <2>1, <2>2, <3>2 DEF Comp
      <4>3. Freeing(c) = {head}
        BY <4>1, <4>2
      <4>4. QED
        BY <3>2, <4>3, FS_Singleton
    <3>3. CASE c > head
      <4> DEFINE both == {head} \cup {head + 1}
      <4>1. both \subseteq Freeing(c) /\ c \in Chain(head) \ {head}
        BY <1>1, <2>1, <2>2, <3>3 DEF Comp
      <4>2. ASSUME NEW p \in Freeing(c)
            PROVE  p \in both
        BY <4>2, <1>1, <2>1, <2>2, <3>3 DEF Comp
      <4>3. Freeing(c) = both
        BY <4>1, <4>2
      <4>4. IsFiniteSet({head}) /\ Cardinality({head}) = 1
        BY FS_Singleton
      <4>5. head + 1 \notin {head}
        BY <1>1 DEF Comp
      <4>6. Cardinality({head} \cup {head + 1}) = Cardinality({head}) + 1
        BY <4>4, <4>5, FS_AddElement
      <4>7. Cardinality({head} \cup {head + 1}) = 2
        BY <4>4, <4>6
      <4>8. QED
        BY <4>1, <4>3, <4>7
    <3>4. QED
      BY <1>1, <3>1, <3>2, <3>3 DEF Comp
  <2>4. \A c \in Comp : freed[c] + Cardinality(Freeing(c))
                          = IF c \in Chain(head) \ {head} THEN 2 ELSE 1
    <3>1. ASSUME NEW c \in Comp
          PROVE  /\ freed[c] = 0
                 /\ Cardinality(Freeing(c))
                      = IF c \in Chain(head) \ {head} THEN 2 ELSE 1
      BY <1>1, <2>3
    <3>2. QED
      BY <3>1
  <2>5. QED
    BY <1>1, <1>4, <2>4, UnwindPreserves
<1>5. QED
  BY <1>3, <1>4 DEF SecureNext

LEMMA CutHeadPreserves == IInv /\ CutHead => IInv'
<1> SUFFICES ASSUME IInv, CutHead
             PROVE  IInv'
  OBVIOUS
<1> USE ConfigurationAssumption
<1>1. /\ phase = "cut" /\ phase' = "add" /\ head \in Comp
      /\ link' = [link EXCEPT ![head] = 0]
      /\ UNCHANGED <<head, next, components, freed>>
      /\ UNCHANGED <<options, cells, args, file, history>>
  BY DEF CutHead, IInv, Loading, TypeOK
<1>2. \A c \in Comp : link'[c] = IF c = head THEN 0 ELSE link[c]
  BY <1>1 DEF IInv, TypeOK
<1>3. TypeOK'
  BY <1>1 DEF IInv, TypeOK, options, history
<1>4. Loading'
  BY <1>1, <1>2 DEF IInv, Loading
<1>5. QED
  BY <1>1, <1>3, <1>4, ValuesUntouched DEF IInv

\* At "add" nobody is linked to anything that somebody else owns.
LEMMA AddComponentPreserves == IInv /\ AddComponent => IInv'
<1> SUFFICES ASSUME IInv, AddComponent
             PROVE  IInv'
  OBVIOUS
<1> USE ConfigurationAssumption
<1>1. /\ phase = "add" /\ head \in Comp /\ next = Succ(head)
      /\ components \subseteq Comp
      /\ UNCHANGED <<options, cells, args, file, history>>
  BY DEF AddComponent, IInv, Loading, TypeOK
<1>2. \A c \in Comp :
        /\ freed[c] = 0
        /\ c \in components <=> c < head
        /\ link[c] = IF c <= head THEN 0 ELSE Succ(c)
  BY <1>1 DEF IInv, Loading, Comp
<1>3. CASE /\ components' = components \cup {head}
           /\ head' = next
           /\ next' = 0
           /\ phase' = "secure"
           /\ UNCHANGED <<link, freed>>
  <2>1. TypeOK'
    BY <1>1, <1>3 DEF IInv, TypeOK, options, history
  <2>2. \A c \in Comp : head' = 0 \/ c < head' <=> c <= head
    BY <1>1, <1>3 DEF Comp, Succ
  <2>3. \A c \in Comp : c \in components' <=> c <= head
    BY <1>1, <1>2, <1>3 DEF Comp
  <2>4. Loading'
    BY <1>2, <1>3, <2>2, <2>3 DEF Loading
  <2>5. QED
    BY <1>1, <2>1, <2>4, ValuesUntouched DEF IInv
<1>4. CASE Unwind({})
  <2> DEFINE Freeing(c) ==
        {p \in components \cup {head, next} \cup {} : c \in Chain(p)}
  <2>1. \A c \in Comp : freed[c] + Cardinality(Owners(c)) = 1
    BY <1>1, OneOwnerEach DEF IInv
  <2>2. Chain(head) = {head}
    BY <1>1, OwnersAtAdd DEF IInv
  <2>3. ASSUME NEW c \in Comp
        PROVE  Freeing(c) = Owners(c)
    BY DEF Owners
  <2>4. \A c \in Comp : freed[c] + Cardinality(Freeing(c))
                          = IF c \in Chain(head) \ {head} THEN 2 ELSE 1
    BY <2>1, <2>2, <2>3
  <2>5. QED
    BY <1>1, <1>4, <2>4, UnwindPreserves
<1>5. QED
  BY <1>3, <1>4 DEF AddComponent

LEMMA LoadReturnsPreserves == IInv /\ LoadReturns => IInv'
<1> SUFFICES ASSUME IInv, LoadReturns
             PROVE  IInv'
  OBVIOUS
<1>1. /\ phase = "secure" /\ head = 0 /\ phase' = "done"
      /\ UNCHANGED <<head, next, link, components, freed>>
      /\ UNCHANGED <<options, cells, args, file, history>>
  BY DEF LoadReturns
<1>2. TypeOK'
  BY <1>1 DEF IInv, TypeOK, options, history
<1>3. Loading'
  BY <1>1 DEF IInv, Loading
<1>4. QED
  BY <1>1, <1>2, <1>3, ValuesUntouched DEF IInv

\* The last Component object for c: the component is alone, and the values that
\* its options were given go with it.
LEMMA DropComponentPreserves ==
  ASSUME IInv, NEW c \in Comp, DropComponent(c)
  PROVE  IInv'
<1> USE ConfigurationAssumption
<1>1. /\ phase = "done" /\ c \in components
      /\ components' = components \ {c}
      /\ Release({c})
      /\ newvalue' = [o \in Option |-> IF ParentOf[o] = c THEN Nil ELSE newvalue[o]]
      /\ cells' = [x \in Cell |->
                     IF \E o \in Option : ParentOf[o] = c /\ newvalue[o] = x
                     THEN Free ELSE cells[x]]
      /\ UNCHANGED <<phase, head, next, link, value, changed, args, file, history>>
  BY DEF DropComponent, loading
<1>2. link[c] = 0 /\ \A d \in Comp : freed[d] = IF d \in components THEN 0 ELSE 1
  BY <1>1 DEF IInv, Loading
<1>3. \A d \in Comp : freed'[d] = IF d \in components' THEN 0 ELSE 1
  <2>1. Chain(c) = {c}
    BY <1>2, ChainAlone
  <2>2. ASSUME NEW d \in Comp
        PROVE  {p \in {c} : d \in Chain(p)} = IF d = c THEN {c} ELSE {}
    BY <2>1
  <2>3. ASSUME NEW d \in Comp
        PROVE  Cardinality({p \in {c} : d \in Chain(p)}) = IF d = c THEN 1 ELSE 0
    BY <2>2, FS_Singleton, FS_EmptySet
  <2>4. \A d \in Comp : freed'[d] = freed[d] + IF d = c THEN 1 ELSE 0
    BY <1>1, <2>3 DEF Release
  <2>5. QED
    BY <1>1, <1>2, <2>4
<1>4. Loading'
  BY <1>1, <1>3 DEF IInv, Loading
<1>5. freed' \in [Comp -> Nat]
  BY <1>1, <1>3 DEF Release
<1>6. TypeOK'
  BY <1>1, <1>5 DEF IInv, TypeOK, history
<1>7. /\ \A o \in Option : newvalue'[o] = IF ParentOf[o] = c THEN Nil ELSE newvalue[o]
      /\ \A x \in Cell : cells'[x] =
           IF \E o \in Option : ParentOf[o] = c /\ newvalue[o] = x
           THEN Free ELSE cells[x]
      /\ \A o \in Option : newvalue[o] \in Cell \cup {Nil}
      /\ \A h \in Handle : args[h].cell \in Cell \cup {Nil}
      /\ args' = args
  BY <1>1 DEF IInv, TypeOK
<1>8. CellsHeld'
  BY <1>7 DEF IInv, CellsHeld, NotShared
<1>9. NotShared'
  BY <1>7 DEF IInv, NotShared
<1>10. Typed'
  BY <1>1, <1>7 DEF IInv, NotShared, Typed, history
<1>11. StaleAccessKnown' /\ TypesMatch'
  BY <1>1 DEF IInv, StaleAccessKnown, TypesMatch, history
<1>12. QED
  BY <1>4, <1>6, <1>8, <1>9, <1>10, <1>11 DEF IInv

-----------------------------------------------------------------------------
\* The functions of options and Arguments leave the components alone.
LEMMA ComponentsUntouched ==
  ASSUME IInv, UNCHANGED <<loading, components, freed>>
  PROVE  Loading'
<1>1. /\ phase' = phase /\ head' = head /\ next' = next /\ link' = link
      /\ components' = components /\ freed' = freed
  BY DEF loading
<1>2. Chain(head)' = Chain(head)
  BY <1>1 DEF Chain
<1>3. QED
  BY <1>1, <1>2 DEF IInv, Loading

\* Who asks the weak pointer first reads no option that was freed, and what the
\* others read is "Argument".
LEMMA AccessKnown ==
  ASSUME IInv, NEW who \in {"Option", "Argument"}, NEW o \in Option,
         Access(who, o), phase = "done",
         who = "Option" => ~Expired(o)
  PROVE  stale' \subseteq {"Argument"}
<1>1. ParentOf[o] \in Comp
  BY ConfigurationAssumption
<1>2. who = "Option" => freed[ParentOf[o]] = 0
  BY <1>1 DEF IInv, Loading, Expired
<1>3. QED
  BY <1>2 DEF Access, IInv, StaleAccessKnown

\* What an option was set to is a value.
LEMMA NewValueTyped ==
  ASSUME IInv, NEW o \in Option
  PROVE  NewValue(o) \in Value \cup {Default, Unset}
<1>1. CASE newvalue[o] = Nil
  BY <1>1 DEF NewValue
<1>2. CASE newvalue[o] # Nil
  <2>1. newvalue[o] \in Cell
    BY <1>2 DEF IInv, TypeOK
  <2>2. cells[newvalue[o]] \in Content
    BY <2>1 DEF IInv, TypeOK, CellsHeld
  <2>3. QED
    BY <1>2, <2>2 DEF NewValue, Content
<1>3. QED
  BY <1>1, <1>2

\* An Argument object that had no cell gets one of its own, or none.
LEMMA FilledKeepsOwners ==
  ASSUME IInv, NEW h \in Handle, NEW o \in Option, NEW content \in Content,
         args[h] = NoArg, Filled(h, o, content),
         newvalue' = newvalue,
         misused => misused', ~misused' => content.type = AltType[o]
  PROVE  /\ cells' \in [Cell -> Content \cup {Free}]
         /\ args' \in [Handle -> [opt : Option \cup {Unset}, cell : Cell \cup {Nil}]]
         /\ CellsHeld' /\ NotShared' /\ Typed'
<1> USE ConfigurationAssumption
<1>1. /\ args[h].cell = Nil
      /\ \A g \in Handle : args[g].cell \in Cell \cup {Nil}
      /\ \A p \in Option : newvalue[p] \in Cell \cup {Nil}
  BY DEF NoArg, IInv, TypeOK
<1>2. ASSUME NEW x \in Cell, cells[x] = Free,
             cells' = [cells EXCEPT ![x] = content],
             args' = [args EXCEPT ![h] = [opt |-> o, cell |-> x]]
      PROVE  /\ cells' \in [Cell -> Content \cup {Free}]
             /\ args' \in [Handle -> [opt : Option \cup {Unset}, cell : Cell \cup {Nil}]]
             /\ CellsHeld' /\ NotShared' /\ Typed'
  <2>1. /\ \A g \in Handle : args'[g] = IF g = h THEN [opt |-> o, cell |-> x] ELSE args[g]
        /\ \A y \in Cell : cells'[y] = IF y = x THEN content ELSE cells[y]
    BY <1>2 DEF IInv, TypeOK
  <2>2. /\ \A g \in Handle : args[g].cell # x
        /\ \A p \in Option : newvalue[p] # x
    BY <1>2 DEF IInv, CellsHeld
  <2>3. /\ cells' \in [Cell -> Content \cup {Free}]
        /\ args' \in [Handle -> [opt : Option \cup {Unset}, cell : Cell \cup {Nil}]]
    BY <1>2 DEF IInv, TypeOK
  <2>4. CellsHeld'
    BY <1>1, <2>1, <2>2 DEF IInv, CellsHeld
  <2>5. NotShared'
    BY <1>1, <2>1, <2>2 DEF IInv, NotShared
  <2>6. Typed'
    BY <1>1, <2>1, <2>2 DEF IInv, Typed
  <2>7. QED
    BY <2>3, <2>4, <2>5, <2>6
<1>3. ASSUME args' = [args EXCEPT ![h] = [opt |-> o, cell |-> Nil]],
             cells' = cells
      PROVE  /\ cells' \in [Cell -> Content \cup {Free}]
             /\ args' \in [Handle -> [opt : Option \cup {Unset}, cell : Cell \cup {Nil}]]
             /\ CellsHeld' /\ NotShared' /\ Typed'
  <2>1. \A g \in Handle : args'[g].cell = args[g].cell
                          /\ (args[g].cell # Nil => args'[g] = args[g])
    BY <1>1, <1>3 DEF IInv, TypeOK
  <2>2. /\ cells' \in [Cell -> Content \cup {Free}]
        /\ args' \in [Handle -> [opt : Option \cup {Unset}, cell : Cell \cup {Nil}]]
    BY <1>3 DEF IInv, TypeOK
  <2>3. CellsHeld'
    BY <1>3, <2>1 DEF IInv, CellsHeld
  <2>4. NotShared'
    BY <2>1 DEF IInv, NotShared
  <2>5. Typed'
    BY <1>3, <2>1 DEF IInv, Typed
  <2>6. QED
    BY <2>2, <2>3, <2>4, <2>5
<1>4. QED
  BY <1>2, <1>3 DEF Filled

LEMMA GetValuePreserves ==
  ASSUME IInv, NEW h \in Handle, NEW o \in Option, GetValue(h, o)
  PROVE  IInv'
<1>1. /\ phase = "done" /\ args[h] = NoArg /\ ~Expired(o) /\ Access("Option", o)
      /\ UNCHANGED <<loading, components, freed, options, file, confused, misused>>
  BY DEF GetValue
<1>2. PICK v \in {Default, value[o], NewValue(o), CurrentValue(o)} : Copied(h, o, v)
  BY DEF GetValue
<1>3. v \in Value \cup {Default, Unset}
  BY NewValueTyped DEF CurrentValue, Effective, IInv, TypeOK
<1>4. \E content \in Content : /\ content.type = AltType[o]
                               /\ Filled(h, o, content)
  <2>1. CASE v = Unset
    <3>1. Filled(h, o, [type |-> AltType[o], val |-> Default])
      BY <1>2, <2>1 DEF Copied, Filled
    <3>2. [type |-> AltType[o], val |-> Default] \in Content
      BY ConfigurationAssumption DEF Content
    <3>3. QED
      BY <3>1, <3>2
  <2>2. CASE v # Unset
    <3>1. Filled(h, o, [type |-> AltType[o], val |-> v])
      BY <1>2, <2>2 DEF Copied
    <3>2. [type |-> AltType[o], val |-> v] \in Content
      BY <1>3, <2>2, ConfigurationAssumption DEF Content
    <3>3. QED
      BY <3>1, <3>2
  <2>3. QED
    BY <2>1, <2>2
<1>5. /\ cells' \in [Cell -> Content \cup {Free}]
      /\ args' \in [Handle -> [opt : Option \cup {Unset}, cell : Cell \cup {Nil}]]
      /\ CellsHeld' /\ NotShared' /\ Typed'
  BY <1>1, <1>4, FilledKeepsOwners DEF options
<1>6. stale' \subseteq {"Argument"}
  BY <1>1, AccessKnown
<1>7. TypeOK'
  BY <1>1, <1>5, <1>6 DEF IInv, TypeOK, loading, options
<1>8. QED
  BY <1>1, <1>5, <1>6, <1>7, ComponentsUntouched
     DEF IInv, StaleAccessKnown, TypesMatch

LEMMA CreateArgumentPreserves ==
  ASSUME IInv, NEW h \in Handle, NEW o \in Option, NEW t \in Type,
         CreateArgument(h, o, t)
  PROVE  IInv'
<1>1. /\ phase = "done" /\ args[h] = NoArg /\ ~Expired(o) /\ AltType[o] = t
      /\ Access("Option", o)
      /\ UNCHANGED <<loading, components, freed, options, file, confused, misused>>
  BY DEF CreateArgument, Suits
<1>2. PICK v \in Value : Filled(h, o, [type |-> t, val |-> v])
  BY DEF CreateArgument
<1>3. [type |-> t, val |-> v] \in Content
  BY DEF Content
<1>4. /\ cells' \in [Cell -> Content \cup {Free}]
      /\ args' \in [Handle -> [opt : Option \cup {Unset}, cell : Cell \cup {Nil}]]
      /\ CellsHeld' /\ NotShared' /\ Typed'
  BY <1>1, <1>2, <1>3, FilledKeepsOwners DEF options
<1>5. stale' \subseteq {"Argument"}
  BY <1>1, AccessKnown
<1>6. TypeOK'
  BY <1>1, <1>4, <1>5 DEF IInv, TypeOK, loading, options
<1>7. QED
  BY <1>1, <1>4, <1>5, <1>6, ComponentsUntouched
     DEF IInv, StaleAccessKnown, TypesMatch

\* Lists are made for an option of any type: this is one place where the
\* application may mix types up.
LEMMA CreateListArgumentPreserves ==
  ASSUME IInv, NEW h \in Handle, NEW o \in Option, NEW t \in Type,
         CreateListArgument(h, o, t)
  PROVE  IInv'
<1>1. /\ args[h] = NoArg
      /\ misused' = (misused \/ t # AltType[o])
      /\ UNCHANGED <<loading, components, freed, options, file, stale, confused>>
  BY DEF CreateListArgument
<1>2. PICK v \in Value : Filled(h, o, [type |-> t, val |-> v])
  BY DEF CreateListArgument
<1>3. [type |-> t, val |-> v] \in Content
  BY DEF Content
<1>4. /\ cells' \in [Cell -> Content \cup {Free}]
      /\ args' \in [Handle -> [opt : Option \cup {Unset}, cell : Cell \cup {Nil}]]
      /\ CellsHeld' /\ NotShared' /\ Typed'
  BY <1>1, <1>2, <1>3, FilledKeepsOwners DEF options
<1>5. TypeOK'
  BY <1>1, <1>4 DEF IInv, TypeOK, loading, options
<1>6. QED
  BY <1>1, <1>4, <1>5, ComponentsUntouched
     DEF IInv, StaleAccessKnown, TypesMatch

\* The copy has the type of the option; it is wrong only if the original was.
LEMMA CopyArgumentPreserves ==
  ASSUME IInv, NEW h \in Handle, NEW g \in Handle, CopyArgument(h, g)
  PROVE  IInv'
<1> DEFINE a == args[g]
<1>1. /\ phase = "done" /\ args[h] = NoArg
      /\ a.opt \in Option /\ a.cell \in Cell \cup {Nil}
      /\ Access("Argument", a.opt)
      /\ UNCHANGED <<loading, components, freed, options, file, misused>>
  BY DEF CopyArgument, IInv, TypeOK
<1>2. /\ \E content \in Content : /\ content.type = AltType[a.opt]
                                  /\ Filled(h, a.opt, content)
      /\ confused' \in BOOLEAN
      /\ confused' => confused \/ misused
  <2>1. CASE /\ a.cell # Nil
             /\ Filled(h, a.opt, [type |-> AltType[a.opt], val |-> cells[a.cell].val])
             /\ confused' = (confused \/ cells[a.cell].type # AltType[a.opt])
    <3>1. a.cell \in Cell /\ cells[a.cell] # Free
      BY <1>1, <2>1 DEF IInv, CellsHeld
    <3>2. cells[a.cell] \in Content
      BY <3>1 DEF IInv, TypeOK
    <3>3. [type |-> AltType[a.opt], val |-> cells[a.cell].val] \in Content
      BY <1>1, <3>2, ConfigurationAssumption DEF Content
    <3>4. ~misused => cells[a.cell].type = AltType[a.opt]
      BY <2>1 DEF IInv, Typed
    <3>5. QED
      BY <2>1, <3>3, <3>4
  <2>2. CASE /\ a.cell = Nil
             /\ args' = [args EXCEPT ![h] = a]
             /\ UNCHANGED <<cells, confused>>
    <3>1. a = [opt |-> a.opt, cell |-> Nil]
      BY <2>2 DEF IInv, TypeOK
    <3>2. Filled(h, a.opt, [type |-> AltType[a.opt], val |-> Default])
      BY <2>2, <3>1 DEF Filled
    <3>3. [type |-> AltType[a.opt], val |-> Default] \in Content
      BY <1>1, ConfigurationAssumption DEF Content
    <3>4. QED
      BY <2>2, <3>2, <3>3 DEF IInv, TypeOK
  <2>3. QED
    BY <2>1, <2>2 DEF CopyArgument
<1>3. /\ cells' \in [Cell -> Content \cup {Free}]
      /\ args' \in [Handle -> [opt : Option \cup {Unset}, cell : Cell \cup {Nil}]]
      /\ CellsHeld' /\ NotShared' /\ Typed'
  BY <1>1, <1>2, FilledKeepsOwners DEF options
<1>4. stale' \subseteq {"Argument"}
  BY <1>1, AccessKnown
<1>5. TypeOK'
  BY <1>1, <1>2, <1>3, <1>4 DEF IInv, TypeOK, loading, options
<1>6. QED
  BY <1>1, <1>2, <1>3, <1>4, <1>5, ComponentsUntouched
     DEF IInv, StaleAccessKnown, TypesMatch

\* The destructor may run at any time, also when the option is long gone.
LEMMA DestroyArgumentPreserves ==
  ASSUME IInv, NEW h \in Handle, DestroyArgument(h)
  PROVE  IInv'
<1> USE ConfigurationAssumption
<1> DEFINE a == args[h]
<1>1. /\ a.opt \in Option /\ a.cell \in Cell \cup {Nil}
      /\ Access("Argument", a.opt)
      /\ args' = [args EXCEPT ![h] = NoArg]
      /\ cells' = [x \in Cell |-> IF x = a.cell THEN Free ELSE cells[x]]
      /\ confused' = (confused \/ (a.cell # Nil /\ cells[a.cell].type # AltType[a.opt]))
      /\ UNCHANGED <<loading, components, freed, options, file, misused>>
  BY DEF DestroyArgument, IInv, TypeOK
<1>2. /\ \A g \in Handle : args'[g] = IF g = h THEN NoArg ELSE args[g]
      /\ \A x \in Cell : cells'[x] = IF x = a.cell THEN Free ELSE cells[x]
      /\ \A g \in Handle : args[g].cell \in Cell \cup {Nil}
      /\ \A o \in Option : newvalue[o] \in Cell \cup {Nil}
      /\ newvalue' = newvalue
  BY <1>1 DEF IInv, TypeOK, options
<1>3. CellsHeld'
  BY <1>2 DEF IInv, CellsHeld, NotShared, NoArg
<1>4. NotShared'
  BY <1>2 DEF IInv, NotShared, NoArg
<1>5. Typed'
  BY <1>1, <1>2 DEF IInv, NotShared, Typed, NoArg
<1>6. confused' \in BOOLEAN /\ (confused' => confused \/ misused)
  BY <1>1 DEF IInv, Typed
<1>7. stale' \subseteq {"Argument"}
  BY <1>1 DEF Access, IInv, StaleAccessKnown
<1>8. args' \in [Handle -> [opt : Option \cup {Unset}, cell : Cell \cup {Nil}]]
  BY <1>1 DEF IInv, TypeOK, NoArg
<1>9. TypeOK'
  BY <1>1, <1>6, <1>7, <1>8 DEF IInv, TypeOK, loading, options
<1>10. QED
  BY <1>1, <1>3, <1>4, <1>5, <1>6, <1>7, <1>9, ComponentsUntouched
     DEF IInv, StaleAccessKnown, TypesMatch

\* gpgme_conf_opt_change(): an option gives up its cell and may take over one
\* that was just filled.
LEMMA ChangeKeepsOwners ==
  ASSUME IInv, NEW o \in Option, NEW x \in Cell \cup {Nil}, NEW to \in BOOLEAN,
         NEW content \in Content, Change(o, x, to),
         x # Nil => cells[x] = Free,
         cells' = IF x = Nil THEN Discarded(o) ELSE [Discarded(o) EXCEPT ![x] = content],
         args' = args, misused => misused'
  PROVE  /\ cells' \in [Cell -> Content \cup {Free}]
         /\ newvalue' \in [Option -> Cell \cup {Nil}]
         /\ changed' \in [Option -> BOOLEAN]
         /\ CellsHeld' /\ NotShared' /\ Typed'
<1> USE ConfigurationAssumption
<1>1. /\ \A p \in Option : newvalue[p] \in Cell \cup {Nil}
      /\ \A h \in Handle : args[h].cell \in Cell \cup {Nil}
  BY DEF IInv, TypeOK
<1>2. x # Nil => /\ \A h \in Handle : args[h].cell # x
                 /\ \A p \in Option : newvalue[p] # x
  BY DEF IInv, CellsHeld
<1>3. /\ newvalue' \in [Option -> Cell \cup {Nil}]
      /\ changed' \in [Option -> BOOLEAN]
      /\ \A p \in Option : newvalue'[p] = IF p = o THEN x ELSE newvalue[p]
  BY DEF Change, IInv, TypeOK
<1>4. /\ Discarded(o) \in [Cell -> Content \cup {Free}]
      /\ \A y \in Cell : Discarded(o)[y] = IF y = newvalue[o] THEN Free ELSE cells[y]
  BY <1>1 DEF Discarded, Without, IInv, TypeOK
<1>5. /\ cells' \in [Cell -> Content \cup {Free}]
      /\ \A y \in Cell : cells'[y] = IF y = x THEN content
                                     ELSE IF y = newvalue[o] THEN Free ELSE cells[y]
  BY <1>4
<1>6. CellsHeld'
  BY <1>1, <1>2, <1>3, <1>5 DEF IInv, CellsHeld, NotShared
<1>7. NotShared'
  BY <1>1, <1>2, <1>3 DEF IInv, NotShared
<1>8. Typed'
  BY <1>1, <1>2, <1>5 DEF IInv, NotShared, Typed
<1>9. QED
  BY <1>3, <1>5, <1>6, <1>7, <1>8

LEMMA ResetPreserves ==
  ASSUME IInv, NEW o \in Option, Reset(o)
  PROVE  IInv'
<1>1. /\ phase = "done" /\ ~Expired(o) /\ Access("Option", o)
      /\ cells' = Discarded(o)
      /\ UNCHANGED <<loading, components, freed, args, file, confused, misused>>
  BY DEF Reset
<1>2. PICK to \in BOOLEAN : Change(o, Nil, to)
  BY DEF Reset
<1>3. [type |-> "number", val |-> Default] \in Content
  BY DEF Content, Type
<1>4. /\ cells' \in [Cell -> Content \cup {Free}]
      /\ newvalue' \in [Option -> Cell \cup {Nil}]
      /\ changed' \in [Option -> BOOLEAN]
      /\ CellsHeld' /\ NotShared' /\ Typed'
  BY <1>1, <1>2, <1>3, ChangeKeepsOwners
<1>5. stale' \subseteq {"Argument"}
  BY <1>1, AccessKnown
<1>6. TypeOK'
  BY <1>1, <1>2, <1>4, <1>5 DEF IInv, TypeOK, loading, Change
<1>7. QED
  BY <1>1, <1>4, <1>5, <1>6, ComponentsUntouched
     DEF IInv, StaleAccessKnown, TypesMatch

\* The other place where types may be mixed up.
LEMMA SetNewValuePreserves ==
  ASSUME IInv, NEW o \in Option, NEW h \in Handle, SetNewValue(o, h)
  PROVE  IInv'
<1> USE ConfigurationAssumption
<1> DEFINE a == args[h]
<1>1. /\ phase = "done" /\ ~Expired(o) /\ Access("Option", o)
      /\ UNCHANGED <<loading, components, freed, args, file>>
  BY DEF SetNewValue
<1>2. stale' \subseteq {"Argument"}
  BY <1>1, AccessKnown
<1>3. CASE /\ ArgumentNull(a)
           /\ Change(o, Nil, TRUE)
           /\ cells' = Discarded(o)
           /\ UNCHANGED <<confused, misused>>
  <2>1. [type |-> "number", val |-> Default] \in Content
    BY DEF Content, Type
  <2>2. /\ cells' \in [Cell -> Content \cup {Free}]
        /\ newvalue' \in [Option -> Cell \cup {Nil}]
        /\ changed' \in [Option -> BOOLEAN]
        /\ CellsHeld' /\ NotShared' /\ Typed'
    BY <1>1, <1>3, <2>1, ChangeKeepsOwners
  <2>3. TypeOK'
    BY <1>1, <1>2, <1>3, <2>2 DEF IInv, TypeOK, loading, Change
  <2>4. QED
    BY <1>1, <1>2, <1>3, <2>2, <2>3, ComponentsUntouched
       DEF IInv, StaleAccessKnown, TypesMatch
<1>4. CASE /\ ~ArgumentNull(a)
           /\ confused' = (confused \/ cells[a.cell].type # AltType[o])
           /\ misused' = (misused \/ AltType[a.opt] # AltType[o])
  <2>1. a.cell # Nil /\ a.cell \in Cell
    BY <1>4 DEF ArgumentNull, IInv, TypeOK
  <2>2. cells[a.cell] \in Content
    BY <2>1 DEF IInv, CellsHeld, TypeOK
  <2>3. ~misused => cells[a.cell].type = AltType[a.opt]
    BY <2>1 DEF IInv, Typed
  <2>4. {confused', misused'} \subseteq BOOLEAN /\ (confused' => misused')
    BY <1>4, <2>3 DEF IInv, TypesMatch
  <2>5. misused => misused'
    BY <1>4
  <2>6. CASE \E x \in Cell :
               /\ cells[x] = Free
               /\ Change(o, x, TRUE)
               /\ cells' = [Discarded(o) EXCEPT
                              ![x] = [type |-> AltType[o], val |-> cells[a.cell].val]]
    <3>1. [type |-> AltType[o], val |-> cells[a.cell].val] \in Content
      BY <2>2 DEF Content
    <3>2. /\ cells' \in [Cell -> Content \cup {Free}]
          /\ newvalue' \in [Option -> Cell \cup {Nil}]
          /\ changed' \in [Option -> BOOLEAN]
          /\ CellsHeld' /\ NotShared' /\ Typed'
      BY <1>1, <2>5, <2>6, <3>1, ChangeKeepsOwners
    <3>3. TypeOK'
      BY <1>1, <1>2, <2>4, <2>6, <3>2 DEF IInv, TypeOK, loading, Change
    <3>4. QED
      BY <1>1, <1>2, <2>4, <3>2, <3>3, ComponentsUntouched
         DEF IInv, StaleAccessKnown, TypesMatch
  <2>7. CASE UNCHANGED <<options, cells>>
    <3>1. CellsHeld' /\ NotShared' /\ Typed'
      BY <1>1, <2>5, <2>7 DEF IInv, CellsHeld, NotShared, Typed, options
    <3>2. TypeOK'
      BY <1>1, <1>2, <2>4, <2>7 DEF IInv, TypeOK, loading, options
    <3>3. QED
      BY <1>1, <1>2, <2>4, <3>1, <3>2, ComponentsUntouched
         DEF IInv, StaleAccessKnown, TypesMatch
  <2>8. QED
    BY <1>4, <2>6, <2>7 DEF SetNewValue
<1>5. QED
  BY <1>3, <1>4 DEF SetNewValue

LEMMA ReadOptionPreserves ==
  ASSUME IInv, NEW o \in Option, ReadOption(o)
  PROVE  IInv'
<1>1. /\ phase = "done" /\ ~Expired(o) /\ Access("Option", o)
      /\ UNCHANGED <<loading, components, freed, options, cells, args, file, confused,
                     misused>>
  BY DEF ReadOption
<1>2. stale' \subseteq {"Argument"}
  BY <1>1, AccessKnown
<1>3. TypeOK'
  BY <1>1, <1>2 DEF IInv, TypeOK, loading, options
<1>4. CellsHeld' /\ NotShared' /\ Typed' /\ TypesMatch'
  BY <1>1 DEF IInv, CellsHeld, NotShared, Typed, TypesMatch, options
<1>5. QED
  BY <1>1, <1>2, <1>3, <1>4, ComponentsUntouched DEF IInv, StaleAccessKnown

LEMMA ReadArgumentPreserves ==
  ASSUME IInv, NEW h \in Handle, NEW t \in Type, ReadArgument(h, t)
  PROVE  IInv'
<1> DEFINE a == args[h]
<1>1. /\ a.cell # Nil /\ AltType[a.opt] = t
      /\ Access("Argument", a.opt)
      /\ confused' = (confused \/ cells[a.cell].type # t)
      /\ UNCHANGED <<loading, components, freed, options, cells, args, file, misused>>
  BY DEF ReadArgument, ArgumentNull
<1>2. stale' \subseteq {"Argument"}
  BY <1>1 DEF Access, IInv, StaleAccessKnown
<1>3. confused' \in BOOLEAN /\ TypesMatch'
  BY <1>1 DEF IInv, Typed, TypesMatch
<1>4. TypeOK'
  BY <1>1, <1>2, <1>3 DEF IInv, TypeOK, loading, options
<1>5. CellsHeld' /\ NotShared' /\ Typed'
  BY <1>1 DEF IInv, CellsHeld, NotShared, Typed, options
<1>6. QED
  BY <1>1, <1>2, <1>3, <1>4, <1>5, ComponentsUntouched DEF IInv, StaleAccessKnown

LEMMA SavePreserves ==
  ASSUME IInv, NEW c \in Comp, Save(c)
  PROVE  IInv'
<1>1. UNCHANGED <<loading, components, freed, options, cells, args, history>>
  BY DEF Save
<1>2. PICK some \in SUBSET Dirty(c) : file' = Written(some)
  BY DEF Save
<1>3. file' \in [Option -> Value \cup {Default, Unset}]
  BY <1>2, NewValueTyped DEF Written, IInv, TypeOK
<1>4. TypeOK'
  BY <1>1, <1>3 DEF IInv, TypeOK, loading, options, history
<1>5. CellsHeld' /\ NotShared' /\ Typed' /\ StaleAccessKnown' /\ TypesMatch'
  BY <1>1 DEF IInv, CellsHeld, NotShared, Typed, StaleAccessKnown, TypesMatch,
              options, history
<1>6. QED
  BY <1>1, <1>4, <1>5, ComponentsUntouched DEF IInv

-----------------------------------------------------------------------------
LEMMA NextPreserves == IInv /\ [Next]_vars => IInv'
<1> SUFFICES ASSUME IInv, [Next]_vars
             PROVE  IInv'
  OBVIOUS
<1>1. CASE Load \/ SecureNext \/ CutHead \/ AddComponent \/ LoadReturns
  BY <1>1, LoadPreserves, SecureNextPreserves, CutHeadPreserves,
     AddComponentPreserves, LoadReturnsPreserves
<1>2. ASSUME NEW c \in Comp, DropComponent(c) \/ Save(c)
      PROVE  IInv'
  BY <1>2, DropComponentPreserves, SavePreserves
<1>3. ASSUME NEW o \in Option, Reset(o) \/ ReadOption(o)
      PROVE  IInv'
  BY <1>3, ResetPreserves, ReadOptionPreserves
<1>4. ASSUME NEW h \in Handle, NEW o \in Option, GetValue(h, o) \/ SetNewValue(o, h)
      PROVE  IInv'
  BY <1>4, GetValuePreserves, SetNewValuePreserves
<1>5. ASSUME NEW h \in Handle, NEW o \in Option, NEW t \in Type,
             CreateArgument(h, o, t) \/ CreateListArgument(h, o, t)
      PROVE  IInv'
  BY <1>5, CreateArgumentPreserves, CreateListArgumentPreserves
<1>6. ASSUME NEW h \in Handle, NEW t \in Type, ReadArgument(h, t)
      PROVE  IInv'
  BY <1>6, ReadArgumentPreserves
<1>7. ASSUME NEW h \in Handle, NEW g \in Handle, CopyArgument(h, g)
      PROVE  IInv'
  BY <1>7, CopyArgumentPreserves
<1>8. ASSUME NEW h \in Handle, DestroyArgument(h)
      PROVE  IInv'
  BY <1>8, DestroyArgumentPreserves
<1>9. CASE UNCHANGED vars
  <2>1. UNCHANGED <<loading, components, freed, options, cells, args, file, history>>
    BY <1>9 DEF vars
  <2>2. TypeOK'
    BY <2>1 DEF IInv, TypeOK, loading, options, history
  <2>3. QED
    BY <2>1, <2>2, ComponentsUntouched, ValuesUntouched DEF IInv
<1>10. QED
  BY <1>1, <1>2, <1>3, <1>4, <1>5, <1>6, <1>7, <1>8, <1>9 DEF Next

LEMMA Invariance == Spec => []IInv
<1>1. QED
  BY InitEstablishes, NextPreserves, PTL DEF Spec

\* load() and what follows it free every component once, however many gpgme
\* returns and wherever memory runs out, with the one exception that FreedOnce
\* names; no component is without an owner.
THEOREM ComponentsFreedOnce == Spec => []FreedOnce
<1>1. IInv => FreedOnce
  BY ImpliesFreedOnce DEF IInv
<1>2. QED
  BY <1>1, Invariance, PTL

\* Two owners of a cell would be two Arguments, two options, or one of each.
LEMMA ImpliesOneOwner == IInv => OneOwner
<1> SUFFICES ASSUME IInv, NEW x \in Cell
             PROVE  Cardinality({h \in Handle : args[h].cell = x} \cup
                                {o \in Option : newvalue[o] = x})
                      = IF cells[x] = Free THEN 0 ELSE 1
  BY DEF OneOwner, IInv
<1> DEFINE owners == {h \in Handle : args[h].cell = x} \cup
                     {o \in Option : newvalue[o] = x}
<1>1. x # Nil
  BY ConfigurationAssumption
<1>2. CASE cells[x] = Free
  <2>1. owners = {}
    BY <1>2 DEF IInv, CellsHeld
  <2>2. QED
    BY <1>2, <2>1, FS_EmptySet
<1>3. CASE cells[x] # Free
  <2>1. PICK e : e \in owners
    BY <1>3 DEF IInv, CellsHeld
  <2>2. ASSUME NEW d \in owners
        PROVE  d = e
    BY <1>1, <2>1 DEF IInv, NotShared
  <2>3. owners = {e}
    BY <2>1, <2>2
  <2>4. QED
    BY <1>3, <2>3, FS_Singleton
<1>4. QED
  BY <1>2, <1>3

\* The copies of values that Arguments and options own: each has one owner for
\* as long as it exists, for any number of Arguments and options.
THEOREM ValuesOwnedOnce == Spec => []OneOwner
<1>1. QED
  BY ImpliesOneOwner, Invariance, PTL

\* Options of components that are gone are read by the copy constructor and
\* the destructor of Argument, and by nothing else.
THEOREM StaleReadsKnown == Spec => []StaleAccessKnown
<1>1. IInv => StaleAccessKnown
  BY DEF IInv
<1>2. QED
  BY <1>1, Invariance, PTL

\* An application that keeps the types of its options never has a value read
\* or released under another type.
THEOREM TypesKept == Spec => []TypesMatch
<1>1. IInv => TypesMatch
  BY DEF IInv
<1>2. QED
  BY <1>1, Invariance, PTL

\* A step writes to the files only by Save, and then what was shown.
LEMMA WritesWhatIsShown ==
  ASSUME [Next]_vars
  PROVE  \A o \in Option : file'[o] # file[o] =>
           changed[o] /\ Effective(file'[o]) = CurrentValue(o)
<1>1. ASSUME NEW c \in Comp, Save(c)
      PROVE  \A o \in Option : file'[o] # file[o] =>
               changed[o] /\ Effective(file'[o]) = CurrentValue(o)
  <2>1. PICK some \in SUBSET Dirty(c) : file' = Written(some)
    BY <1>1 DEF Save
  <2>2. \A o \in some : changed[o]
    BY DEF Dirty
  <2>3. QED
    BY <2>1, <2>2 DEF Written, CurrentValue
<1>2. CASE \A c \in Comp : ~Save(c)
  <2>1. file' = file
    BY <1>2 DEF Next, vars, Load, SecureNext, CutHead, AddComponent, LoadReturns,
                DropComponent, Reset, ReadOption, GetValue, SetNewValue,
                CreateArgument, CreateListArgument, ReadArgument, CopyArgument,
                DestroyArgument
  <2>2. QED
    BY <2>1
<1>3. QED
  BY <1>1, <1>2

\* What Component::save() has written for an option is what
\* Option::currentValue() had shown for it, and the option was dirty.
THEOREM SavesWhatIsShown == Spec => SavedIsCurrent
<1>1. [Next]_vars =>
        [\A o \in Option : file'[o] # file[o] =>
           changed[o] /\ Effective(file'[o]) = CurrentValue(o)]_vars
  BY WritesWhatIsShown
<1>2. QED
  BY <1>1, PTL DEF Spec, SavedIsCurrent
=============================================================================
