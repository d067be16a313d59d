--------------------------- MODULE Configuration ---------------------------
(***************************************************************************)
(* GpgME::Configuration: Component::load(), which takes gpgme's linked     *)
(* list of components apart, the options of the components, and Argument   *)
(* objects, each of which owns a copy of a value.  Component objects share *)
(* a component of gpgme's; Option and Argument objects only have a weak    *)
(* pointer to it and a plain one to the option.                            *)
(*                                                                         *)
(* Memory may run out wherever the code allocates.  Reading freed memory   *)
(* or reading a value under another type is undefined; the model notes it  *)
(* in "stale" and "confused" and goes on.                                  *)
(***************************************************************************)
EXTENDS Naturals, FiniteSets

CONSTANTS
  N,         \* number of components that gpgme_op_conf_load() returns
  Option,    \* options of all components
  ParentOf,  \* the component of an option
  AltType,   \* gpgme_conf_opt_t::alt_type of an option
  Value,     \* what an option may be set to
  Unset,     \* a null pointer to a value
  Handle,    \* the Argument objects that the application has room for (bound)
  Cell,      \* the memory for gpgme_conf_arg_t (bound)
  Nil, Free  \* a null pointer to a cell, the contents of an unused cell

\* How a value is stored: as a pointer to a string or as a number.  NoType,
\* IntegerType and UnsignedIntegerType are one type here.
Type == {"string", "number"}
Comp == 1 .. N
Default == "<default>"    \* gpgme_conf_opt_t::default_value, of every option

Content == [type : Type, val : Value \cup {Default}]

ASSUME ConfigurationAssumption ==
  /\ N \in Nat \ {0}
  /\ ParentOf \in [Option -> Comp]
  /\ AltType \in [Option -> Type]
  /\ Unset \notin Value \cup {Default}
  /\ Nil \notin Cell
  /\ Free \notin Content

VARIABLES
  phase,       \* where load() is: "load", "secure", "cut", "add", "done";
               \* "failed" when it returned an error, "thrown" an exception
  head, next,  \* its two shared_ptrs, 0 if null
  link,        \* gpgme_conf_comp_t::next
  components,  \* the components that Component objects share
  freed,       \* how often a component was freed
  value,       \* gpgme_conf_opt_t::value, never assigned
  newvalue,    \* gpgme_conf_opt_t::new_value
  changed,     \* gpgme_conf_opt_t::change_value
  cells,       \* the contents of the cells
  args,        \* the Argument objects: their opt and arg
  file,        \* what the configuration files say
  stale,       \* who has read an option that was freed
  confused,    \* a value was read or released under another type
  misused      \* the application gave an option a value of another type

loading == <<phase, head, next, link>>
options == <<value, newvalue, changed>>
history == <<stale, confused, misused>>
vars    == <<loading, components, freed, options, cells, args, file, history>>

NoArg == [opt |-> Unset, cell |-> Nil]

Init ==
  /\ phase = "load"
  /\ head = 0
  /\ next = 0
  /\ link = [c \in Comp |-> IF c = N THEN 0 ELSE c + 1]
  /\ components = {}
  /\ freed = [c \in Comp |-> 0]
  /\ value \in [Option -> Value \cup {Unset}]
  /\ newvalue = [o \in Option |-> Nil]
  /\ changed = [o \in Option |-> FALSE]
  /\ cells = [c \in Cell |-> Free]
  /\ args = [h \in Handle |-> NoArg]
  /\ file = value
  /\ stale = {}
  /\ confused = FALSE
  /\ misused = FALSE

-----------------------------------------------------------------------------
\* gpgme_conf_release() frees a component and all that follow it.
Chain(c) ==
  IF c = 0 THEN {} ELSE {d \in c .. N : \A k \in c .. d - 1 : link[k] = k + 1}

\* Every one of the shared_ptrs frees what it has.
Release(ptrs) ==
  freed' = [c \in Comp |-> freed[c] + Cardinality({p \in ptrs : c \in Chain(p)})]

\* An exception leaves load(): the vector and the two shared_ptrs go.
Unwind(more) ==
  /\ phase' = "thrown"
  /\ components' = {}
  /\ Release(components \cup {head, next} \cup more)
  /\ UNCHANGED <<head, next, link>>

\* gpgme hands over its list, or reports an error.
Load ==
  /\ phase = "load"
  /\ \/ /\ head' = 1
        /\ phase' = "secure"
        /\ UNCHANGED <<next, link, components, freed>>
     \/ /\ phase' = "failed"
        /\ UNCHANGED <<head, next, link, components, freed>>
     \/ Unwind({1})
  /\ UNCHANGED <<options, cells, args, file, history>>

\* "secure 'head->next' (if any) against memleaks": next.reset().  Without
\* memory for its counter a shared_ptr releases what it was given.
SecureNext ==
  /\ phase = "secure"
  /\ head # 0
  /\ \/ /\ next' = link[head]
        /\ phase' = "cut"
        /\ UNCHANGED <<head, link, components, freed>>
     \/ /\ link[head] # 0
        /\ Unwind({link[head]})
  /\ UNCHANGED <<options, cells, args, file, history>>

\* Mutant: the following components stay linked to the first one.
MutCutHead ==
  /\ phase = "cut"
  /\ phase' = "add"
  /\ UNCHANGED <<head, next, link, components, freed, options, cells, args, file,
                 history>>

\* "now prevent double-free of next.get() and following"
CutHead ==
  /\ phase = "cut"
  /\ link' = [link EXCEPT ![head] = 0]
  /\ phase' = "add"
  /\ UNCHANGED <<head, next, components, freed, options, cells, args, file, history>>

\* "now add a new Component to 'result' (may throw)", and move on.
AddComponent ==
  /\ phase = "add"
  /\ \/ /\ components' = components \cup {head}
        /\ head' = next
        /\ next' = 0
        /\ phase' = "secure"
        /\ UNCHANGED <<link, freed>>
     \/ Unwind({})
  /\ UNCHANGED <<options, cells, args, file, history>>

LoadReturns ==
  /\ phase = "secure"
  /\ head = 0
  /\ phase' = "done"
  /\ UNCHANGED <<head, next, link, components, freed, options, cells, args, file,
                 history>>

\* The application's last Component object for c goes.
DropComponent(c) ==
  /\ phase = "done"
  /\ c \in components
  /\ components' = components \ {c}
  /\ Release({c})
  /\ newvalue' = [o \in Option |-> IF ParentOf[o] = c THEN Nil ELSE newvalue[o]]
  /\ cells' = [x \in Cell |->
                 IF \E o \in Option : ParentOf[o] = c /\ newvalue[o] = x
                 THEN Free ELSE cells[x]]
  /\ UNCHANGED <<loading, value, changed, args, file, history>>

-----------------------------------------------------------------------------
\* Mutant: the weak pointer is not asked.
MutExpired(o) == FALSE

\* weak_ptr::expired()
Expired(o) == ParentOf[o] \notin components

\* A read of the option.
Access(who, o) ==
  stale' = IF freed[ParentOf[o]] > 0 THEN stale \cup {who} ELSE stale

Effective(v) == IF v = Unset THEN Default ELSE v
NewValue(o)  == IF newvalue[o] = Nil THEN Unset ELSE cells[newvalue[o]].val

\* Mutant: an option that is to be reset still shows the old value.
MutCurrentValue(o) ==
  IF NewValue(o) # Unset THEN NewValue(o) ELSE Effective(value[o])

\* Option::currentValue()
CurrentValue(o) == Effective(IF changed[o] THEN NewValue(o) ELSE value[o])

\* The Argument object h gets a cell of its own, or a null pointer.
Filled(h, o, content) ==
  \/ \E x \in Cell : /\ cells[x] = Free
                     /\ cells' = [cells EXCEPT ![x] = content]
                     /\ args' = [args EXCEPT ![h] = [opt |-> o, cell |-> x]]
  \/ /\ args' = [args EXCEPT ![h] = [opt |-> o, cell |-> Nil]]
     /\ UNCHANGED cells

\* Argument(..., false): a copy, which is null where the value is.
Copied(h, o, v) ==
  IF v = Unset
  THEN args' = [args EXCEPT ![h] = [opt |-> o, cell |-> Nil]] /\ UNCHANGED cells
  ELSE Filled(h, o, [type |-> AltType[o], val |-> v])

\* defaultValue(), noArgumentValue(), activeValue(), newValue(), currentValue()
GetValue(h, o) ==
  /\ phase = "done"
  /\ args[h] = NoArg
  /\ ~Expired(o)
  /\ Access("Option", o)
  /\ \E v \in {Default, value[o], NewValue(o), CurrentValue(o)} : Copied(h, o, v)
  /\ UNCHANGED <<loading, components, freed, options, file, confused, misused>>

\* Mutant: no look at alternateType().
MutSuits(o, t) == ~Expired(o)

\* The test that the functions for single arguments begin with.
Suits(o, t) == ~Expired(o) /\ AltType[o] = t

\* createNoneArgument(), createStringArgument(), ...: otherwise the Argument
\* is null.
CreateArgument(h, o, t) ==
  /\ phase = "done"
  /\ args[h] = NoArg
  /\ Suits(o, t)
  /\ Access("Option", o)
  /\ \E v \in Value : Filled(h, o, [type |-> t, val |-> v])
  /\ UNCHANGED <<loading, components, freed, options, file, confused, misused>>

\* createNoneListArgument(), createStringListArgument(), ... have no test.
CreateListArgument(h, o, t) ==
  /\ phase = "done"
  /\ args[h] = NoArg
  /\ \E v \in Value : Filled(h, o, [type |-> t, val |-> v])
  /\ misused' = (misused \/ t # AltType[o])
  /\ UNCHANGED <<loading, components, freed, options, file, stale, confused>>

\* Argument(const Argument &)
CopyArgument(h, g) ==
  LET a == args[g] IN
  /\ phase = "done"
  /\ args[h] = NoArg
  /\ a.opt # Unset
  /\ Access("Argument", a.opt)
  /\ \/ /\ a.cell # Nil
        /\ Filled(h, a.opt, [type |-> AltType[a.opt], val |-> cells[a.cell].val])
        /\ confused' = (confused \/ cells[a.cell].type # AltType[a.opt])
     \/ /\ a.cell = Nil
        /\ args' = [args EXCEPT ![h] = a]
        /\ UNCHANGED <<cells, confused>>
  /\ UNCHANGED <<loading, components, freed, options, file, misused>>

\* ~Argument()
DestroyArgument(h) ==
  LET a == args[h] IN
  /\ a.opt # Unset
  /\ Access("Argument", a.opt)
  /\ args' = [args EXCEPT ![h] = NoArg]
  /\ cells' = [x \in Cell |-> IF x = a.cell THEN Free ELSE cells[x]]
  /\ confused' = (confused \/ (a.cell # Nil /\ cells[a.cell].type # AltType[a.opt]))
  /\ UNCHANGED <<loading, components, freed, options, file, misused>>

-----------------------------------------------------------------------------
\* Argument::isNull()
ArgumentNull(a) == IF a.cell = Nil THEN TRUE ELSE Expired(a.opt)

\* option(), numOptions(), options(): what the list of a component holds.
Options(c) == {o \in Option : ParentOf[o] = c}

\* flags(), name(), type() and the others that only read: each asks the weak
\* pointer first.
ReadOption(o) ==
  /\ phase = "done"
  /\ ~Expired(o)
  /\ Access("Option", o)
  /\ UNCHANGED <<loading, components, freed, options, cells, args, file, confused,
                 misused>>

\* stringValue(), intValues(), numberOfTimesSet(), ...: the value of an Argument
\* that is not null, if its option has the type that is asked for.
ReadArgument(h, t) ==
  LET a == args[h] IN
  /\ phase = "done"
  /\ ~ArgumentNull(a)
  /\ Access("Argument", a.opt)
  /\ AltType[a.opt] = t
  /\ confused' = (confused \/ cells[a.cell].type # t)
  /\ UNCHANGED <<loading, components, freed, options, cells, args, file, misused>>

-----------------------------------------------------------------------------
\* gpgme_conf_opt_change() with the cell x, which the option takes over.
Change(o, x, to) ==
  /\ newvalue' = [newvalue EXCEPT ![o] = x]
  /\ changed' = [changed EXCEPT ![o] = to]
  /\ UNCHANGED value

Without(x) == [cells EXCEPT ![x] = Free]
Discarded(o) == IF newvalue[o] = Nil THEN cells ELSE Without(newvalue[o])

\* resetToActiveValue() and resetToDefaultValue()
Reset(o) ==
  /\ phase = "done"
  /\ ~Expired(o)
  /\ Access("Option", o)
  /\ \E to \in BOOLEAN : Change(o, Nil, to)
  /\ cells' = Discarded(o)
  /\ UNCHANGED <<loading, components, freed, args, file, confused, misused>>

\* Mutant: the cell is passed on, not a copy.
MutSetNewValue(o, h) ==
  /\ phase = "done"
  /\ ~Expired(o)
  /\ args[h].cell # Nil
  /\ Access("Option", o)
  /\ Change(o, args[h].cell, TRUE)
  /\ cells' = Discarded(o)
  /\ UNCHANGED <<loading, components, freed, args, file, confused, misused>>

\* setNewValue(): a null Argument resets, and the copy has the option's type.
SetNewValue(o, h) ==
  LET a == args[h] IN
  /\ phase = "done"
  /\ ~Expired(o)
  /\ Access("Option", o)
  /\ \/ /\ ArgumentNull(a)
        /\ Change(o, Nil, TRUE)
        /\ cells' = Discarded(o)
        /\ UNCHANGED <<confused, misused>>
     \/ /\ ~ArgumentNull(a)
        /\ confused' = (confused \/ cells[a.cell].type # AltType[o])
        /\ misused' = (misused \/ AltType[a.opt] # AltType[o])
        /\ \/ \E x \in Cell :
                /\ cells[x] = Free
                /\ Change(o, x, TRUE)
                /\ cells' = [Discarded(o) EXCEPT
                               ![x] = [type |-> AltType[o], val |-> cells[a.cell].val]]
           \/ UNCHANGED <<options, cells>>
  /\ UNCHANGED <<loading, components, freed, args, file>>

\* What gpgconf is told to write for the options in "some".
Written(some) == [o \in Option |-> IF o \in some THEN NewValue(o) ELSE file[o]]
Dirty(c)      == {o \in Options(c) : changed[o]}

\* Component::save(); an error may have left some options unwritten.
Save(c) ==
  /\ phase = "done"
  /\ c \in components
  /\ \E some \in SUBSET Dirty(c) : file' = Written(some)
  /\ UNCHANGED <<loading, components, freed, options, cells, args, history>>

Next ==
  \/ Load
  \/ SecureNext
  \/ CutHead
  \/ AddComponent
  \/ LoadReturns
  \/ \E c \in Comp : DropComponent(c) \/ Save(c)
  \/ \E o \in Option : Reset(o) \/ ReadOption(o)
  \/ \E h \in Handle, o \in Option : GetValue(h, o) \/ SetNewValue(o, h)
  \/ \E h \in Handle, o \in Option, t \in Type :
       CreateArgument(h, o, t) \/ CreateListArgument(h, o, t)
  \/ \E h \in Handle, t \in Type : ReadArgument(h, t)
  \/ \E h, g \in Handle : CopyArgument(h, g)
  \/ \E h \in Handle : DestroyArgument(h)

Spec == Init /\ [][Next]_vars

-----------------------------------------------------------------------------
\* The values the variables range over.
TypeOK ==
  /\ phase \in {"load", "secure", "cut", "add", "done", "failed", "thrown"}
  /\ {head, next} \subseteq Comp \cup {0}
  /\ link \in [Comp -> Comp \cup {0}]
  /\ components \subseteq Comp
  /\ freed \in [Comp -> Nat]
  /\ value \in [Option -> Value \cup {Unset}]
  /\ newvalue \in [Option -> Cell \cup {Nil}]
  /\ changed \in [Option -> BOOLEAN]
  /\ cells \in [Cell -> Content \cup {Free}]
  /\ args \in [Handle -> [opt : Option \cup {Unset}, cell : Cell \cup {Nil}]]
  /\ file \in [Option -> Value \cup {Default, Unset}]
  /\ stale \subseteq {"Option", "Argument"}
  /\ {confused, misused} \subseteq BOOLEAN

Owners(c) == {p \in {head, next} \cup components : c \in Chain(p)}

\* Whenever load() has dealt with the links, and for good after it, a component
\* has one owner or was freed once: none leaks and none is freed twice, also
\* when a component goes while others stay, or when memory runs out.  The
\* exception: the shared_ptr that fails to take the followers frees them, and
\* so does the first component, which is still linked to them.
FreedOnce ==
  /\ phase \in {"secure", "add", "done"} =>
       \A c \in Comp : freed[c] + Cardinality(Owners(c)) = 1
  /\ phase = "thrown" =>
       \A c \in Comp : freed[c] = IF c \in Chain(head) \ {head} THEN 2 ELSE 1

\* Every value that was copied has one owner, an Argument or the new_value of
\* an option, through copies, changes, resets and whole components going:
\* none is released twice and none is lost.
OneOwner ==
  /\ TypeOK
  /\ \A x \in Cell :
       LET owners == {h \in Handle : args[h].cell = x} \cup
                     {o \in Option : newvalue[o] = x}
       IN Cardinality(owners) = IF cells[x] = Free THEN 0 ELSE 1

\* An option is read only while its component lives, except by the copy
\* constructor and the destructor of an Argument that outlives it: they ask
\* the option for its type and do not look at the weak pointer.
StaleAccessKnown == stale \subseteq {"Argument"}

\* A number is taken for a pointer to a string, or the other way round, only
\* after a list of another type was made for an option, or an option set to a
\* value of an option of another type; the code tests neither.
TypesMatch == confused => misused

\* What a save writes for an option is what currentValue() showed before, also
\* for options that were reset, and clean options are left alone.
SavedIsCurrent ==
  [][\A o \in Option : file'[o] # file[o] =>
       changed[o] /\ Effective(file'[o]) = CurrentValue(o)]_vars
=============================================================================
