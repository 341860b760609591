--------------------------- MODULE SurfaceSafety ---------------------------
(***************************************************************************)
(* core_hassio_surface.py for an integration of any size: the fixture it   *)
(* writes is what Core registers.                                          *)
(***************************************************************************)
EXTENDS CoreSurface, WellFoundedInduction, TLAPS

(* The greatest of some positions in a sequence is one of them.            *)
LEMMA LastOne ==
  ASSUME NEW n \in Nat, NEW S \in SUBSET (1..n), S # {}
  PROVE  Max(S) \in S
<1> DEFINE Below == {pair \in Nat \X Nat : pair[1] < pair[2]}
           T == {n - x : x \in S}
<1>1. IsWellFoundedOn(Below, Nat)
  <2>1. OpToRel(<, Nat) = Below
    BY DEF OpToRel
  <2> QED
    BY <2>1, NatLessThanWellFounded
<1>2. T \subseteq Nat
  OBVIOUS
<1>3. T # {}
  <2>1. PICK x \in S : TRUE
    OBVIOUS
  <2> QED
    BY <2>1
<1>4. PICK x \in T : \A y \in T : ~(<<y, x>> \in Below)
  <2> HIDE DEF Below, T
  <2> QED
    BY <1>1, <1>2, <1>3, WFMin
<1>5. PICK m \in S : x = n - m
  OBVIOUS
<1>6. \A y \in S : m >= y
  <2> SUFFICES ASSUME NEW y \in S, y > m PROVE FALSE
    OBVIOUS
  <2>1. n - y \in T /\ n - y < x /\ n - y \in Nat /\ x \in Nat
    BY <1>5
  <2>2. <<n - y, x>> \in Below
    BY <2>1
  <2> QED
    BY <1>4, <2>1, <2>2
<1> QED
  BY <1>6 DEF Max

(* Of one number, it is the least.                                         *)
LEMMA OnlyOne == ASSUME NEW i \in Int PROVE Min({i}) = i
<1>1. \E x \in {i} : \A y \in {i} : x <= y
  OBVIOUS
<1>2. Min({i}) \in {i}
  BY <1>1 DEF Min
<1> QED
  BY <1>2

-----------------------------------------------------------------------------
(* The literals of one file.                                               *)

LiteralsAt(tree, name) == {i \in DOMAIN tree.assigns : /\ name \in tree.assigns[i].names
                                                       /\ tree.assigns[i].value.k = "str"}

(* The constants of a file are literals it assigns, one for each name that *)
(* has any.                                                                *)
LEMMA StringConstantsFacts ==
  ASSUME NEW tree, IsSeq(tree.assigns)
  PROVE  /\ \A name \in DOMAIN StringConstants(tree) :
              \E a \in ToSet(tree.assigns) :
                 name \in a.names /\ a.value.k = "str" /\ StringConstants(tree)[name] = a.value.v
         /\ \A a \in ToSet(tree.assigns) :
              a.value.k = "str" => a.names \subseteq DOMAIN StringConstants(tree)
<1> DEFINE lits(name) == LiteralsAt(tree, name)
           bound == {name \in UNION {a.names : a \in ToSet(tree.assigns)} : lits(name) # {}}
           known == [name \in bound |-> tree.assigns[Max(lits(name))].value.v]
<1>1. StringConstants(tree) = known
  BY DEF StringConstants, LiteralsAt
<1>2. DOMAIN tree.assigns = 1..Len(tree.assigns) /\ Len(tree.assigns) \in Nat
  BY DEF IsSeq
<1>3. ASSUME NEW name \in bound
      PROVE  \E a \in ToSet(tree.assigns) :
                name \in a.names /\ a.value.k = "str" /\ known[name] = a.value.v
  <2>1. lits(name) \in SUBSET (1..Len(tree.assigns)) /\ lits(name) # {}
    BY <1>2, <1>3 DEF LiteralsAt
  <2>2. Max(lits(name)) \in lits(name)
    <3> HIDE DEF lits
    <3> QED
      BY <1>2, <2>1, LastOne
  <2>3. known[name] = tree.assigns[Max(lits(name))].value.v
    BY <1>3
  <2> DEFINE m == Max(lits(name))
  <2>4. m \in DOMAIN tree.assigns /\ name \in tree.assigns[m].names /\ tree.assigns[m].value.k = "str"
    BY <2>2 DEF LiteralsAt
  <2> HIDE DEF m
  <2>5. tree.assigns[m] \in ToSet(tree.assigns)
    BY <2>4 DEF ToSet
  <2> QED
    BY <2>3, <2>4, <2>5 DEF m
<1>4. ASSUME NEW a \in ToSet(tree.assigns), a.value.k = "str", NEW name \in a.names
      PROVE  name \in bound
  <2>1. PICK i \in DOMAIN tree.assigns : tree.assigns[i] = a
    BY DEF ToSet
  <2>2. i \in lits(name)
    BY <1>4, <2>1 DEF LiteralsAt
  <2> QED
    BY <1>4, <2>2
<1> HIDE DEF lits, bound
<1> QED
  BY <1>1, <1>3, <1>4

-----------------------------------------------------------------------------
(* What holds between two steps.                                           *)

ArgsIn(tree) == {c.args : c \in {d \in ToSet(tree.calls) : d.func = "websocket_command"}}
NodesTo(n) == UNION {UrlNodes(trees[k]) : k \in 1..n}
ArgsTo(n) == UNION {ArgsIn(trees[k]) : k \in 1..n}

(* A constant is a literal of its name, and every name with a literal in   *)
(* the files read has its constant.                                        *)
Sound == \A name \in DOMAIN constants : constants[name] \in Literals(name)
Complete(n) == \A k \in 1..n : \A a \in ToSet(trees[k].assigns) :
                  a.value.k = "str" => a.names \subseteq DOMAIN constants

(* All that the files collected register is read, and nothing else.        *)
Collected(n) ==
    /\ \A node \in NodesTo(n) : TextOf(node) # <<>>
    /\ \A args \in ArgsTo(n) : CommandText(args) # <<>>
    /\ urls = {TextOf(node)[1] : node \in NodesTo(n)} \cap Views
    /\ commands = {CommandText(args)[1] : args \in ArgsTo(n)}

SInv ==
    /\ OneMeaning
    /\ Sound
    /\ phase \in {"constants", "collect"} => next \in 1..Len(trees)
    /\ phase = "constants" => urls = {} /\ commands = {} /\ Complete(next - 1)
    /\ phase = "collect" => Complete(Len(trees)) /\ Collected(next - 1)
    /\ SurfaceIsWhatCoreRegisters

-----------------------------------------------------------------------------
(* Reading with the constants of all files is reading with the meaning.    *)

(* A name with a literal has one, whichever file binds it.                 *)
LEMMA OneLiteral ==
  ASSUME OneMeaning, NEW name, NEW v \in Literals(name), NEW w \in Literals(name)
  PROVE  v = w
<1>1. PICK a \in Assignments : name \in a.names /\ v = a.value.v
  BY DEF Literals
<1>2. PICK b \in Assignments : name \in b.names /\ w = b.value.v
  BY DEF Literals
<1> QED
  BY <1>1, <1>2 DEF OneMeaning

LEMMA ResolveTellsText ==
  ASSUME OneMeaning, Sound, Complete(Len(trees)), NEW node
  PROVE  ResolveText(node, constants) = TextOf(node)
<1>1. \A name : name \in DOMAIN constants <=> Literals(name) # {}
  <2>1. ASSUME NEW name, NEW v \in Literals(name)
        PROVE  name \in DOMAIN constants
    <3>1. PICK a \in Assignments : name \in a.names /\ a.value.k = "str"
      BY DEF Literals
    <3>2. PICK tree \in ToSet(trees) : a \in ToSet(tree.assigns)
      BY DEF Assignments
    <3>3. PICK k \in DOMAIN trees : trees[k] = tree
      BY DEF ToSet
    <3>4. k \in 1..Len(trees)
      BY <3>3 DEF OneMeaning, IsSeq
    <3> QED
      BY <3>1, <3>2, <3>3, <3>4 DEF Complete
  <2> QED
    BY <2>1 DEF Sound
<1>2. \A name : Literals(name) # {} => constants[name] = AnyOf(Literals(name))
  <2> SUFFICES ASSUME NEW name, Literals(name) # {}
               PROVE  constants[name] = AnyOf(Literals(name))
    OBVIOUS
  <2>1. constants[name] \in Literals(name)
    BY <1>1 DEF Sound
  <2>2. AnyOf(Literals(name)) \in Literals(name)
    BY DEF AnyOf
  <2> QED
    BY <2>1, <2>2, OneLiteral
<1> QED
  BY <1>1, <1>2 DEF ResolveText, TextOf

LEMMA SchemaTellsCommand ==
  ASSUME OneMeaning, Sound, Complete(Len(trees)), NEW args \in SchemaArgs, args # <<>>
  PROVE  CommandFromSchema(args[1], constants) = CommandText(args)
<1> DEFINE node == args[1]
           keyed == {i \in DOMAIN node.args : /\ i % 2 = 1 /\ node.args[i].k # "none"
                                              /\ UnwrapKey(node.args[i], constants) = <<WsTypeKey>>}
           types == TypeKeys(node.args)
<1>1. \A n : UnwrapKey(n, constants) = KeyText(n)
  BY ResolveTellsText DEF UnwrapKey, KeyText
<1>2. \A n : n.k = "none" => KeyText(n) # <<WsTypeKey>>
  BY DEF KeyText, TextOf
<1>3. keyed = types
  BY <1>1, <1>2 DEF TypeKeys
<1>4. types \subseteq Int /\ \A i, j \in types : i = j
  BY DEF TypeKeys, OneMeaning, IsSeq
<1>5. CommandFromSchema(node, constants)
      = IF node.k # "dict" \/ keyed = {} THEN <<>> ELSE ResolveText(node.args[Min(keyed) + 1], constants)
  BY DEF CommandFromSchema
<1> HIDE DEF keyed, types
<1>6. types # {} => Min(types) = AnyOf(types)
  <2> SUFFICES ASSUME NEW i \in types PROVE Min(types) = AnyOf(types)
    OBVIOUS
  <2>1. i \in Int /\ \A j \in types : j = i
    BY <1>4
  <2>2. AnyOf(types) = i
    BY <2>1 DEF AnyOf
  <2>3. types = {i}
    BY <2>1
  <2>4. Min({i}) = i
    BY <2>1, OnlyOne
  <2> QED
    BY <2>2, <2>3, <2>4
<1>7. CommandText(args)
      = IF node.k # "dict" \/ types = {} THEN <<>> ELSE TextOf(node.args[AnyOf(types) + 1])
  BY DEF CommandText, types
<1>8. CASE node.k # "dict" \/ types = {}
  BY <1>3, <1>5, <1>7, <1>8
<1>9. CASE ~(node.k # "dict" \/ types = {})
  <2>1. Min(keyed) = AnyOf(types)
    BY <1>3, <1>6, <1>9
  <2> QED
    BY <1>3, <1>5, <1>7, <1>9, <2>1, ResolveTellsText
<1> QED
  BY <1>8, <1>9

(* What the integration registers is what its files do, one after another. *)
LEMMA AllOfThem ==
  ASSUME OneMeaning
  PROVE  ClassUrls = NodesTo(Len(trees)) /\ SchemaArgs = ArgsTo(Len(trees))
<1>1. DOMAIN trees = 1..Len(trees)
  BY DEF OneMeaning, IsSeq
<1>2. ToSet(trees) = {trees[k] : k \in 1..Len(trees)}
  BY <1>1 DEF ToSet
<1>3. ClassUrls = UNION {UrlNodes(tree) : tree \in ToSet(trees)}
  BY DEF ClassUrls, Bodies, UrlNodes
<1>4. SchemaArgs = UNION {ArgsIn(tree) : tree \in ToSet(trees)}
  BY DEF SchemaArgs, ArgsIn
<1> QED
  BY <1>2, <1>3, <1>4 DEF NodesTo, ArgsTo

(* The meaning depends on the sources alone, which nothing changes.        *)
LEMMA SameSources ==
  ASSUME trees' = trees
  PROVE  /\ OneMeaning' <=> OneMeaning
         /\ \A name : Literals(name)' = Literals(name)
         /\ \A node : TextOf(node)' = TextOf(node)
         /\ \A args : CommandText(args)' = CommandText(args)
         /\ \A n : NodesTo(n)' = NodesTo(n) /\ ArgsTo(n)' = ArgsTo(n)
         /\ RegisteredUrls' = RegisteredUrls /\ RegisteredCommands' = RegisteredCommands
         /\ Readable' <=> Readable
<1>1. Assignments' = Assignments /\ ClassUrls' = ClassUrls /\ SchemaArgs' = SchemaArgs
  BY DEF Assignments, Bodies, ClassUrls, SchemaArgs
<1>2. \A name : Literals(name)' = Literals(name)
  BY <1>1 DEF Literals
<1>3. \A node : TextOf(node)' = TextOf(node)
  BY <1>2 DEF TextOf
<1>4. \A node : KeyText(node)' = KeyText(node)
  BY <1>3 DEF KeyText
<1>5. \A items : TypeKeys(items)' = TypeKeys(items)
  BY <1>4 DEF TypeKeys
<1>6. \A args : CommandText(args)' = CommandText(args)
  BY <1>3, <1>5 DEF CommandText
<1>7. RegisteredUrls' = RegisteredUrls /\ RegisteredCommands' = RegisteredCommands
  BY <1>1, <1>3, <1>6 DEF RegisteredUrls, RegisteredCommands
<1>8. OneMeaning' <=> OneMeaning
  BY <1>1, <1>5 DEF OneMeaning
<1>9. \A n : NodesTo(n)' = NodesTo(n) /\ ArgsTo(n)' = ArgsTo(n)
  BY DEF NodesTo, ArgsTo
<1>10. Readable' <=> Readable
  BY <1>7 DEF Readable
<1> QED
  BY <1>2, <1>3, <1>6, <1>7, <1>8, <1>9, <1>10

-----------------------------------------------------------------------------
(* The steps.                                                              *)

(* One file's urls and commands, as they are meant.                        *)
LEMMA UrlsRead ==
  ASSUME OneMeaning, Sound, Complete(Len(trees)), NEW tree
  PROVE  Urls(tree, constants)
         = IF \E n \in UrlNodes(tree) : TextOf(n) = <<>> THEN [ok |-> FALSE, urls |-> {}]
           ELSE [ok |-> TRUE, urls |-> {TextOf(n)[1] : n \in UrlNodes(tree)}]
BY ResolveTellsText DEF Urls

LEMMA CommandsRead ==
  ASSUME OneMeaning, Sound, Complete(Len(trees)), NEW tree, ArgsIn(tree) \subseteq SchemaArgs
  PROVE  Commands(tree, constants)
         = IF \E args \in ArgsIn(tree) : CommandText(args) = <<>> THEN [ok |-> FALSE, commands |-> {}]
           ELSE [ok |-> TRUE, commands |-> {CommandText(args)[1] : args \in ArgsIn(tree)}]
<1> DEFINE calls == {c \in ToSet(tree.calls) : c.func = "websocket_command"}
           command(c) == IF c.args = <<>> THEN <<>> ELSE CommandFromSchema(c.args[1], constants)
<1>1. ArgsIn(tree) = {c.args : c \in calls}
  BY DEF ArgsIn
<1>2. \A c \in calls : command(c) = CommandText(c.args)
  <2> SUFFICES ASSUME NEW c \in calls PROVE command(c) = CommandText(c.args)
    OBVIOUS
  <2>1. CASE c.args = <<>>
    BY <2>1 DEF CommandText
  <2>2. CASE c.args # <<>>
    <3>1. c.args \in SchemaArgs
      BY <1>1
    <3> QED
      BY <2>2, <3>1, SchemaTellsCommand
  <2> QED
    BY <2>1, <2>2
<1>3. Commands(tree, constants)
      = IF \E c \in calls : command(c) = <<>> THEN [ok |-> FALSE, commands |-> {}]
        ELSE [ok |-> TRUE, commands |-> {command(c)[1] : c \in calls}]
  BY DEF Commands
<1> HIDE DEF calls, command
<1>4. (\E c \in calls : command(c) = <<>>) <=> (\E args \in ArgsIn(tree) : CommandText(args) = <<>>)
  BY <1>1, <1>2
<1>5. {command(c)[1] : c \in calls} = {CommandText(args)[1] : args \in ArgsIn(tree)}
  BY <1>1, <1>2
<1> QED
  BY <1>3, <1>4, <1>5

LEMMA InitSound == CsInit(trees) /\ OneMeaning => SInv
<1> SUFFICES ASSUME CsInit(trees), OneMeaning PROVE SInv
  OBVIOUS
<1>1. Sound
  BY DEF CsInit, Sound
<1>2. Complete(next - 1)
  BY DEF CsInit, Complete
<1>3. trees # <<>> => Len(trees) \in Nat \ {0}
  BY DEF OneMeaning, IsSeq
<1> QED
  BY <1>1, <1>2, <1>3 DEF CsInit, SInv, SurfaceIsWhatCoreRegisters

LEMMA ReadConstantsSound == SInv /\ ReadConstants => SInv'
<1> SUFFICES ASSUME SInv, ReadConstants PROVE SInv'
  OBVIOUS
<1> DEFINE file == trees[next]
           read == StringConstants(file)
<1>1. trees' = trees /\ OneMeaning /\ OneMeaning' /\ \A name : Literals(name)' = Literals(name)
  BY SameSources DEF SInv, ReadConstants
<1>2. phase = "constants" /\ next \in 1..Len(trees) /\ Len(trees) \in Nat /\ Complete(next - 1)
      /\ urls = {} /\ commands = {} /\ Sound
  BY <1>1 DEF SInv, ReadConstants, OneMeaning, IsSeq
<1>3. file \in ToSet(trees) /\ IsSeq(file.assigns)
  <2>1. next \in DOMAIN trees
    BY <1>1, <1>2 DEF OneMeaning, IsSeq
  <2>2. file \in ToSet(trees)
    BY <2>1 DEF ToSet
  <2> QED
    BY <1>1, <2>2 DEF OneMeaning
<1>4. DOMAIN constants' = DOMAIN read \cup DOMAIN constants
      /\ \A name \in DOMAIN constants' :
           constants'[name] = IF name \in DOMAIN read THEN read[name] ELSE constants[name]
  <2>1. constants' = Updated(constants, read)
    BY DEF ReadConstants
  <2> HIDE DEF read
  <2> QED
    BY <2>1 DEF Updated
<1>5. /\ \A name \in DOMAIN read : \E a \in ToSet(file.assigns) :
           name \in a.names /\ a.value.k = "str" /\ read[name] = a.value.v
      /\ \A a \in ToSet(file.assigns) : a.value.k = "str" => a.names \subseteq DOMAIN read
  BY <1>3, StringConstantsFacts
<1> HIDE DEF read
<1>6. Sound'
  <2> SUFFICES ASSUME NEW name \in DOMAIN constants' PROVE constants'[name] \in Literals(name)
    BY <1>1 DEF Sound
  <2>1. CASE name \in DOMAIN read
    <3>1. PICK a \in ToSet(file.assigns) :
             name \in a.names /\ a.value.k = "str" /\ read[name] = a.value.v
      BY <1>5, <2>1
    <3>2. a \in Assignments
      BY <1>3 DEF Assignments
    <3> QED
      BY <1>4, <2>1, <3>1, <3>2 DEF Literals
  <2>2. CASE name \notin DOMAIN read
    BY <1>2, <1>4, <2>2 DEF Sound
  <2> QED
    BY <2>1, <2>2
<1>7. \A k \in 1..next : \A a \in ToSet(trees[k].assigns) :
         a.value.k = "str" => a.names \subseteq DOMAIN constants'
  <2> SUFFICES ASSUME NEW k \in 1..next, NEW a \in ToSet(trees[k].assigns), a.value.k = "str"
               PROVE  a.names \subseteq DOMAIN constants'
    OBVIOUS
  <2>1. CASE k = next
    BY <1>4, <1>5, <2>1
  <2>2. CASE k # next
    <3>1. k \in 1..(next - 1)
      BY <1>2, <2>2
    <3> QED
      BY <1>2, <1>4, <3>1 DEF Complete
  <2> QED
    BY <2>1, <2>2
<1> HIDE DEF file
<1>8. CASE next < Len(trees)
  <2>1. phase' = "constants" /\ next' = next + 1 /\ urls' = urls /\ commands' = commands
    BY <1>2, <1>8 DEF ReadConstants
  <2>2. next' - 1 = next /\ next' \in 1..Len(trees')
    BY <1>1, <1>2, <1>8, <2>1
  <2>3. Complete(next - 1)'
    BY <1>1, <1>7, <2>2 DEF Complete
  <2> QED
    BY <1>1, <1>2, <1>6, <2>1, <2>2, <2>3 DEF SInv, SurfaceIsWhatCoreRegisters
<1>9. CASE ~(next < Len(trees))
  <2>1. phase' = "collect" /\ next' = 1 /\ urls' = {} /\ commands' = {}
    BY <1>2, <1>9 DEF ReadConstants
  <2>2. next = Len(trees') /\ next' \in 1..Len(trees') /\ 1..(next' - 1) = {}
    BY <1>1, <1>2, <1>9, <2>1
  <2>3. Complete(Len(trees))'
    BY <1>1, <1>7, <2>2 DEF Complete
  <2>4. Collected(next - 1)'
    BY <2>1, <2>2 DEF Collected, NodesTo, ArgsTo
  <2> QED
    BY <1>1, <1>6, <2>1, <2>2, <2>3, <2>4 DEF SInv, SurfaceIsWhatCoreRegisters
<1> QED
  BY <1>8, <1>9

LEMMA CollectSound == SInv /\ Collect => SInv'
<1> SUFFICES ASSUME SInv, Collect PROVE SInv'
  OBVIOUS
<1> DEFINE file == trees[next]
           u == Urls(file, constants)
           c == Commands(file, constants)
           readable == /\ \A node \in UrlNodes(file) : TextOf(node) # <<>>
                       /\ \A args \in ArgsIn(file) : CommandText(args) # <<>>
           fileUrls == {TextOf(node)[1] : node \in UrlNodes(file)}
           fileCommands == {CommandText(args)[1] : args \in ArgsIn(file)}
<1>1. phase = "collect" /\ trees' = trees /\ constants' = constants
  BY DEF Collect
<1>2. /\ OneMeaning /\ OneMeaning' /\ (Readable' <=> Readable)
      /\ RegisteredUrls' = RegisteredUrls /\ RegisteredCommands' = RegisteredCommands
      /\ \A name : Literals(name)' = Literals(name)
      /\ \A node : TextOf(node)' = TextOf(node)
      /\ \A args : CommandText(args)' = CommandText(args)
  BY <1>1, SameSources DEF SInv
<1>3. next \in 1..Len(trees) /\ Len(trees) \in Nat /\ Sound /\ Complete(Len(trees)) /\ Collected(next - 1)
  BY <1>1, <1>2 DEF SInv, OneMeaning, IsSeq
<1>4. Sound' /\ Complete(Len(trees))'
  BY <1>1, <1>2, <1>3 DEF Sound, Complete
<1>5. UrlNodes(file) \subseteq ClassUrls /\ ArgsIn(file) \subseteq SchemaArgs
  BY <1>2, <1>3, AllOfThem DEF NodesTo, ArgsTo
<1>6. /\ u = IF \E n \in UrlNodes(file) : TextOf(n) = <<>> THEN [ok |-> FALSE, urls |-> {}]
             ELSE [ok |-> TRUE, urls |-> fileUrls]
      /\ c = IF \E args \in ArgsIn(file) : CommandText(args) = <<>> THEN [ok |-> FALSE, commands |-> {}]
             ELSE [ok |-> TRUE, commands |-> fileCommands]
  BY <1>2, <1>3, <1>5, UrlsRead, CommandsRead
<1>7. /\ (u.ok /\ c.ok) <=> readable
      /\ readable => u.urls = fileUrls /\ c.commands = fileCommands
  <2> HIDE DEF u, c, fileUrls, fileCommands
  <2> QED
    BY <1>6
<1>8. /\ readable => /\ urls' = urls \cup (fileUrls \cap Views)
                     /\ commands' = commands \cup fileCommands
                     /\ IF next < Len(trees) THEN next' = next + 1 /\ phase' = phase
                        ELSE phase' = "done" /\ status' = 0
      /\ ~readable => phase' = "done" /\ status' = 2
  <2>1. IF u.ok /\ c.ok
        THEN /\ urls' = urls \cup (u.urls \cap Views)
             /\ commands' = commands \cup c.commands
             /\ IF next < Len(trees) THEN next' = next + 1 /\ UNCHANGED <<phase, status>>
                ELSE phase' = "done" /\ status' = 0 /\ UNCHANGED next
        ELSE phase' = "done" /\ status' = 2 /\ UNCHANGED <<urls, commands, next>>
    BY DEF Collect
  <2> HIDE DEF u, c, fileUrls, fileCommands, readable
  <2> QED
    BY <1>7, <2>1
<1>9. CASE ~readable
  <2>1. ~Readable
    BY <1>5, <1>9 DEF Readable, RegisteredUrls, RegisteredCommands
  <2>2. phase' = "done" /\ status' = 2
    BY <1>8, <1>9
  <2> QED
    BY <1>2, <1>4, <2>1, <2>2 DEF SInv, SurfaceIsWhatCoreRegisters
<1>10. CASE readable
  <2>1. /\ NodesTo(next) = NodesTo(next - 1) \cup UrlNodes(file)
        /\ ArgsTo(next) = ArgsTo(next - 1) \cup ArgsIn(file)
    <3>1. 1..next = (1..(next - 1)) \cup {next}
      BY <1>3
    <3> QED
      BY <3>1 DEF NodesTo, ArgsTo
  <2>2. /\ \A node \in NodesTo(next) : TextOf(node) # <<>>
        /\ \A args \in ArgsTo(next) : CommandText(args) # <<>>
    BY <1>3, <1>10, <2>1 DEF Collected
  <2>3. urls' = {TextOf(node)[1] : node \in NodesTo(next)} \cap Views
    <3>1. urls' = urls \cup (fileUrls \cap Views) /\ urls = {TextOf(node)[1] : node \in NodesTo(next - 1)} \cap Views
      BY <1>3, <1>8, <1>10 DEF Collected
    <3> QED
      BY <2>1, <3>1
  <2>4. commands' = {CommandText(args)[1] : args \in ArgsTo(next)}
    <3>1. commands' = commands \cup fileCommands /\ commands = {CommandText(args)[1] : args \in ArgsTo(next - 1)}
      BY <1>3, <1>8, <1>10 DEF Collected
    <3> QED
      BY <2>1, <3>1
  <2>5. CASE next < Len(trees)
    <3>1. next' = next + 1 /\ phase' = "collect"
      BY <1>1, <1>8, <1>10, <2>5
    <3>2. next' - 1 = next /\ next' \in 1..Len(trees')
      BY <1>1, <1>3, <2>5, <3>1
    <3>3. \A n : NodesTo(n)' = NodesTo(n) /\ ArgsTo(n)' = ArgsTo(n)
      BY <1>1, SameSources
    <3>4. Collected(next - 1)'
      <4>1. UNION {UrlNodes(trees'[k]) : k \in 1..(next' - 1)} = NodesTo(next)
        BY <1>1, <3>2 DEF NodesTo
      <4>2. UNION {ArgsIn(trees'[k]) : k \in 1..(next' - 1)} = ArgsTo(next)
        BY <1>1, <3>2 DEF ArgsTo
      <4>3. NodesTo(next - 1)' = NodesTo(next) /\ ArgsTo(next - 1)' = ArgsTo(next)
        BY <4>1, <4>2 DEF NodesTo, ArgsTo
      <4> QED
        BY <1>2, <2>2, <2>3, <2>4, <4>3 DEF Collected
    <3> QED
      BY <1>2, <1>4, <3>1, <3>2, <3>4 DEF SInv, SurfaceIsWhatCoreRegisters
  <2>6. CASE ~(next < Len(trees))
    <3>1. phase' = "done" /\ status' = 0
      BY <1>8, <1>10, <2>6
    <3>2. next = Len(trees)
      BY <1>3, <2>6
    <3>3. ClassUrls = NodesTo(next) /\ SchemaArgs = ArgsTo(next)
      BY <1>2, <3>2, AllOfThem
    <3>4. Readable
      BY <2>2, <3>3 DEF Readable, RegisteredUrls, RegisteredCommands
    <3>5. urls' = {text[1] : text \in RegisteredUrls} \cap Views
      BY <2>3, <3>3 DEF RegisteredUrls
    <3>6. commands' = {text[1] : text \in RegisteredCommands}
      BY <2>4, <3>3 DEF RegisteredCommands
    <3> QED
      BY <1>2, <1>4, <3>1, <3>4, <3>5, <3>6 DEF SInv, SurfaceIsWhatCoreRegisters
  <2> QED
    BY <2>5, <2>6
<1> QED
  BY <1>9, <1>10

(* The fixture that core_hassio_surface.py writes names the view URLs and  *)
(* the commands of all the registrations of Core's integration and no      *)
(* others, however many files it has and in whatever order they are read;  *)
(* and it is withheld only when a registration cannot be read.             *)
THEOREM SurfaceRead == OneMeaning /\ CsSpec => []SurfaceIsWhatCoreRegisters
<1>1. CsInit(trees) /\ OneMeaning => SInv
  BY InitSound
<1>2. SInv /\ [CsNext]_csVars => SInv'
  <2> SUFFICES ASSUME SInv, [CsNext]_csVars PROVE SInv'
    OBVIOUS
  <2>1. CASE ReadConstants
    BY <2>1, ReadConstantsSound
  <2>2. CASE Collect
    BY <2>2, CollectSound
  <2>3. CASE UNCHANGED csVars
    <3>1. /\ trees' = trees /\ constants' = constants /\ phase' = phase /\ next' = next
          /\ urls' = urls /\ commands' = commands /\ status' = status
      BY <2>3 DEF csVars
    <3>2. /\ OneMeaning' <=> OneMeaning
          /\ RegisteredUrls' = RegisteredUrls /\ RegisteredCommands' = RegisteredCommands
          /\ Readable' <=> Readable
          /\ \A name : Literals(name)' = Literals(name)
      BY <3>1, SameSources
    <3>3. Sound' <=> Sound
      BY <3>1, <3>2 DEF Sound
    <3>4. Complete(Len(trees))' <=> Complete(Len(trees))
      BY <3>1 DEF Complete
    <3>5. Complete(next - 1)' <=> Complete(next - 1)
      BY <3>1 DEF Complete
    <3>6. Collected(next - 1)' <=> Collected(next - 1)
      <4>1. NodesTo(next - 1)' = NodesTo(next - 1) /\ ArgsTo(next - 1)' = ArgsTo(next - 1)
        BY <3>1 DEF NodesTo, ArgsTo
      <4>2. /\ \A node : TextOf(node)' = TextOf(node)
            /\ \A args : CommandText(args)' = CommandText(args)
        BY <3>1, SameSources
      <4> QED
        BY <3>1, <4>1, <4>2 DEF Collected
    <3>7. SurfaceIsWhatCoreRegisters' <=> SurfaceIsWhatCoreRegisters
      BY <3>1, <3>2 DEF SurfaceIsWhatCoreRegisters
    <3> QED
      BY <3>1, <3>2, <3>3, <3>4, <3>5, <3>6, <3>7 DEF SInv
  <2> QED
    BY <2>1, <2>2, <2>3 DEF CsNext
<1>3. SInv => SurfaceIsWhatCoreRegisters
  BY DEF SInv
<1> QED
  BY <1>1, <1>2, <1>3, PTL DEF CsSpec
=============================================================================
