---------------------------- MODULE CoreSurface ----------------------------
(***************************************************************************)
(* scripts/core_hassio_surface.py: the view URLs and WebSocket commands    *)
(* that Core's hassio integration registers, read from its syntax trees.   *)
(* What cannot be read stops the script with exit 2; nothing is skipped.   *)
(*                                                                         *)
(* A tree is what the script asks of it: the module-level assignments, the *)
(* assignments in each class body, and the calls, each in source order.    *)
(***************************************************************************)
EXTENDS Integers, Sequences, FiniteSets, SequencesExt

CONSTANT Views    \* the urls that start with /api/

VARIABLES
    trees,        \* the tree of each file, in the order of their paths
    phase,        \* "constants", "collect" or "done"
    next,         \* the file to read next
    constants,    \* NAME -> literal, across all files
    urls,
    commands,
    status        \* the exit status, -1 while the script runs

csVars == <<trees, phase, next, constants, urls, commands, status>>

Str(text) == [k |-> "str", v |-> text, args |-> <<>>]
NameNode(id) == [k |-> "name", v |-> id, args |-> <<>>]
CallOf(args) == [k |-> "call", v |-> "", args |-> args]
DictOf(items) == [k |-> "dict", v |-> "", args |-> items]   \* key, value, key, value...
Star == [k |-> "none", v |-> "", args |-> <<>>]             \* the key of `**mapping`
Opaque == [k |-> "other", v |-> "", args |-> <<>>]

WsTypeKey == "type"

(* Module-level NAME = "literal"; the last one wins.                       *)
StringConstants(tree) ==
    LET literals(name) == {i \in DOMAIN tree.assigns : /\ name \in tree.assigns[i].names
                                                       /\ tree.assigns[i].value.k = "str"}
        bound == {name \in UNION {a.names : a \in ToSet(tree.assigns)} : literals(name) # {}}
    IN  [name \in bound |-> tree.assigns[Max(literals(name))].value.v]

Updated(known, more) ==
    [name \in DOMAIN known \cup DOMAIN more |-> IF name \in DOMAIN more THEN more[name] ELSE known[name]]

(* A literal or a name bound to one, as a sequence of none or one.         *)
ResolveText(node, known) ==
    CASE node.k = "str" -> <<node.v>>
      [] node.k = "name" /\ node.v \in DOMAIN known -> <<known[node.v]>>
      [] OTHER -> <<>>

UnwrapKey(node, known) ==
    IF node.k = "call" /\ node.args # <<>> THEN ResolveText(node.args[1], known)
    ELSE ResolveText(node, known)

(* The command of an inline schema, or none: Unresolved.                   *)
CommandFromSchema(node, known) ==
    LET keyed == {i \in DOMAIN node.args : /\ i % 2 = 1 /\ node.args[i].k # "none"
                                           /\ UnwrapKey(node.args[i], known) = <<WsTypeKey>>}
    IN  IF node.k # "dict" \/ keyed = {} THEN <<>> ELSE ResolveText(node.args[Min(keyed) + 1], known)

(* Every class, whatever its bases; the assignments of its own body only.  *)
UrlNodes(tree) ==
    {a.value : a \in UNION {{b \in ToSet(class) : "url" \in b.names} : class \in ToSet(tree.classes)}}

(* Broken: a url that is no literal or constant is left out.               *)
UrlsReadable(tree, known) ==
    [ok |-> TRUE, urls |-> {ResolveText(n, known)[1] : n \in {m \in UrlNodes(tree) : ResolveText(m, known) # <<>>}}]

Urls(tree, known) ==
    IF \E n \in UrlNodes(tree) : ResolveText(n, known) = <<>> THEN [ok |-> FALSE, urls |-> {}]
    ELSE [ok |-> TRUE, urls |-> {ResolveText(n, known)[1] : n \in UrlNodes(tree)}]

Commands(tree, known) ==
    LET calls == {c \in ToSet(tree.calls) : c.func = "websocket_command"}
        command(c) == IF c.args = <<>> THEN <<>> ELSE CommandFromSchema(c.args[1], known)
    IN  IF \E c \in calls : command(c) = <<>> THEN [ok |-> FALSE, commands |-> {}]
        ELSE [ok |-> TRUE, commands |-> {command(c)[1] : c \in calls}]

-----------------------------------------------------------------------------
(* main/0                                                                  *)

CsInit(checkout) ==
    /\ trees = checkout /\ next = 1 /\ constants = <<>> /\ urls = {} /\ commands = {}
    /\ IF checkout = <<>> THEN phase = "done" /\ status = 1
       ELSE phase = "constants" /\ status = -1

(* Broken: a file is collected with the constants of the files before it.  *)
ReadConstantsOfOne ==
    /\ phase = "constants"
    /\ constants' = StringConstants(trees[next])
    /\ IF next < Len(trees) THEN next' = next + 1 /\ UNCHANGED phase
       ELSE next' = 1 /\ phase' = "collect"
    /\ UNCHANGED <<trees, urls, commands, status>>

(* One map for the whole integration: a later file's constant wins.        *)
ReadConstants ==
    /\ phase = "constants"
    /\ constants' = Updated(constants, StringConstants(trees[next]))
    /\ IF next < Len(trees) THEN next' = next + 1 /\ UNCHANGED phase
       ELSE next' = 1 /\ phase' = "collect"
    /\ UNCHANGED <<trees, urls, commands, status>>

Collect ==
    /\ phase = "collect"
    /\ LET u == Urls(trees[next], constants)
           c == Commands(trees[next], constants)
       IN  IF u.ok /\ c.ok
           THEN /\ urls' = urls \cup (u.urls \cap Views)
                /\ commands' = commands \cup c.commands
                /\ IF next < Len(trees) THEN next' = next + 1 /\ UNCHANGED <<phase, status>>
                   ELSE phase' = "done" /\ status' = 0 /\ UNCHANGED next
           ELSE phase' = "done" /\ status' = 2 /\ UNCHANGED <<urls, commands, next>>
    /\ UNCHANGED <<trees, constants>>

CsNext == ReadConstants \/ Collect

CsSpec == CsInit(trees) /\ [][CsNext]_csVars

-----------------------------------------------------------------------------
(* What the integration registers, read from the whole of it at once.      *)

Assignments == UNION {ToSet(tree.assigns) : tree \in ToSet(trees)}
Bodies == UNION {ToSet(tree.classes) : tree \in ToSet(trees)}
ClassUrls == {a.value : a \in {b \in UNION {ToSet(body) : body \in Bodies} : "url" \in b.names}}
SchemaArgs == {c.args : c \in {d \in UNION {ToSet(tree.calls) : tree \in ToSet(trees)} :
                                 d.func = "websocket_command"}}

(* The text a node has at run time, or none that the source tells.         *)
AnyOf(S) == CHOOSE x \in S : TRUE
Literals(name) == {a.value.v : a \in {b \in Assignments : name \in b.names /\ b.value.k = "str"}}
TextOf(node) ==
    CASE node.k = "str" -> <<node.v>>
      [] node.k = "name" /\ Literals(node.v) # {} -> <<AnyOf(Literals(node.v))>>
      [] OTHER -> <<>>
KeyText(node) == IF node.k = "call" /\ node.args # <<>> THEN TextOf(node.args[1]) ELSE TextOf(node)
TypeKeys(items) == {i \in DOMAIN items : i % 2 = 1 /\ KeyText(items[i]) = <<WsTypeKey>>}
CommandText(args) ==
    IF args = <<>> \/ args[1].k # "dict" \/ TypeKeys(args[1].args) = {} THEN <<>>
    ELSE TextOf(args[1].args[AnyOf(TypeKeys(args[1].args)) + 1])

RegisteredUrls == {TextOf(node) : node \in ClassUrls}
RegisteredCommands == {CommandText(args) : args \in SchemaArgs}
Readable == <<>> \notin RegisteredUrls \cup RegisteredCommands

(* An integration in which a name means one thing wherever it is bound, as *)
(* one map of constants takes for granted, and a schema names its command  *)
(* once.                                                                   *)
IsSeq(s) == s \in Seq(ToSet(s))
OneMeaning ==
    /\ IsSeq(trees) /\ \A tree \in ToSet(trees) : IsSeq(tree.assigns)
    /\ \A a, b \in Assignments : a.names \cap b.names # {} => a.value = b.value
    /\ \A args \in SchemaArgs \ {<<>>} :
         /\ IsSeq(args[1].args)
         /\ \A i, j \in TypeKeys(args[1].args) : i = j

(* The fixture holds all that Core registers and nothing else, and is only *)
(* withheld when some registration cannot be read from the source.         *)
SurfaceIsWhatCoreRegisters ==
    phase = "done" /\ trees # <<>> =>
        IF status = 0
        THEN /\ Readable
             /\ urls = {text[1] : text \in RegisteredUrls} \cap Views
             /\ commands = {text[1] : text \in RegisteredCommands}
        ELSE ~Readable
=============================================================================
