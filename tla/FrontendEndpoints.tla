-------------------------- MODULE FrontendEndpoints --------------------------
(***************************************************************************)
(* scripts/frontend_hassio_endpoints.py: which Supervisor requests the     *)
(* frontend's sources make.  A construct is resolved only when every part  *)
(* that can set its path or method is understood; any other becomes one    *)
(* raw entry.  The script runs file by file and exits 2 rather than print  *)
(* a list it knows to be short.                                            *)
(***************************************************************************)
EXTENDS FrontendSyntax

VARIABLES
    files,        \* each src/**/*.ts in order; what it does besides `toks` is not read
    at,           \* the file being read
    endpoints,    \* the entries found so far
    silent,       \* the files that name supervisor/api and yielded nothing
    sources,      \* the files whose hash is pinned
    exit          \* the exit status, -1 while the script runs

feVars == <<files, at, endpoints, silent, sources, exit>>

RequestKeys == {"type", "endpoint", "method"}
Verbs == {"GET", "POST", "PUT", "DELETE", "PATCH", "HEAD"}
Calls == {"supervisorApiCall", "supervisorApiWsRequest", "callApi", "callApiRaw",
          "supervisorUrl", "fetchHassioStats", "getSupervisorEventCollection"}
TriggerCalls == Calls \ {"callApi", "callApiRaw"}
SupervisorApi == <<"supervisor/api">>

(* Every string and name of a file, those inside templates included.       *)
RECURSIVE Texts(_)
Texts(toks) ==
    LET parts(t) == UNION {{p.lit} \cup Texts(p.hole) : p \in ToSet(t.parts)}
    IN  UNION {CASE toks[i].k = "s" -> {toks[i].v}
                 [] toks[i].k = "i" -> {toks[i].v}
                 [] toks[i].k = "t" -> parts(toks[i])
                 [] OTHER -> {} : i \in DOMAIN toks}

Triggered(toks) ==
    LET texts == Texts(toks)
        named(atom) == \E text \in texts : atom \in ToSet(text)
    IN  \/ SupervisorApi \in texts \/ \E call \in TriggerCalls : named(call)
        \/ \E text \in texts : \E i \in DOMAIN text :
              text[i] = "hassio" /\ i < Len(text) /\ text[i + 1] = "/"
        \/ (named("callApi") \/ named("callApiRaw")) /\ named("hassio")

-----------------------------------------------------------------------------
(* Resolving.  `known` is what Constants says of the file.                 *)

String(known, toks) ==
    LET bare == Unwrap(toks)
    IN  CASE Len(bare) = 1 /\ bare[1].k = "s" -> Good(bare[1].v)
          [] Len(bare) = 1 /\ bare[1].k = "i" /\ Name(bare[1]) \in DOMAIN known.strings ->
               Good(known.strings[Name(bare[1])])
          [] OTHER -> Unresolved

Verb(known, toks) ==
    LET said == String(known, toks)
        upper == IF said.val = <<"post">> THEN <<"POST">> ELSE said.val
    IN  IF said.ok /\ Len(upper) = 1 /\ upper[1] \in Verbs THEN Good(upper[1]) ELSE Unresolved

Branches(value, split) == IF split = <<>> THEN {value} ELSE {split[1].a, split[1].b}
Silent(members) == members.ok /\ DOMAIN members.val = {}
Merged(acc, spread) ==
    IF acc.ok /\ spread.ok THEN Good(spread.val @@ acc.val) ELSE Unresolved

(* The request keys of an object's members; the last one wins.             *)
RECURSIVE Members(_, _, _)
Members(known, toks, seen) ==
    LET silent_object(bare) ==
          IsObject(bare) /\ Silent(Members(known, Inner(bare), seen))
        spread(value) ==
          IF Len(value) = 1 /\ value[1].k = "i"
          THEN LET name == Name(value[1])
               IN  IF name \in seen \/ name \notin DOMAIN known.objects THEN Unresolved
                   ELSE Members(known, known.objects[name], seen \cup {name})
          ELSE IF \A branch \in Branches(value, Ternary(Unwrap(value))) : silent_object(Unwrap(branch))
          THEN Good(<<>>) ELSE Unresolved
        merge(acc, e) ==
          CASE e.kind = "other" -> Unresolved
            [] e.kind = "key" /\ e.name \notin RequestKeys -> acc
            [] e.kind = "key" /\ e.name \in RequestKeys -> Merged(acc, Good(e.name :> e.value))
            [] e.kind = "spread" -> Merged(acc, spread(e.value))
    IN  FoldLeft(merge, Good(<<>>), ObjectEntries(toks))

TemplatePaths(parts) ==
    IF \E n \in DOMAIN parts : parts[n].hole # <<>> /\ ~IsChain(parts[n].hole) THEN Unresolved
    ELSE Good(<<FlattenSeq([n \in DOMAIN parts |->
                  IF parts[n].hole = <<>> THEN parts[n].lit
                  ELSE <<Placeholder(Name(Last(parts[n].hole)))>>])>>)

(* `table[ident]`: every member of the table is a path.                    *)
Table(known, name) ==
    IF name \notin DOMAIN known.objects THEN Unresolved
    ELSE LET entries == ObjectEntries(known.objects[name])
             path(e) == e.kind = "key" /\ Len(e.value) = 1 /\ e.value[1].k = "s"
         IN  IF \E n \in DOMAIN entries : ~path(entries[n]) THEN Unresolved
             ELSE Good([n \in DOMAIN entries |-> entries[n].value[1].v])

Indexed(bare) ==
    /\ Len(bare) = 4 /\ bare[1].k = "i" /\ IsP(bare[2], "[")
    /\ bare[3].k = "i" /\ IsP(bare[4], "]")
OnePath(said) == IF said.ok THEN Good(<<said.val>>) ELSE Unresolved
EitherPath(a, b) == IF a.ok /\ b.ok THEN Good(a.val \o b.val) ELSE Unresolved

(* Every string a path expression can be.  `split` is its ternary.         *)
RECURSIVE PathsOf(_, _, _)
PathsOf(known, bare, split) ==
    LET branch(toks) == PathsOf(known, Unwrap(toks), Ternary(Unwrap(toks)))
    IN  CASE split # <<>> -> EitherPath(branch(split[1].a), branch(split[1].b))
          [] split = <<>> /\ Len(bare) = 1 /\ bare[1].k = "t" -> TemplatePaths(bare[1].parts)
          [] split = <<>> /\ Indexed(bare) -> Table(known, Name(bare[1]))
          [] OTHER -> OnePath(String(known, bare))
Paths(known, toks) == PathsOf(known, Unwrap(toks), Ternary(Unwrap(toks)))

(* The Supervisor paths among the alternatives, if all can be read.        *)
Supervisors(paths) ==
    IF \E n \in DOMAIN paths : ~paths[n].ok THEN Unresolved
    ELSE Good(UNION {ToSet(paths[n].val) : n \in DOMAIN paths})
Normal(alternatives, suffix, require_hassio) ==
    IF ~alternatives.ok THEN Unresolved
    ELSE Supervisors([n \in DOMAIN alternatives.val |->
                        Normalise(alternatives.val[n] \o suffix, require_hassio)])
Resolve(known, toks, suffix, require_hassio) ==
    Normal(Paths(known, toks), suffix, require_hassio)

-----------------------------------------------------------------------------
(* Constructs: the object whose members say what is asked, if it has one,  *)
(* and what the call itself says: path, verb, suffix.  `readable` is FALSE *)
(* when an argument that must be an object is none.                        *)

Ask == [object |-> <<>>, path |-> <<>>, verb |-> <<>>, suffix |-> <<>>, said |-> "",
        hassio |-> FALSE, readable |-> TRUE, typed |-> FALSE, declared |-> FALSE]

Entry(method, path, offset) ==
    [raw |-> offset # 0, method |-> method, path |-> path, offset |-> offset]

Direct(inner, key) ==
    LET found == SelectSeq(ObjectEntries(inner), LAMBDA e : e.kind = "key" /\ e.name = key)
    IN  IF found = <<>> THEN <<>> ELSE <<Last(found).value>>

(* Whether an object names the type, read leniently so that a request with *)
(* a member that cannot be read is still caught.                           *)
RECURSIVE SupervisorObject(_, _, _)
SupervisorObject(known, inner, seen) ==
    LET entries == ObjectEntries(inner)
        typed(e) ==
          /\ e.kind = "key" /\ e.name = "type" /\ Len(e.value) = 1
          /\ \/ e.value[1].k = "s" /\ e.value[1].v = SupervisorApi
             \/ /\ e.value[1].k = "i" /\ Name(e.value[1]) \in DOMAIN known.strings
                /\ known.strings[Name(e.value[1])] = SupervisorApi
        spreads(e) ==
          /\ e.kind = "spread" /\ Len(e.value) = 1 /\ e.value[1].k = "i"
          /\ Name(e.value[1]) \in DOMAIN known.spans \ seen
          /\ \E body \in known.spans[Name(e.value[1])] :
                SupervisorObject(known, body, seen \cup {Name(e.value[1])})
    IN  \E n \in DOMAIN entries : typed(entries[n]) \/ spreads(entries[n])

Get(path, suffix) == [Ask EXCEPT !.path = <<path>>, !.suffix = suffix, !.said = "GET"]
CallApi(method, path) == [Ask EXCEPT !.path = <<path>>, !.verb = <<method>>, !.hassio = TRUE]
WithOptions(ask, object) ==
    IF IsObject(object) THEN [ask EXCEPT !.object = <<Inner(object)>>]
    ELSE [ask EXCEPT !.readable = FALSE]
ApiCall(path, options) ==
    IF options = <<>> THEN Get(path, <<>>)
    ELSE WithOptions([Ask EXCEPT !.path = <<path>>], options[1])
RequestObject(toks, pairs, i) ==
    [Ask EXCEPT !.object = <<SubSeq(toks, i + 1, pairs[i] - 1)>>, !.typed = TRUE,
                !.declared = /\ At(toks, i - 1, LAMBDA t : IsP(t, "="))
                             /\ At(toks, i - 2, LAMBDA t : t.k = "i")]

(* A call's construct, as a sequence of none or one.                       *)
CallOn(name, args) ==
    LET has(n) == n <= Len(args) /\ args[n] # <<>>
    IN  CASE ~has(1) -> <<>>
          [] name = "supervisorApiWsRequest" /\ has(2) -> <<WithOptions(Ask, args[2])>>
          [] name = "supervisorApiCall" /\ has(2) ->
               <<ApiCall(args[2], IF has(3) THEN <<args[3]>> ELSE <<>>)>>
          [] name \in {"callApi", "callApiRaw"} /\ has(2) -> <<CallApi(args[1], args[2])>>
          [] name = "supervisorUrl" -> <<Get(args[1], <<>>)>>
          [] name = "fetchHassioStats" /\ has(2) -> <<Get(args[2], <<"/", "stats">>)>>
          [] name = "getSupervisorEventCollection" /\ has(3) -> <<Get(args[3], <<>>)>>
          [] OTHER -> <<>>
Call(name, called) == IF called = <<>> THEN <<>> ELSE CallOn(name, called[1].args)

ConstructAt(known, toks, pairs, i) ==
    CASE toks[i].k = "i" /\ Name(toks[i]) \in Calls -> Call(Name(toks[i]), CallArgs(toks, pairs, i))
      [] IsP(toks[i], "{") /\ i \in DOMAIN pairs ->
           LET ask == RequestObject(toks, pairs, i)
           IN  IF SupervisorObject(known, ask.object[1], {}) THEN <<ask>> ELSE <<>>
      [] OTHER -> <<>>

(* Broken: an object without an endpoint is never a call.                  *)
NoEndpointMaybe(ask) == Good({})

(* A shared `{type, method}` that call sites spread is not itself a call.  *)
NoEndpoint(ask) == IF ask.declared THEN Good({}) ELSE Unresolved

(* The verb of callApi only matters once the path is a Supervisor one.     *)
Request(ask, paths, method) ==
    IF ~paths.ok \/ (ask.hassio /\ paths.val = {}) THEN paths
    ELSE IF method.ok THEN Good({<<method.val, path>> : path \in paths.val}) ELSE Unresolved

(* `keys`: the request keys of the construct's object.                     *)
Attempt(known, ask, keys) ==
    LET said(key) == IF key \in DOMAIN keys.val THEN <<keys.val[key]>> ELSE <<>>
        typed == said("type") # <<>> /\ String(known, said("type")[1]) = Good(SupervisorApi)
        path == ask.path \o (IF ask.path = <<>> THEN said("endpoint") ELSE <<>>)
        verb == ask.verb \o said("method")
    IN  CASE ~ask.readable \/ ~keys.ok -> Unresolved
          [] ask.readable /\ keys.ok /\ ask.typed /\ ~typed -> Unresolved
          [] ask.readable /\ keys.ok /\ (ask.typed => typed) /\ path = <<>> -> NoEndpoint(ask)
          [] OTHER -> Request(ask, Resolve(known, path[1], ask.suffix, ask.hassio),
                              IF verb = <<>> THEN Good("GET") ELSE Verb(known, verb[1]))

(* The verb of a raw entry is read on its own.                             *)
RawVerb(known, ask) ==
    LET toks == IF ask.object = <<>> THEN ask.verb ELSE Direct(ask.object[1], "method")
    IN  IF toks = <<>> THEN Unresolved ELSE Verb(known, toks[1])
Said(ask, verb) == IF ask.said # "" THEN ask.said ELSE IF verb.ok THEN verb.val ELSE "UNKNOWN"

Emit(known, ask, attempt, offset) ==
    IF attempt.ok THEN {Entry(r[1], r[2], 0) : r \in attempt.val}
    ELSE {Entry(Said(ask, RawVerb(known, ask)), <<>>, offset)}

Keys(known, ask) ==
    IF ask.object = <<>> THEN Good(<<>>) ELSE Members(known, ask.object[1], {})
Entries(known, construct, offset) ==
    UNION {Emit(known, ask, Attempt(known, ask, Keys(known, ask)), offset) : ask \in ToSet(construct)}

RECURSIVE WalkIn(_, _, _)
WalkIn(known, toks, pairs) ==
    LET within(t) == UNION {WalkIn(known, part.hole, Matching(part.hole)) : part \in ToSet(t.parts)}
    IN  UNION {Entries(known, ConstructAt(known, toks, pairs, i), toks[i].at)
               \cup (IF toks[i].k = "t" THEN within(toks[i]) ELSE {}) : i \in DOMAIN toks}
Walk(known, toks) == WalkIn(known, toks, Matching(toks))

(* main extracts only from a file that is triggered, so an unread callApi  *)
(* is never skipped.                                                       *)
Extract(toks) == Walk(Constants(toks, Matching(toks)), toks)

-----------------------------------------------------------------------------
(* main/0                                                                  *)

FeInit(checkout) ==
    /\ files = checkout /\ at = 1 /\ exit = -1
    /\ endpoints = {} /\ silent = {} /\ sources = {}

ReadFile ==
    /\ exit = -1 /\ at <= Len(files)
    /\ LET found == Extract(files[at].toks)
       IN  IF Triggered(files[at].toks)
           THEN /\ sources' = sources \cup {at}
                /\ endpoints' = endpoints \cup {<<at, e>> : e \in found}
                /\ silent' = IF SupervisorApi \in Texts(files[at].toks) /\ found = {}
                             THEN silent \cup {at} ELSE silent
           ELSE UNCHANGED <<endpoints, silent, sources>>
    /\ at' = at + 1 /\ UNCHANGED <<files, exit>>

WriteFixture ==
    /\ exit = -1 /\ at > Len(files)
    /\ exit' = IF silent # {} \/ endpoints = {} THEN 2 ELSE 0
    /\ UNCHANGED <<files, at, endpoints, silent, sources>>

FeNext == ReadFile \/ WriteFixture
=============================================================================
