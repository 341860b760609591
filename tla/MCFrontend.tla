----------------------------- MODULE MCFrontend -----------------------------
(***************************************************************************)
(* The frontend sources FrontendEndpoints is checked on.  A program is     *)
(* declarations, what becomes of them, and one construct; it is written as *)
(* the tokens the script reads (Render) and as the requests a JavaScript   *)
(* engine could make of it (Means).  The two share no operator.            *)
(***************************************************************************)
EXTENDS FrontendEndpoints

-----------------------------------------------------------------------------
(* Expressions.                                                            *)

Lit(atoms) == [e |-> "lit", v |-> atoms, a |-> <<>>]
Ref(name) == [e |-> "name", v |-> <<name>>, a |-> <<>>]
Tmpl(atoms) == [e |-> "tmpl", v |-> atoms, a |-> <<>>]      \* a hole is an atom of Holes
Cond(x, y) == [e |-> "cond", v |-> <<>>, a |-> <<x, y>>]
Paren(x) == [e |-> "paren", v |-> <<>>, a |-> <<x>>]
Sum(x, y) == [e |-> "sum", v |-> <<>>, a |-> <<x, y>>]
TableOf == [e |-> "table", v |-> <<>>, a |-> <<>>]

Host == <<"/", "host", "/", "info">>
Store == <<"/", "store", "?", "all">>
Stats == <<"/", "addons", "/", "{slug}", "/", "stats">>
Shared == <<"/", "addons", "/", "x-", "{slug}">>
Chosen == <<"/", "{param}", "/", "stats">>
ConstPath == <<"/", "os", "/", "info">>
LaterPath == <<"/", "os", "/", "update">>
TablePaths == <<<<"/", "host">>, <<"/", "store">>>>

HoleName(hole) == IF hole = "{slug}" THEN "addon" ELSE "container"

RECURSIVE RenderExpr(_)
RenderExpr(x) ==
    CASE x.e = "lit" -> <<S(x.v)>>
      [] x.e = "name" -> <<I(x.v[1])>>
      [] x.e = "tmpl" -> <<T([n \in DOMAIN x.v |->
                            IF x.v[n] \in Holes THEN Hole(<<I("this"), P("."), I(HoleName(x.v[n]))>>)
                            ELSE Literal(<<x.v[n]>>)])>>
      [] x.e = "cond" -> <<I("c"), P("?")>> \o RenderExpr(x.a[1]) \o <<P(":")>> \o RenderExpr(x.a[2])
      [] x.e = "paren" -> <<P("(")>> \o RenderExpr(x.a[1]) \o <<P(")")>>
      [] x.e = "sum" -> RenderExpr(x.a[1]) \o <<P("+")>> \o RenderExpr(x.a[2])
      [] x.e = "table" -> <<I("TABLE"), P("["), I("key"), P("]")>>

(* A value is what it may be as far as can be told, and whether that is all. *)
Exactly(vals) == [known |-> TRUE, vals |-> vals]
Anything == [known |-> FALSE, vals |-> {}]
Either(x, y) == [known |-> x.known /\ y.known, vals |-> x.vals \cup y.vals]

RECURSIVE Value(_, _)
Value(x, env) ==
    CASE x.e \in {"lit", "tmpl"} -> Exactly({x.v})
      [] x.e = "name" /\ x.v[1] # "PATH" -> Anything
      [] x.e = "name" /\ x.v[1] = "PATH" ->
           CASE env.path \in {"const", "twice"} -> Exactly({ConstPath})
             [] env.path = "let" -> Exactly({ConstPath, LaterPath})
             [] env.path \in {"type", "let_type"} -> Exactly({SupervisorApi})
             [] OTHER -> Anything
      [] x.e = "cond" -> Either(Value(x.a[1], env), Value(x.a[2], env))
      [] x.e = "paren" -> Value(x.a[1], env)
      [] x.e = "sum" -> Anything
      [] x.e = "table" -> IF env.table = "intact" THEN Exactly(ToSet(TablePaths)) ELSE Anything

-----------------------------------------------------------------------------
(* Objects: sequences of members.                                          *)

Key(name, x) == [m |-> "key", name |-> name, x |-> x]
Spread == [m |-> "spread", name |-> "", x |-> Lit(<<>>)]          \* ...BASE
Inline(name) == [m |-> "inline", name |-> name, x |-> Lit(<<"POST">>)]  \* ...(c ? {} : {name: "POST"})
Computed == [m |-> "computed", name |-> "", x |-> Ref("v")]       \* [k]: v

RenderMember(m) ==
    CASE m.m = "key" -> <<I(m.name), P(":")>> \o RenderExpr(m.x)
      [] m.m = "spread" -> <<P("..."), I("BASE")>>
      [] m.m = "inline" -> <<P("..."), P("("), I("c"), P("?"), P("{"), P("}"), P(":"), P("{"),
                             I(m.name), P(":")>> \o RenderExpr(m.x) \o <<P("}"), P(")")>>
      [] m.m = "computed" -> <<P("["), I("k"), P("]"), P(":")>> \o RenderExpr(m.x)

RenderObject(members) ==
    <<P("{")>> \o FlattenSeq([n \in DOMAIN members |-> RenderMember(members[n]) \o <<P(",")>>])
    \o <<P("}")>>

Absent == Exactly({})
Nothing == [key \in RequestKeys |-> Absent]

(* What the members say of each request key, the later ones over the earlier. *)
RECURSIVE Object(_, _)
Object(members, env) ==
    LET visible == Object(env.base, env)
        over(old, new) == IF new = Absent THEN old ELSE new
        unknown(old) == [old EXCEPT !.known = FALSE]
        apply(keys, m) ==
          CASE m.m = "key" ->
                 IF m.name \in RequestKeys THEN [keys EXCEPT ![m.name] = Value(m.x, env)] ELSE keys
            [] m.m = "spread" ->
                 CASE env.fate = "intact" -> [k \in RequestKeys |-> over(keys[k], visible[k])]
                   [] env.fate \in {"written", "passed"} ->
                        [k \in RequestKeys |-> unknown(Either(keys[k], visible[k]))]
                   [] OTHER -> [k \in RequestKeys |-> unknown(keys[k])]
            [] m.m = "inline" ->
                 IF m.name \notin RequestKeys THEN keys
                 ELSE [keys EXCEPT ![m.name] = Either(IF @ = Absent THEN Exactly({<<"GET">>}) ELSE @,
                                                      Exactly({<<"POST">>}))]
            [] m.m = "computed" -> [k \in RequestKeys |-> unknown(keys[k])]
    IN  FoldLeft(apply, Nothing, members)

-----------------------------------------------------------------------------
(* Programs.                                                               *)

Declarations(env) ==
    LET path == CASE env.path \in {"const", "param", "twice"} ->
                       <<I("const"), I("PATH"), P("="), S(ConstPath), P(";")>>
                  [] env.path = "let" -> <<I("let"), I("PATH"), P("="), S(ConstPath), P(";")>>
                  [] env.path = "type" -> <<I("const"), I("PATH"), P("="), S(SupervisorApi), P(";")>>
                  [] env.path = "let_type" ->
                       <<I("let"), I("PATH"), P("="), S(SupervisorApi), P(";")>>
                  [] OTHER -> <<>>
        base == IF env.fate = "import" THEN <<>>
                ELSE <<I("const"), I("BASE"), P("=")>> \o RenderObject(env.base) \o <<P(";")>>
        table == <<I("const"), I("TABLE"), P("="), P("{"), I("host"), P(":"), S(TablePaths[1]),
                   P(","), I("store"), P(":"), S(TablePaths[2])>>
                 \o (IF env.table = "spread" THEN <<P(","), P("..."), I("extra")>> ELSE <<>>)
                 \o <<P("}"), P(";")>>
    IN  path \o base \o table

Fates(env) ==
    (CASE env.fate = "written" -> <<I("BASE"), P("."), I("method"), P("="), S(<<"POST">>), P(";")>>
       [] env.fate = "passed" -> <<I("f"), P("("), I("BASE"), P(")"), P(";")>>
       [] OTHER -> <<>>)
    \o (CASE env.path = "let" -> <<I("PATH"), P("="), S(LaterPath), P(";")>>
          [] env.path = "twice" -> <<I("function"), I("g"), P("("), P(")"), P("{"), I("const"), I("PATH"),
                                     P("="), S(LaterPath), P(";"), P("}")>>
          [] OTHER -> <<>>)
    \o (IF env.table = "written"
        THEN <<I("TABLE"), P("["), I("key"), P("]"), P("="), S(LaterPath), P(";")>> ELSE <<>>)

Shadowed(env) ==
    (IF env.path = "param" THEN <<P(","), I("PATH")>> ELSE <<>>)
    \o (IF env.fate = "param" THEN <<P(","), I("BASE")>> ELSE <<>>)

(* One construct: its form, its members, its path and its method.          *)
Construct(c) ==
    LET path == RenderExpr(c.path)
    IN  CASE c.form = "object" -> RenderObject(c.members)
          [] c.form = "declared" -> RenderObject(c.members)
          [] c.form = "ws" -> <<I("supervisorApiWsRequest"), P("("), I("conn"), P(",")>>
                              \o RenderObject(c.members) \o <<P(")")>>
          [] c.form = "call" -> <<I("supervisorApiCall"), P("<"), I("T"), P(">"), P("("), I("hass"), P(",")>>
                                \o path \o (IF c.members = <<>> THEN <<>>
                                            ELSE <<P(",")>> \o RenderObject(c.members)) \o <<P(")")>>
          [] c.form = "http" -> <<I("callApi"), P("(")>> \o RenderExpr(c.method) \o <<P(",")>>
                                \o path \o <<P(")")>>
          [] c.form = "url" -> <<I("supervisorUrl"), P("(")>> \o path \o <<P(")")>>
          [] c.form = "stats" -> <<I("fetchHassioStats"), P("("), I("ws"), P(",")>> \o path \o <<P(")")>>
          [] c.form = "events" -> <<I("getSupervisorEventCollection"), P("("), I("conn"), P(","),
                                    S(<<"k">>), P(",")>> \o path \o <<P(")")>>

Before(c, env) ==
    Declarations(env) \o Fates(env) \o <<P("("), I("hass")>> \o Shadowed(env)
    \o <<P(")"), P("=>"), P("{")>>
    \o (IF c.form = "declared" THEN <<I("const"), I("req"), P("=")>>
        ELSE IF c.form = "object" THEN <<I("callWS"), P("(")>> ELSE <<>>)

(* What follows the construct: unless the file is to hold nothing else, one*)
(* more request, so that the file is not silent whatever becomes of it.    *)
Extra == <<I("supervisorUrl"), P("("), S(<<"/", "jobs">>), P(")"), P(";")>>
After(c) ==
    (IF c.form = "declared" THEN <<P(";"), I("callWS"), P("("), I("req"), P(")")>>
     ELSE IF c.form = "object" THEN <<P(")")>> ELSE <<>>) \o <<P(";"), P("}"), P(";")>> \o (IF c.alone THEN <<>> ELSE Extra)

Render(c, env) ==
    LET toks == Before(c, env) \o Construct(c) \o After(c)
    IN  [i \in DOMAIN toks |-> [toks[i] EXCEPT !.at = i]]

(* The segments a path is served under; none when it cannot be said.       *)
Segments(path) ==
    LET query == {i \in DOMAIN path : path[i] = "?"}
        bare == IF query = {} THEN path ELSE SubSeq(path, 1, (CHOOSE i \in query : TRUE) - 1)
        slashes == SelectSeq([i \in 1..(Len(bare) + 1) |-> i],
                             LAMBDA i : i = Len(bare) + 1 \/ bare[i] = "/")
        between(n) == SubSeq(bare, slashes[n] + 1, slashes[n + 1] - 1)
        all == SelectSeq([n \in 1..(Len(slashes) - 1) |-> between(n)], LAMBDA s : s # <<>>)
        chosen(s) == \E hole \in Holes : hole \in ToSet(s)
    IN  IF chosen(all[1]) \/ \E n \in DOMAIN all : chosen(all[n]) /\ Len(all[n]) > 1
        THEN <<>> ELSE <<all>>

Methods(value) ==
    IF value = Absent THEN Exactly({"GET"})
    ELSE [known |-> value.known,
          vals |-> {IF v = <<"post">> THEN "POST" ELSE v[1] : v \in value.vals}]

(* What a construct asks for: whether it asks anything of the Supervisor,  *)
(* whether all of it can be told, and the requests if so.                  *)
Asks(methods, paths, suffix) ==
    LET routed(p) == Segments(p \o suffix)
    IN  [asks |-> TRUE,
         known |-> methods.known /\ paths.known /\ \A p \in paths.vals : routed(p) # <<>>,
         reqs |-> {<<m, routed(p)[1]>> : m \in methods.vals,
                                         p \in {q \in paths.vals : routed(q) # <<>>}}]
AsksNothing == [asks |-> FALSE, known |-> TRUE, reqs |-> {}]

Hassio(paths) == {p \in paths.vals : p[1] = "hassio"}
Get1 == Exactly({"GET"})

Means(c, env) ==
    LET keys == Object(c.members, env)
        path == Value(c.path, env)
        asks == Asks(Methods(keys["method"]), keys["endpoint"], <<>>)
        spoken == keys["endpoint"] # Absent
        http == [path EXCEPT !.known = @ /\ \A p \in path.vals : p[1] \notin Holes,
                             !.vals = {SubSeq(p, 2, Len(p)) : p \in Hassio(path)}]
        typed == SupervisorApi \in keys["type"].vals \/ ~keys["type"].known
    IN  CASE c.form \in {"object", "declared"} ->
               IF ~typed \/ (c.form = "declared" /\ ~spoken) THEN AsksNothing
               ELSE [asks EXCEPT !.known = @ /\ keys["type"] = Exactly({SupervisorApi}) /\ spoken]
          [] c.form = "ws" -> [asks EXCEPT !.known = @ /\ spoken]
          [] c.form = "call" -> Asks(Methods(keys["method"]), path, <<>>)
          [] c.form = "http" -> IF path.known /\ http.known /\ http.vals = {} THEN AsksNothing
                                ELSE Asks(Methods(Value(c.method, env)), http, <<>>)
          [] c.form \in {"url", "events"} -> Asks(Get1, path, <<>>)
          [] c.form = "stats" -> Asks(Get1, path, <<"/", "stats">>)

(* Whether a reader of this file alone sees what makes the construct a     *)
(* request: the form itself, a type that is a literal or a once-declared   *)
(* const, or an object of the file that has such a type.                   *)
InSight(c, env) ==
    LET types(m) == m.m = "key" /\ m.name = "type"
        plain(m) == types(m) /\ (m.x = Lit(SupervisorApi) \/ (m.x = Ref("PATH") /\ env.path = "type"))
        shared(m) == m.m = "spread" /\ env.fate # "import" /\ \E b \in ToSet(env.base) : types(b)
    IN  c.form \in {"object", "declared"} => \E m \in ToSet(c.members) : plain(m) \/ shared(m)

(* A request out of sight can pass for nothing when another request speaks *)
(* for its file, or when the file does not even name the type.             *)
CanHide(c, env) ==
    LET names(tok) == tok.k = "s" /\ tok.v = SupervisorApi
    IN  ~InSight(c, env) /\ (c.alone => ~\E tok \in ToSet(Render(c, env)) : names(tok))

File(c, env) ==
    [toks |-> Render(c, env), means |-> Means(c, env), hidden |-> CanHide(c, env),
     site |-> Len(Before(c, env)) + 1,
     extra |-> IF c.alone THEN {} ELSE {<<"GET", <<<<"jobs">>>>>>}]

-----------------------------------------------------------------------------
(* The programs.                                                           *)

Plain == [path |-> "const", fate |-> "intact", table |-> "intact",
          base |-> <<Key("type", Lit(SupervisorApi)), Key("method", Lit(<<"post">>))>>]

TypeKey == Key("type", Lit(SupervisorApi))
SomeMembers == {Key("endpoint", Lit(Host)), Key("endpoint", Ref("PATH")), Key("method", Lit(<<"post">>)),
                Key("method", Ref("verb")), Spread, Inline("headers"), Inline("method"), Computed}
MemberLists ==
    {<<TypeKey, m>> : m \in SomeMembers} \cup {<<TypeKey, m, n>> : m, n \in SomeMembers}
    \cup {<<m, TypeKey, n>> : m, n \in SomeMembers \ {Inline("headers"), Computed}}

Bases == {Plain.base, <<Key("method", Lit(<<"GET">>)), Key("endpoint", Lit(Store))>>}
Construction(form, members, path, method) ==
    [form |-> form, members |-> members, path |-> path, method |-> method, alone |-> FALSE]
Post == Lit(<<"post">>)

MemberPrograms ==
    UNION {{<<Construction(form, members, Lit(Host), Post),
              [Plain EXCEPT !.base = base, !.fate = fate, !.path = path]>> :
              form \in {"object", "declared"},
              base \in IF Contains(members, Spread) THEN Bases ELSE {Plain.base},
              fate \in IF Contains(members, Spread)
                       THEN {"intact", "written", "passed", "param", "import"} ELSE {"intact"},
              path \in IF Contains(members, Key("endpoint", Ref("PATH")))
                       THEN {"const", "let", "param", "twice"} ELSE {"const"}} :
           members \in MemberLists}
    \cup {<<Construction(form, members, Lit(Host), Post), Plain>> :
              form \in {"object", "declared", "ws"},
              members \in {<<Spread, m>> : m \in SomeMembers} \cup {<<m, Spread>> : m \in SomeMembers}
                          \cup {<<m>> : m \in SomeMembers}}

(* The type is not written where the construct is: it is a name, or comes  *)
(* with an object that is the file's own, imported, changed or shadowed.   *)
TypedElsewhere ==
    {<<[Construction(form, <<Key("type", Ref("PATH")), Key("endpoint", Lit(Host))>>, Lit(Host), Post)
            EXCEPT !.alone = alone],
       [Plain EXCEPT !.path = path]>> :
        form \in {"object", "declared"}, alone \in BOOLEAN, path \in {"type", "let_type"}}
    \cup
    {<<[Construction(form, <<Spread, Key("endpoint", Lit(Host))>>, Lit(Host), Post)
            EXCEPT !.alone = alone],
       [Plain EXCEPT !.fate = fate, !.base = base]>> :
        form \in {"object", "declared"}, alone \in BOOLEAN, base \in Bases,
        fate \in {"intact", "written", "passed", "param", "import"}}

Simple == {Lit(Host), Lit(Store), Tmpl(Stats), Tmpl(Shared), Tmpl(Chosen), Ref("PATH"), TableOf}
PathExprs ==
    Simple \cup {Sum(Lit(Host), Ref("PATH")), Paren(Lit(Host))}
    \cup {Cond(x, y) : x, y \in Simple}
    \cup {Cond(Cond(Lit(Host), Ref("PATH")), Lit(Store)), Cond(Lit(Store), Cond(TableOf, Lit(Host))),
          Paren(Cond(Paren(Cond(Lit(Host), Tmpl(Stats))), Lit(Store)))}
RECURSIVE Under(_)
Under(x) == CASE x.e \in {"lit", "tmpl"} -> [x EXCEPT !.v = <<"hassio">> \o @]
              [] OTHER -> [x EXCEPT !.a = [n \in DOMAIN @ |-> Under(@[n])]]
HttpPaths ==
    {Under(x) : x \in PathExprs}
    \cup {Cond(Under(Lit(Host)), Lit(<<"states">>)), Lit(<<"states">>), Tmpl(<<"{param}", "/", "info">>)}

PathPrograms(forms, paths, methods, consts, tables) ==
    {<<Construction(form, <<>>, path, method), [Plain EXCEPT !.path = const, !.table = table]>> :
        form \in forms, path \in paths, method \in methods, const \in consts, table \in tables}

Programs ==
    MemberPrograms \cup TypedElsewhere
    \cup PathPrograms({"call"}, PathExprs, {Post}, {"const", "let", "param"},
                      {"intact", "spread", "written"})
    \cup PathPrograms({"url", "stats", "events"}, Simple, {Post}, {"const"}, {"intact"})
    \cup PathPrograms({"http"}, HttpPaths, {Post, Ref("verb")}, {"const"}, {"intact"})

Quiet == [toks |-> <<I("states"), P(";")>>, means |-> AsksNothing, hidden |-> FALSE, site |-> 1, extra |-> {}]
Loud == [toks |-> Extra, means |-> AsksNothing, hidden |-> FALSE, site |-> 1, extra |-> {<<"GET", <<<<"jobs">>>>>>}]

FrontendInit ==
    \/ \E p \in Programs : FeInit(<<File(p[1], p[2])>>)
    \/ \E p \in TypedElsewhere, other \in {Quiet, Loud} : FeInit(<<other, File(p[1], p[2])>>)

(* FAILS CLOSED (frontend_hassio_endpoints.py, docstring): when the script *)
(* prints, every construct that asks, or may ask, something of the         *)
(* Supervisor left each request it can make in the list, or a raw entry at *)
(* its place.  The exception is an object whose type is out of sight, in a *)
(* file that another request speaks for or that never names the type:      *)
(* supervisor_object passes it over, and only the pinned hash can tell.    *)
(* Alone in a file that names the type, it makes the script exit 2.        *)
NothingIsDropped ==
    exit = 0 => \A n \in DOMAIN files :
        LET means == files[n].means
            raw == \E e \in endpoints : e[1] = n /\ e[2].offset = files[n].site
            listed(r) == <<n, Entry(r[1], r[2], 0)>> \in endpoints
        IN  means.asks /\ ~files[n].hidden => raw \/ (means.known /\ \A r \in means.reqs : listed(r))

(* A resolved entry is a request the source makes: no path or method is    *)
(* read from a constant that is shadowed, rebound or mutated, or from a    *)
(* member that another one overrides.                                      *)
NothingIsInvented ==
    \A e \in endpoints : ~e[2].raw =>
        LET file == files[e[1]]
            request == <<e[2].method, e[2].path>>
        IN  request \in file.extra \/ (file.means.known /\ request \in file.means.reqs)
=============================================================================
