--------------------------- MODULE FrontendSyntax ---------------------------
(***************************************************************************)
(* How scripts/frontend_hassio_endpoints.py reads TypeScript tokens:       *)
(* brackets, top-level splits, ternaries, object literals, the constants a *)
(* file declares, and the normal form of a Supervisor path.                *)
(*                                                                         *)
(* A token is a kind, a value, an offset and, for a template, its parts,   *)
(* each a literal or a hole.  A value is a sequence of atoms: of a string, *)
(* "/" and "?" among them, so that a path can be split and a hole told     *)
(* from a literal; of a name or a bracket, that one.                       *)
(***************************************************************************)
EXTENDS Integers, Sequences, FiniteSets, SequencesExt

Tok(kind, atoms, parts) == [k |-> kind, v |-> atoms, parts |-> parts, at |-> 0]
P(value) == Tok("p", <<value>>, <<>>)
I(name) == Tok("i", <<name>>, <<>>)
S(atoms) == Tok("s", atoms, <<>>)
T(parts) == Tok("t", <<>>, parts)
Name(tok) == tok.v[1]
Literal(atoms) == [lit |-> atoms, hole |-> <<>>]
Hole(toks) == [lit |-> <<>>, hole |-> toks]

IsP(tok, value) == tok.k = "p" /\ Name(tok) = value
IsPIn(tok, values) == tok.k = "p" /\ Name(tok) \in values
IsI(tok, name) == tok.k = "i" /\ Name(tok) = name
Opens(tok) == IsPIn(tok, {"(", "[", "{"})
Closes(tok) == IsPIn(tok, {")", "]", "}"})
At(toks, i, Test(_)) == i \in DOMAIN toks /\ Test(toks[i])

(* What a step that may be outside the whitelist returns.                  *)
Good(value) == [ok |-> TRUE, val |-> value]
Unresolved == [ok |-> FALSE, val |-> <<>>]

-----------------------------------------------------------------------------
(* Brackets.                                                               *)

Matching(toks) ==
    FoldLeftDomain(LAMBDA acc, i :
        IF Opens(toks[i]) THEN [acc EXCEPT !.stack = Append(@, i)]
        ELSE IF Closes(toks[i]) /\ acc.stack # <<>>
        THEN LET j == Last(acc.stack)
             IN  [stack |-> Front(acc.stack), pairs |-> acc.pairs @@ (i :> j) @@ (j :> i)]
        ELSE acc, [stack |-> <<>>, pairs |-> <<>>], toks).pairs

Depth(toks, i) ==
    Cardinality({j \in 1..i : Opens(toks[j])}) - Cardinality({j \in 1..i : Closes(toks[j])})

Top(toks, value) == {i \in DOMAIN toks : IsP(toks[i], value) /\ Depth(toks, i) = 0}

Pieces(seq, cuts) ==
    LET ends == SetToSortSeq(cuts \cup {0, Len(seq) + 1}, <)
    IN  [n \in 1..(Len(ends) - 1) |-> SubSeq(seq, ends[n] + 1, ends[n + 1] - 1)]

SplitTop(toks, sep) == Pieces(toks, Top(toks, sep))

(* (cond, a, b) of a top-level `c ? a : b`, as a sequence of none or one.  *)
Ternary(toks) ==
    LET asks == Top(toks, "?")
        q == Min(asks)
        colons == {i \in Top(toks, ":") : i > q}
        before(set, i) == Cardinality({j \in set : q < j /\ j < i})
        ends == {i \in colons : before(asks, i) = before(colons, i)}
    IN  IF asks = {} \/ ends = {} THEN <<>>
        ELSE <<[cond |-> SubSeq(toks, 1, q - 1), a |-> SubSeq(toks, q + 1, Min(ends) - 1),
                b |-> SubSeq(toks, Min(ends) + 1, Len(toks))]>>

Spans(toks, open) ==
    Len(toks) >= 2 /\ IsP(toks[1], open) /\ Matching(toks)[1] = Len(toks)
IsObject(toks) == Spans(toks, "{")
Inner(toks) == SubSeq(toks, 2, Len(toks) - 1)

RECURSIVE Unwrap(_)
Unwrap(toks) == IF Spans(toks, "(") THEN Unwrap(Inner(toks)) ELSE toks

(* `a` or `a.b.c`: as opaque as an identifier, so it is a placeholder.     *)
IsChain(toks) ==
    /\ Len(toks) % 2 = 1
    /\ \A i \in DOMAIN toks : IF i % 2 = 1 THEN toks[i].k = "i" ELSE IsP(toks[i], ".")

(* The arguments of the call whose callee is toks[i], `<T>` skipped: none  *)
(* or one pair of the arguments and the closing parenthesis.               *)
CallArgs(toks, pairs, i) ==
    LET angles(n) == Cardinality({j \in (i + 1)..n : IsP(toks[j], "<")})
                     - Cardinality({j \in (i + 1)..n : IsP(toks[j], ">")})
        typed == At(toks, i + 1, LAMBDA t : IsP(t, "<"))
        closed == {n \in (i + 2)..Len(toks) : IsP(toks[n], ">") /\ angles(n) = 0}
        j == IF ~typed THEN i + 1 ELSE IF closed = {} THEN Len(toks) + 1 ELSE Min(closed) + 1
    IN  IF At(toks, j, LAMBDA t : IsP(t, "(")) /\ j \in DOMAIN pairs
        THEN <<[args |-> SplitTop(SubSeq(toks, j + 1, pairs[j] - 1), ","), close |-> pairs[j]]>>
        ELSE <<>>

(* An object literal's top-level members.  A shorthand keeps its own token *)
(* as its value.                                                           *)
ObjectEntries(toks) ==
    LET entry(e) ==
          IF IsP(e[1], "...") THEN [kind |-> "spread", name |-> "", value |-> Tail(e)]
          ELSE IF Len(e) >= 3 /\ e[1].k \in {"i", "s"} /\ IsP(e[2], ":")
          THEN [kind |-> "key", name |-> Name(e[1]),
                value |-> SubSeq(e, 3, Len(e))]
          ELSE IF Len(e) = 1 /\ e[1].k = "i" THEN [kind |-> "key", name |-> Name(e[1]), value |-> e]
          ELSE [kind |-> "other", name |-> "", value |-> e]
        written == SelectSeq(SplitTop(toks, ","), LAMBDA e : e # <<>>)
    IN  [n \in DOMAIN written |-> entry(written[n])]

-----------------------------------------------------------------------------
(* constants/2: the declarations a construct may be resolved through.      *)

Assigns == {"=", "+=", "-=", "**=", "??=", "||=", "&&="}
Declares(toks, i) == At(toks, i, LAMBDA t : t.k = "i" /\ Name(t) \in {"const", "let", "var"})
Names(toks, from, to) == {Name(toks[i]) : i \in {j \in from..to : toks[j].k = "i"}}

(* Everything in a `(...)` followed by `=>`, `{` or `:` may be a parameter,*)
(* everything in a bracket after `const` is destructured into a binding.   *)
Binds(toks, pairs, i) ==
    /\ i \in DOMAIN pairs /\ i < pairs[i]
    /\ \/ /\ IsP(toks[i], "(")
          /\ At(toks, pairs[i] + 1, LAMBDA t : IsPIn(t, {"=>", "{", ":"}))
       \/ IsPIn(toks[i], {"{", "["}) /\ Declares(toks, i - 1)

(* Broken: a parameter of the same name is no second binding.              *)
ReboundByAssignment(toks, pairs) ==
    {Name(toks[i]) : i \in {j \in DOMAIN toks :
              /\ toks[j].k = "i" /\ ~Declares(toks, j - 1)
              /\ At(toks, j + 1, LAMBDA t : IsPIn(t, {":", "=", "=>", "?"}))}}

Rebound(toks, pairs) ==
    UNION {Names(toks, i + 1, pairs[i] - 1) : i \in {j \in DOMAIN toks : Binds(toks, pairs, j)}}
    \cup {Name(toks[i]) : i \in {j \in DOMAIN toks :
              /\ toks[j].k = "i" /\ ~Declares(toks, j - 1)
              /\ At(toks, j + 1, LAMBDA t : IsPIn(t, {":", "=", "=>", "?"}))}}

DeclaredAt(toks, name) == {i \in DOMAIN toks : IsI(toks[i], name) /\ Declares(toks, i - 1)}
Assigned(toks, i, Test(_)) == At(toks, i + 1, LAMBDA t : IsP(t, "=")) /\ At(toks, i + 2, Test)

ConstString(toks, i) ==
    /\ IsI(toks[i - 1], "const") /\ Assigned(toks, i, LAMBDA t : t.k = "s")
    /\ At(toks, i + 3, LAMBDA t : t.k = "p") => IsPIn(toks[i + 3], {";", ",", "}"})

Opened(toks, pairs, i) == Assigned(toks, i, LAMBDA t : IsP(t, "{")) /\ i + 2 \in DOMAIN pairs
ConstObject(toks, pairs, i) == IsI(toks[i - 1], "const") /\ Opened(toks, pairs, i)

(* An object stays what its literal says only if each use spreads it, takes*)
(* its type or reads NAME[ident].                                          *)
ObjectUse(toks, pairs, u) ==
    \/ At(toks, u - 1, LAMBDA t : IsP(t, "...") \/ IsI(t, "typeof"))
    \/ /\ At(toks, u + 1, LAMBDA t : IsP(t, "[")) /\ u + 1 \in DOMAIN pairs
       /\ pairs[u + 1] = u + 3 /\ toks[u + 2].k = "i"
       /\ ~At(toks, u + 4, LAMBDA t : IsPIn(t, Assigns))

(* The const strings and the literal objects that can be trusted, and every*)
(* `NAME = {...}`, trusted or not.                                         *)
Constants(toks, pairs) ==
    LET rebound == Rebound(toks, pairs)
        names == {Name(toks[i]) : i \in {j \in DOMAIN toks : toks[j].k = "i"}}
        decl(n) == CHOOSE i \in DeclaredAt(toks, n) : TRUE
        once == {n \in names \ rebound : Cardinality(DeclaredAt(toks, n)) = 1}
        uses(n) == {i \in DOMAIN toks : IsI(toks[i], n)} \ DeclaredAt(toks, n)
        strings == {n \in once : ConstString(toks, decl(n))}
        objects == {n \in once : /\ ConstObject(toks, pairs, decl(n))
                                 /\ \A u \in uses(n) : ObjectUse(toks, pairs, u)}
        body(i) == SubSeq(toks, i + 3, pairs[i + 2] - 1)
    IN  [strings |-> [n \in strings |-> toks[decl(n) + 2].v],
         objects |-> [n \in objects |-> body(decl(n))],
         spans |-> [n \in names |->
                     {body(i) : i \in {j \in DOMAIN toks : IsI(toks[j], n) /\ Opened(toks, pairs, j)}}]]

-----------------------------------------------------------------------------
(* Paths.                                                                  *)

Holes == {"{slug}", "{version}", "{token}", "{param}"}

Placeholder(name) ==
    CASE name \in {"addon", "slug", "addonSlug"} -> "{slug}"
      [] name \in {"version", "newVersion"} -> "{version}"
      [] name \in {"token"} -> "{token}"
      [] OTHER -> "{param}"

RECURSIVE LStrip(_)
LStrip(path) == IF path # <<>> /\ Head(path) = "/" THEN LStrip(Tail(path)) ELSE path
RStrip(path) == Reverse(LStrip(Reverse(path)))
Indices(path, atom) == {i \in DOMAIN path : path[i] = atom}

WithoutQuery(path) ==
    LET asked == Indices(path, "?") IN IF asked = {} THEN path ELSE SubSeq(path, 1, Min(asked) - 1)
PathSegments(path) == LET bare == RStrip(LStrip(path)) IN Pieces(bare, Indices(bare, "/"))

(* A hole is a segment of its own, and never the first.                    *)
WellFormed(segments) ==
    /\ \A n \in DOMAIN segments :
          /\ segments[n] # <<>>
          /\ ToSet(segments[n]) \cap Holes # {} => n > 1 /\ Len(segments[n]) = 1
Checked(segments) == IF WellFormed(segments) THEN Good(<<segments>>) ELSE Unresolved

Below(path) ==
    LET bare == LStrip(path)
    IN  IF bare # <<>> /\ Head(bare) \in Holes THEN Unresolved
        ELSE IF ~IsPrefix(<<"hassio", "/">>, path) THEN Good(<<>>)
        ELSE Good(<<SubSeq(path, 3, Len(path))>>)

(* A Supervisor path as its segments, none when it is not one.             *)
Normalise(written, require_hassio) ==
    LET path == IF require_hassio THEN Below(WithoutQuery(written)) ELSE Good(<<WithoutQuery(written)>>)
    IN  IF ~path.ok \/ path.val = <<>> THEN path ELSE Checked(PathSegments(path.val[1]))
=============================================================================
