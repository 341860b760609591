--------------------------- MODULE FrontendLexer ---------------------------
(***************************************************************************)
(* lex/3 of scripts/frontend_hassio_endpoints.py, over the characters its  *)
(* decisions turn on.  A slip here hides a bracket or a quote from all that*)
(* reads the tokens: what a string, a comment, a regex or a template hole  *)
(* encloses must not be read as syntax.                                    *)
(***************************************************************************)
EXTENDS Integers, Sequences, FiniteSets, SequencesExt

Tick == "tick"                 \* the backtick
Letters == {"a", "b"}
Digits == {"1"}
Blanks == {" ", "\n"}
WordChars == Letters \cup Digits \cup {"$"}
Puncts == {<<".", ".", ".">>, <<"=", "=", "=">>, <<"=", ">">>, <<"?", ".">>, <<"=", "=">>}
RegexAfter == {<<c>> : c \in {"(", ",", "=", ":", "[", "!", "&", "|", "?", "{", "}", ";",
                              "+", "-", "*", "%", "<", ">"}}
              \cup {<<"=", ">">>, <<"=", "=", "=">>, <<"=", "=">>}
RegexAfterWord == {<<"b">>}    \* stands for return, typeof, case...

Token(kind, value) == [k |-> kind, v |-> value, parts |-> <<>>]
Template(parts) == [k |-> "t", v |-> <<>>, parts |-> parts]

Slice(text, from, to) == SubSeq(text, from, to - 1)
StartsWith(text, pos, prefix) == IsPrefix(prefix, SubSeq(text, pos, Len(text)))

(* The first position from `pos` on that a predicate holds of, or the end. *)
First(text, pos, Test(_)) ==
    LET found == {p \in pos..Len(text) : Test(p)}
    IN  IF found = {} THEN Len(text) + 1 ELSE Min(found)

(* Positions a backslash makes literal, counting from an opening at `pos`. *)
RECURSIVE Escaped(_, _)
Escaped(text, pos) ==
    IF pos > Len(text) THEN {}
    ELSE IF text[pos] = "\\" THEN {pos + 1} \cup Escaped(text, pos + 2)
    ELSE Escaped(text, pos + 1)

Unescaped(text, from, to) ==
    LET kept == {p \in from..(to - 1) : text[p] # "\\" \/ p \in Escaped(text, from)}
        order == SetToSortSeq(kept, <)
    IN  [n \in DOMAIN order |-> text[order[n]]]

(* Broken: the first quote ends a string, escaped or not.                  *)
StringEndFirst(text, pos) == First(text, pos + 1, LAMBDA p : text[p] = text[pos])

StringEnd(text, pos) ==
    First(text, pos + 1, LAMBDA p : text[p] = text[pos] /\ p \notin Escaped(text, pos + 1))

(* A `/` inside a character class does not end the regex.                  *)
RECURSIVE RegexEnd(_, _, _)
RegexEnd(text, pos, in_class) ==
    CASE pos > Len(text) -> pos
      [] text[pos] = "\n" \/ (text[pos] = "/" /\ ~in_class) -> pos
      [] text[pos] = "\\" -> RegexEnd(text, pos + 2, in_class)
      [] OTHER -> RegexEnd(text, pos + 1, text[pos] = "[" \/ (in_class /\ text[pos] # "]"))

RegexAllowed(toks) ==
    \/ toks = <<>>
    \/ Last(toks).k = "p" /\ Last(toks).v \in RegexAfter
    \/ Last(toks).k = "i" /\ Last(toks).v \in RegexAfterWord

(* The longest operator at a position; `?.5` is a ternary on a number.     *)
PunctAt(text, pos) ==
    LET fits == {p \in Puncts : /\ StartsWith(text, pos, p)
                                /\ ~(/\ p = <<"?", ".">> /\ pos + 2 <= Len(text)
                                     /\ text[pos + 2] \in Digits)}
    IN  IF fits = {} THEN <<text[pos]>>
        ELSE CHOOSE p \in fits : \A o \in fits : Len(o) <= Len(p)

(* The tokens from a position up to the end, or up to the `}` that closes  *)
(* the template hole being read, with the position after them.             *)
RECURSIVE Lex(_, _, _, _), LexTemplate(_, _, _, _)
Lex(text, pos, toks, hole) ==
    LET c == text[pos]
        add(tok, next) == Lex(text, next, Append(toks, tok), hole)
        count(p) == Cardinality({i \in DOMAIN toks : toks[i].k = "p" /\ toks[i].v = <<p>>})
        run(from, chars) == First(text, from, LAMBDA p : text[p] \notin chars)
    IN  CASE pos > Len(text) -> [toks |-> toks, next |-> pos]
          [] pos <= Len(text) /\ c \in Blanks -> Lex(text, pos + 1, toks, hole)
          [] StartsWith(text, pos, <<"/", "/">>) ->
               Lex(text, First(text, pos, LAMBDA p : text[p] = "\n"), toks, hole)
          [] StartsWith(text, pos, <<"/", "*">>) ->
               LET end == First(text, pos + 2, LAMBDA p : StartsWith(text, p, <<"*", "/">>))
               IN  Lex(text, IF end > Len(text) THEN end ELSE end + 2, toks, hole)
          [] pos <= Len(text) /\ c \in {"\"", "'"} ->
               LET end == StringEnd(text, pos)
               IN  add(Token("s", Unescaped(text, pos + 1, end)), end + 1)
          [] pos <= Len(text) /\ c = Tick ->
               LET t == LexTemplate(text, pos + 1, <<>>, <<>>) IN add(Template(t.parts), t.next)
          [] /\ pos <= Len(text) /\ c = "/" /\ RegexAllowed(toks)
             /\ ~StartsWith(text, pos, <<"/", "/">>) /\ ~StartsWith(text, pos, <<"/", "*">>) ->
               LET end == run(RegexEnd(text, pos + 1, FALSE) + 1, Letters)
               IN  add(Token("r", Slice(text, pos, end)), end)
          [] pos <= Len(text) /\ c \in Letters \cup {"$"} ->
               LET end == run(pos, WordChars) IN add(Token("i", Slice(text, pos, end)), end)
          [] pos <= Len(text) /\ c \in Digits ->
               LET end == run(pos, Letters \cup Digits \cup {"."})
               IN  add(Token("n", Slice(text, pos, end)), end)
          [] OTHER ->
               IF hole /\ c = "}" /\ count("{") = count("}") THEN [toks |-> toks, next |-> pos + 1]
               ELSE LET p == PunctAt(text, pos) IN add(Token("p", p), pos + Len(p))

(* lex_template/2: parts, and the literal being read.                      *)
LexTemplate(text, pos, parts, buf) ==
    LET literal == [lit |-> buf, hole |-> <<>>]
    IN  CASE text[pos] = "\\" ->
               LexTemplate(text, pos + 2, parts, Append(buf, text[pos + 1]))
          [] text[pos] = Tick -> [parts |-> Append(parts, literal), next |-> pos + 1]
          [] StartsWith(text, pos, <<"$", "{">>) ->
               LET inner == Lex(text, pos + 2, <<>>, TRUE)
               IN  LexTemplate(text, inner.next,
                               parts \o <<literal, [lit |-> <<>>, hole |-> inner.toks]>>, <<>>)
          [] OTHER -> LexTemplate(text, pos + 1, parts, Append(buf, text[pos]))
=============================================================================
