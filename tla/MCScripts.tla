----------------------------- MODULE MCScripts -----------------------------
(***************************************************************************)
(* The contract scripts on small sources: the frontend's extractor on the  *)
(* programs of MCFrontend, its lexer on spellings, and Core's surface on   *)
(* the integrations of MCSurface.  A behaviour runs one of the three,      *)
(* `script`.                                                               *)
(***************************************************************************)
EXTENDS MCFrontend, MCSurface

VARIABLES script, spelt, lexed

L == INSTANCE FrontendLexer

lexVars == <<spelt, lexed>>
vars == <<script, feVars, lexVars, csVars>>

-----------------------------------------------------------------------------
(* Spellings: pieces of source text with the tokens a reader sees in them. *)

LI(name) == L!Token("i", <<name>>)
LP(chars) == L!Token("p", chars)
Lits(atoms) == [lit |-> atoms, hole |-> <<>>]
LHole(toks) == [lit |-> <<>>, hole |-> toks]

(* starts, ends: how the piece meets its neighbours; `after`: whether an   *)
(* operand has just ended, so that a slash divides.                        *)
Piece(chars, toks, starts, ends, after) ==
    [chars |-> chars, toks |-> toks, starts |-> starts, ends |-> ends, after |-> after]
Tick == L!Tick
Brace == <<LP(<<"{">>), L!Token("s", <<"}">>), LP(<<"}">>)>>      \* {'}'}
Braced == <<"{", "'", "}", "'", "}">>

Written == {
    Piece(<<"a">>, <<LI("a")>>, "word", "word", "operand"),
    Piece(<<"b">>, <<LI("b")>>, "word", "word", "operator"),
    Piece(<<"1", ".", "1">>, <<L!Token("n", <<"1", ".", "1">>)>>, "word", "word", "operand"),
    Piece(<<"\"", "{", "\\", "\"", "'", "\"">>, <<L!Token("s", <<"{", "\"", "'">>)>>,
          "closed", "closed", "operand"),
    Piece(<<"'", "/", "/", "'">>, <<L!Token("s", <<"/", "/">>)>>, "closed", "closed", "operand"),
    Piece(<<Tick, "}", "$", "{">> \o Braced \o <<"}", Tick>>,
          <<L!Template(<<Lits(<<"}">>), LHole(Brace), Lits(<<>>)>>)>>, "closed", "closed", "operand"),
    Piece(<<Tick, "$", "{", Tick, "{", Tick, "}", Tick>>,
          <<L!Template(<<Lits(<<>>), LHole(<<L!Template(<<Lits(<<"{">>)>>)>>), Lits(<<>>)>>)>>,
          "closed", "closed", "operand"),
    Piece(<<Tick, "\\", Tick, "$", Tick>>, <<L!Template(<<Lits(<<Tick, "$">>)>>)>>,
          "closed", "closed", "operand"),
    Piece(<<"(">>, <<LP(<<"(">>)>>, "closed", "closed", "operator"),
    Piece(<<")">>, <<LP(<<")">>)>>, "closed", "closed", "operand"),
    Piece(<<"=", ">">>, <<LP(<<"=", ">">>)>>, "punct", "punct", "operator"),
    Piece(<<"?", ".">>, <<LP(<<"?", ".">>)>>, "punct", "dot", "none"),
    Piece(<<"?", ".", "1">>, <<LP(<<"?">>), LP(<<".">>), L!Token("n", <<"1">>)>>,
          "punct", "word", "operand"),
    Piece(<<".", ".", ".">>, <<LP(<<".", ".", ".">>)>>, "punct", "dot", "none") }
    \cup { Piece(Braced, Brace, "closed", "closed", "operator") }
Regex == Piece(<<"/", "\"", "[", "/", "]", "\\", "/", "{", "/", "a">>,
               <<L!Token("r", <<"/", "\"", "[", "/", "]", "\\", "/", "{", "/", "a">>)>>,
               "punct", "word", "operand")
Divide == Piece(<<"/">>, <<LP(<<"/">>)>>, "punct", "punct", "none")

Gaps == {<<>>, <<" ">>, <<" ", "/", "/", "\"", "\n">>, <<" ", "/", "*", "'", "{", "*", "/">>}

(* Which piece may follow another, and through which gap.                  *)
Follows(p, q, gap) ==
    /\ q = Regex => p.after = "operator"
    /\ q = Divide => p.after = "operand"
    /\ gap = <<>> => /\ p.ends # "closed" => q.starts # p.ends
                     /\ p.ends = "dot" => q.starts = "closed"
                     /\ p.ends = "word" /\ q.starts = "word" => FALSE
                     /\ ~(p.ends = "word" /\ q.chars[1] = ".")

Spelling(seq, gap) ==
    [chars |-> FlattenSeq([n \in DOMAIN seq |-> seq[n].chars \o (IF n < Len(seq) THEN gap ELSE <<>>)]),
     toks |-> FlattenSeq([n \in DOMAIN seq |-> seq[n].toks])]

LexInit ==
    \E p, q, r \in Written \cup {Regex, Divide}, gap \in Gaps :
        /\ p # Divide /\ p # Regex
        /\ Follows(p, q, gap) /\ Follows(q, r, gap)
        /\ spelt = Spelling(<<p, q, r>>, gap) /\ lexed = <<>>

Lexing ==
    /\ lexed = <<>> /\ lexed' = L!Lex(spelt.chars, 1, <<>>, FALSE).toks
    /\ UNCHANGED spelt

(* The lexer sees the tokens that were written: no quote, bracket or hash  *)
(* of a comment, a string, a regex or a template leaks into them, and a    *)
(* slash divides or opens a regex as its place demands.                    *)
LexerReadsWhatWasWritten == script = "lexer" /\ lexed # <<>> => lexed = spelt.toks

-----------------------------------------------------------------------------

NoFrontend == FeInit(<<>>)
NoSpelling == spelt = [chars |-> <<>>, toks |-> <<>>] /\ lexed = <<>>
NoSurface == CsInit(<<>>)

Init ==
    \/ script = "frontend" /\ FrontendInit /\ NoSpelling /\ NoSurface
    \/ script = "lexer" /\ LexInit /\ NoFrontend /\ NoSurface
    \/ script = "surface" /\ SurfaceInit /\ NoFrontend /\ NoSpelling

Next ==
    /\ UNCHANGED script
    /\ \/ script = "frontend" /\ FeNext /\ UNCHANGED <<lexVars, csVars>>
       \/ script = "lexer" /\ Lexing /\ UNCHANGED <<feVars, csVars>>
       \/ script = "surface" /\ CsNext /\ UNCHANGED <<feVars, lexVars>>

Spec == Init /\ [][Next]_vars
=============================================================================
