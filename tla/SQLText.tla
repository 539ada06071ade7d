------------------------------ MODULE SQLText ------------------------------
(***************************************************************************)
(* The output sink of the Render Pass and the lexical view used to judge   *)
(* it.  The Rust code appends &str fragments to a String; here the sink is *)
(* a sequence of lexemes: a keyword or symbol (a TLA+ string), an integer, *)
(* an identifier value (a model value), or one of the layout lexemes SP,   *)
(* NL, TAB.  A fragment such as " PARTITION (" is the sequence            *)
(* <<SP, "PARTITION", SP, "(">>, so concatenating fragments is \o.         *)
(*                                                                         *)
(* Tokens(text) is a small SQL lexer over that sequence: it groups a text *)
(* between single quotes, double quotes or back-quotes (a doubled quote    *)
(* standing for one) into one token and classifies the rest as words,     *)
(* symbols and spaces.  The properties of the Render Pass are stated over *)
(* these tokens.                                                           *)
(***************************************************************************)
EXTENDS Integers, Sequences, SequencesExt, FiniteSets

SP  == " "
NL  == "\n"
TAB == "\t"
Q   == "'"
DQ  == "\""
BQ  == "backquote"   \* the character back-quote is not lexable inside a TLA+ string
LP  == "("
RP  == ")"

\* Symbols the renderer emits; every other non-layout lexeme is a word.
Symbols == {"(", ")", "[", "]", ",", ".", "=", "*", ";", "\\",
            "+", "-", "/", "%", "||", ">", "<", ">=", "<=", "<=>", "<>",
            "|", "&", "^", "#", "<<", ">>", "~", "|/", "||/", "!", "!!",
            "@", "=>", "==", ":", "::", "{", "}"}
Layout == {SP, NL, TAB}

\* if cond { text } else { "" }, the shape of most optional keywords.
When(cond, text) == IF cond THEN text ELSE <<>>

(***************************************************************************)
(* DisplaySeparated::rewrite: delim starts empty and becomes sep after *)
(* the first item, so a separator is written before every item but the     *)
(* first.  items are the already rendered children, in order.            *)
(***************************************************************************)
DisplaySeparated(items, sep) ==
    FlattenSeq([i \in DOMAIN items |-> When(i > 1, sep) \o items[i]])

CommaSep == <<",", SP>>

display_comma_separated(items) == DisplaySeparated(items, CommaSep)

(***************************************************************************)
(* Lexer.  A token is [t |-> kind, v |-> value]: kind "w" (word), "p"      *)
(* (symbol), "sp" (layout), "str" (a closed quoted text, v its content and *)
(* q its quote) or "open" (a quoted text still open at the end).           *)
(***************************************************************************)
Quotes == {Q, DQ, BQ}

Kind(l) == IF l \in Layout THEN "sp" ELSE IF l \in Symbols THEN "p" ELSE "w"

\* The first position at or after i whose lexeme is in S, or Len(text) + 1.
NextIn(text, i, S) ==
    LET ks == {k \in i..Len(text) : text[k] \in S}
    IN  IF ks = {} THEN Len(text) + 1 ELSE Min(ks)

\* Lex takes the run of unquoted lexemes up to the next quote in one step,
\* and LexQuoted jumps to the next occurrence of its quote.
RECURSIVE Lex(_, _), LexQuoted(_, _, _, _)
Lex(text, i) ==
    LET j == NextIn(text, i, Quotes)
    IN  [k \in 1..(j - i) |-> [t |-> Kind(text[i + k - 1]), v |-> text[i + k - 1]]]
        \o (IF j > Len(text) THEN <<>> ELSE LexQuoted(text, text[j], j + 1, <<>>))

LexQuoted(text, q, i, acc) ==
    LET k == NextIn(text, i, {q})
    IN  CASE k > Len(text) -> <<[t |-> "open", v |-> acc \o SubSeq(text, i, Len(text)), q |-> q]>>
          [] k < Len(text) /\ text[k + 1] = q -> LexQuoted(text, q, k + 2, acc \o SubSeq(text, i, k))
          [] OTHER -> <<[t |-> "str", v |-> acc \o SubSeq(text, i, k - 1), q |-> q]>> \o Lex(text, k + 1)

Tokens(text) == Lex(text, 1)

\* The SQL part of a rendered statement: COPY ends its SQL at "stdin;" and
\* appends a tab-separated data block that is not SQL.
StatementText(text) ==
    LET semis == {i \in DOMAIN text : text[i] = ";"}
    IN  IF semis = {} THEN text ELSE SubSeq(text, 1, Min(semis))

Count(toks, k, sym) == Cardinality({i \in 1..k : toks[i].t = "p" /\ toks[i].v = sym})

\* Every prefix closes no more than it opened, and the whole closes all.
IsBalanced(toks, open, close) ==
    /\ \A k \in 1..Len(toks) : Count(toks, k, close) <= Count(toks, k, open)
    /\ Count(toks, Len(toks), close) = Count(toks, Len(toks), open)

IsTerminated(toks) == \A i \in DOMAIN toks : toks[i].t # "open"

\* Two words with nothing between them lex as one word when re-parsed.
HasFusedWords(toks) == \E i \in 1..(Len(toks) - 1) : toks[i].t = "w" /\ toks[i + 1].t = "w"

\* The positions of "(" directly followed by ")".
EmptyPairs(toks) ==
    {i \in 1..(Len(toks) - 1) : toks[i] = [t |-> "p", v |-> LP] /\ toks[i + 1] = [t |-> "p", v |-> RP]}

\* An empty argument list of a call (the pair follows the callee's name),
\* or an empty window: OVER ().
IsCallParens(toks, i) ==
    \/ i > 1 /\ toks[i - 1].t \in {"w", "str"}
    \/ i > 2 /\ toks[i - 2] = [t |-> "w", v |-> "OVER"]

IsSingleSpaced(toks) ==
    /\ \A i \in 1..(Len(toks) - 1) : ~(toks[i].t = "sp" /\ toks[i + 1].t = "sp")
    /\ Len(toks) > 0 => toks[1].t # "sp" /\ toks[Len(toks)].t # "sp"
=============================================================================
