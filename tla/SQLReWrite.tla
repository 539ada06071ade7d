----------------------------- MODULE SQLReWrite -----------------------------
(***************************************************************************)
(* The Render Pass of martlet-proxy: the SQLReWrite trait of               *)
(* handler/parser/sql/rewrite, which appends the SQL text of an AST node   *)
(* to a String, threading the render context ctx to every child.          *)
(*                                                                         *)
(* AST nodes are records whose "kind" names the Rust variant and whose     *)
(* other fields keep the Rust field names.  An absent Option is None.      *)
(* Each Rewrite operator returns the lexemes the Rust impl appends, in     *)
(* order (see SQLText).  Writing to a String never fails, so no write     *)
(* error is modelled.  query.rs and value.rs are declared by rewrite/mod.rs *)
(* but are not in the repository's source tree: Query, Value, OrderByExpr *)
(* and DateTimeField are modelled from the spec, as is the rewrite of      *)
(* ColumnDef, TableConstraint and AlterTableOperation (rewrite/ddl.rs).    *)
(***************************************************************************)
EXTENDS SQLText, TLC

CONSTANTS None,     \* the absent Option
          Names,    \* identifier values (model values)
          Ctx,      \* the render context: a function from names to names
          Inputs    \* the statements the external parser hands to the pass

(***************************************************************************)
(* Identifiers (rewrite/mod.rs).                                           *)
(***************************************************************************)
IdentQuotes == {"\"", Q, BQ, "["}

\* A panic! or an unwrap() of None: the lexeme marks where the thread
\* unwinds; what the sink holds then is never returned.
Panic == "panic"

\* opt.unwrap() followed by the text written from the unwrapped value.
Unwrapped(opt, text) == IF opt = None THEN <<Panic>> ELSE text

RewriteIdent_NoBareArm(id, ctx) ==
    CASE id.quote_style \in {"\"", Q, BQ} -> <<id.quote_style, id.value, id.quote_style>>
      [] id.quote_style = "["             -> <<"[", id.value, "]">>
      [] OTHER                            -> <<Panic>>

\* Ident::rewrite ignores ctx; a quote style outside IdentQuotes panics.
RewriteIdent(id, ctx) ==
    CASE id.quote_style \in {"\"", Q, BQ} -> <<id.quote_style, id.value, id.quote_style>>
      [] id.quote_style = "["             -> <<"[", id.value, "]">>
      [] id.quote_style = None            -> <<id.value>>
      [] OTHER                            -> <<Panic>>

RewriteIdents(ids, sep, ctx) ==
    DisplaySeparated([i \in DOMAIN ids |-> RewriteIdent(ids[i], ctx)], sep)

\* ObjectName::rewrite: the parts joined by ".".
RewriteObjectName(name, ctx) == RewriteIdents(name, <<".">>, ctx)

RewriteObjectNames(names, ctx) ==
    display_comma_separated([i \in DOMAIN names |-> RewriteObjectName(names[i], ctx)])

\* String::rewrite writes the string verbatim: a string is its characters.
RewriteString(s, ctx) == s

(***************************************************************************)
(* value.rs (spec-modelled): escape_single_quote_string doubles every      *)
(* single quote; a Value renders a number, NULL, a boolean or a quoted,    *)
(* escaped string.                                                         *)
(***************************************************************************)
EscapeSingleQuoteString(s) ==
    FlattenSeq([i \in DOMAIN s |-> IF s[i] = Q THEN <<Q, Q>> ELSE <<s[i]>>])

RewriteValue(v, ctx) ==
    CASE v.kind = "Number"             -> <<v.n>>
      [] v.kind = "SingleQuotedString" -> <<Q>> \o EscapeSingleQuoteString(v.s) \o <<Q>>
      [] v.kind = "Boolean"            -> <<IF v.b THEN "true" ELSE "false">>
      [] v.kind = "Null"               -> <<"NULL">>

(***************************************************************************)
(* data_type.rs                                                            *)
(***************************************************************************)
format_type_with_optional_length(sql_type, len) ==
    sql_type \o When(len # None, <<LP, len, RP>>)

\* The variants that write one fixed keyword.
TypeKeyword == [Uuid |-> "UUID", SmallInt |-> "SMALLINT", Int |-> "INT",
                BigInt |-> "BIGINT", Real |-> "REAL", Double |-> "DOUBLE",
                Boolean |-> "BOOLEAN", Date |-> "DATE", Time |-> "TIME",
                Timestamp |-> "TIMESTAMP", Interval |-> "INTERVAL",
                Regclass |-> "REGCLASS", Text |-> "TEXT", String |-> "STRING",
                Bytea |-> "BYTEA"]

\* Clob, Binary, Varbinary and Blob write their mandatory size.
SizedTypeKeyword == [Clob |-> "CLOB", Binary |-> "BINARY",
                     Varbinary |-> "VARBINARY", Blob |-> "BLOB"]

RECURSIVE RewriteDataType(_, _)
RewriteDataType(dt, ctx) ==
    CASE dt.kind \in DOMAIN TypeKeyword      -> <<TypeKeyword[dt.kind]>>
      [] dt.kind \in DOMAIN SizedTypeKeyword -> <<SizedTypeKeyword[dt.kind], LP, dt.size, RP>>
      [] dt.kind = "Char"    -> format_type_with_optional_length(<<"CHAR">>, dt.size)
      [] dt.kind = "Varchar" -> format_type_with_optional_length(<<"CHARACTER", SP, "VARYING">>, dt.size)
      [] dt.kind = "Float"   -> format_type_with_optional_length(<<"FLOAT">>, dt.size)
      [] dt.kind = "Decimal" /\ dt.scale # None ->
             Unwrapped(dt.precision, <<"NUMERIC", LP, dt.precision, ",", dt.scale, RP>>)
      [] dt.kind = "Decimal" -> format_type_with_optional_length(<<"NUMERIC">>, dt.precision)
      [] dt.kind = "Array"   -> RewriteDataType(dt.ty, ctx) \o <<"[", "]">>
      [] dt.kind = "Custom"  -> RewriteObjectName(dt.ty, ctx)

(***************************************************************************)
(* operator.rs                                                             *)
(***************************************************************************)
UnaryOperatorText ==
    [Plus |-> <<"+">>, Minus |-> <<"-">>, Not |-> <<"NOT">>,
     PGBitwiseNot |-> <<"~">>, PGSquareRoot |-> <<"|/">>, PGCubeRoot |-> <<"||/">>,
     PGPostfixFactorial |-> <<"!">>, PGPrefixFactorial |-> <<"!!">>, PGAbs |-> <<"@">>]

BinaryOperatorText ==
    [Plus |-> <<"+">>, Minus |-> <<"-">>, Multiply |-> <<"*">>, Divide |-> <<"/">>,
     Modulus |-> <<"%">>, StringConcat |-> <<"||">>, Gt |-> <<">">>, Lt |-> <<"<">>,
     GtEq |-> <<">=">>, LtEq |-> <<"<=">>, Spaceship |-> <<"<=>">>, Eq |-> <<"=">>,
     NotEq |-> <<"<>">>, And |-> <<"AND">>, Or |-> <<"OR">>, Like |-> <<"LIKE">>,
     NotLike |-> <<"NOT", SP, "LIKE">>, BitwiseOr |-> <<"|">>, BitwiseAnd |-> <<"&">>,
     BitwiseXor |-> <<"^">>, PGBitwiseXor |-> <<"#">>, PGBitwiseShiftLeft |-> <<"<<">>,
     PGBitwiseShiftRight |-> <<">>">>, ILike |-> <<"ILIKE">>,
     NotILike |-> <<"NOT", SP, "ILIKE">>]

RewriteUnaryOperator(op, ctx) == UnaryOperatorText[op]
RewriteBinaryOperator(op, ctx) == BinaryOperatorText[op]
(***************************************************************************)
(* Expressions (rewrite/mod.rs) and the spec-modelled query.rs nodes they  *)
(* contain.  Query is reduced to "SELECT <projection>", enough to nest an  *)
(* expression, and its identifiers, inside a subquery.                     *)
(***************************************************************************)
RECURSIVE RewriteExpr(_, _)

RewriteExprs(es, ctx) == [i \in DOMAIN es |-> RewriteExpr(es[i], ctx)]

RewriteQuery(q, ctx) == <<"SELECT", SP>> \o RewriteExpr(q.projection, ctx)

RewriteOrderByExpr(o, ctx) ==
    RewriteExpr(o.expr, ctx)
        \o (CASE o.asc = TRUE -> <<SP, "ASC">> [] o.asc = FALSE -> <<SP, "DESC">>
              [] o.asc = None -> <<>>)

RewriteOrderByExprs(os, ctx) ==
    display_comma_separated([i \in DOMAIN os |-> RewriteOrderByExpr(os[i], ctx)])

WindowFrameUnitsText == [Rows |-> "ROWS", Range |-> "RANGE", Groups |-> "GROUPS"]

\* Mutant: the UNBOUNDED arms are missing, so an absent offset is written.
RewriteWindowFrameBound_NoUnbounded(b, ctx) ==
    CASE b.kind = "CurrentRow" -> <<"CURRENT", SP, "ROW">>
      [] b.kind = "Preceding"  -> <<b.n, SP, "PRECEDING">>
      [] b.kind = "Following"  -> <<b.n, SP, "FOLLOWING">>

RewriteWindowFrameBound(b, ctx) ==
    CASE b.kind = "CurrentRow"                -> <<"CURRENT", SP, "ROW">>
      [] b.kind = "Preceding" /\ b.n = None -> <<"UNBOUNDED", SP, "PRECEDING">>
      [] b.kind = "Following" /\ b.n = None -> <<"UNBOUNDED", SP, "FOLLOWING">>
      [] b.kind = "Preceding"                 -> <<b.n, SP, "PRECEDING">>
      [] b.kind = "Following"                 -> <<b.n, SP, "FOLLOWING">>

\* WindowSpec::rewrite: delim becomes " " once a clause has been written.
RewriteWindowSpec(w, ctx) ==
    LET hasPart  == w.partition_by # <<>>
        hasOrder == w.order_by # <<>>
        wf       == w.window_frame
        frameHead == When(hasPart \/ hasOrder, <<SP>>) \o <<WindowFrameUnitsText[wf.units]>>
    IN  When(hasPart, <<"PARTITION", SP, "BY", SP>>
                          \o display_comma_separated(RewriteExprs(w.partition_by, ctx)))
        \o When(hasOrder, When(hasPart, <<SP>>) \o <<"ORDER", SP, "BY", SP>>
                              \o RewriteOrderByExprs(w.order_by, ctx))
        \o (IF wf = None THEN <<>>
            ELSE IF wf.end_bound # None
                 THEN frameHead \o <<SP, "BETWEEN", SP>> \o RewriteWindowFrameBound(wf.start_bound, ctx)
                        \o <<SP, "AND", SP>> \o RewriteWindowFrameBound(wf.end_bound, ctx)
                 ELSE frameHead \o <<SP>> \o RewriteWindowFrameBound(wf.start_bound, ctx))

RewriteFunctionArg(a, ctx) ==
    IF a.kind = "Named"
    THEN RewriteIdent(a.name, ctx) \o <<SP, "=>", SP>> \o RewriteExpr(a.arg, ctx)
    ELSE RewriteExpr(a.arg, ctx)

\* Mutant: the argument list of a call is left open.
RewriteFunction_Unclosed(fun, ctx) ==
    RewriteObjectName(fun.name, ctx) \o <<LP>> \o When(fun.distinct, <<"DISTINCT", SP>>)
        \o display_comma_separated([i \in DOMAIN fun.args |-> RewriteFunctionArg(fun.args[i], ctx)])
        \o When(fun.over # None, <<SP, "OVER", SP, LP>> \o RewriteWindowSpec(fun.over, ctx) \o <<RP>>)

RewriteFunction(fun, ctx) ==
    RewriteObjectName(fun.name, ctx) \o <<LP>> \o When(fun.distinct, <<"DISTINCT", SP>>)
        \o display_comma_separated([i \in DOMAIN fun.args |-> RewriteFunctionArg(fun.args[i], ctx)])
        \o <<RP>>
        \o When(fun.over # None, <<SP, "OVER", SP, LP>> \o RewriteWindowSpec(fun.over, ctx) \o <<RP>>)

RewriteListAggOnOverflow(o, ctx) ==
    <<SP, "ON", SP, "OVERFLOW">>
        \o IF o.kind = "Error" THEN <<SP, "ERROR">>
           ELSE <<SP, "TRUNCATE">>
                \o When(o.filler # None, <<SP>> \o RewriteExpr(o.filler, ctx))
                \o <<SP, IF o.with_count THEN "WITH" ELSE "WITHOUT", SP, "COUNT">>

RewriteListAgg(l, ctx) ==
    <<"LISTAGG", LP>> \o When(l.distinct, <<"DISTINCT", SP>>) \o RewriteExpr(l.expr, ctx)
        \o When(l.separator # None, CommaSep \o RewriteExpr(l.separator, ctx))
        \o When(l.on_overflow # None, RewriteListAggOnOverflow(l.on_overflow, ctx))
        \o <<RP>>
        \o When(l.within_group # <<>>, <<SP, "WITHIN", SP, "GROUP", SP, LP, "ORDER", SP, "BY", SP>>
                                        \o RewriteOrderByExprs(l.within_group, ctx) \o <<RP>>)

Negated(neg) == When(neg, <<"NOT", SP>>)

\* Expr::rewrite, one arm per variant; TryCast and ParameterMark write nothing.
RewriteExpr(e, ctx) ==
    CASE e.kind = "Identifier" -> RewriteIdent(e.ident, ctx)
      [] e.kind = "MapAccess" ->
             RewriteExpr(e.column, ctx) \o <<"[", "\"">> \o e.key \o <<"\"", "]">>
      [] e.kind = "Wildcard" -> <<"*">>
      [] e.kind = "QualifiedWildcard" -> RewriteIdents(e.q, <<".">>, ctx) \o <<".", "*">>
      [] e.kind = "CompoundIdentifier" -> RewriteIdents(e.s, <<".">>, ctx)
      [] e.kind = "IsNull" -> RewriteExpr(e.expr, ctx) \o <<SP, "IS", SP, "NULL">>
      [] e.kind = "IsNotNull" -> RewriteExpr(e.expr, ctx) \o <<SP, "IS", SP, "NOT", SP, "NULL">>
      [] e.kind = "InList" ->
             RewriteExpr(e.expr, ctx) \o <<SP>> \o Negated(e.negated) \o <<"IN", SP, LP>>
                 \o display_comma_separated(RewriteExprs(e.list, ctx)) \o <<RP>>
      [] e.kind = "InSubquery" ->
             RewriteExpr(e.expr, ctx) \o <<SP>> \o Negated(e.negated) \o <<"IN", SP, LP>>
                 \o RewriteQuery(e.subquery, ctx) \o <<RP>>
      [] e.kind = "Between" ->
             RewriteExpr(e.expr, ctx) \o <<SP>> \o Negated(e.negated) \o <<"BETWEEN", SP>>
                 \o RewriteExpr(e.low, ctx) \o <<SP, "AND", SP>> \o RewriteExpr(e.high, ctx)
      [] e.kind = "BinaryOp" ->
             RewriteExpr(e.left, ctx) \o <<SP>> \o RewriteBinaryOperator(e.op, ctx) \o <<SP>>
                 \o RewriteExpr(e.right, ctx)
      [] e.kind = "UnaryOp" /\ e.op = "PGPostfixFactorial" ->
             RewriteExpr(e.expr, ctx) \o RewriteUnaryOperator(e.op, ctx)
      [] e.kind = "UnaryOp" -> RewriteUnaryOperator(e.op, ctx) \o <<SP>> \o RewriteExpr(e.expr, ctx)
      [] e.kind = "Cast" ->
             <<"CAST", LP>> \o RewriteExpr(e.expr, ctx) \o <<SP, "AS", SP>>
                 \o RewriteDataType(e.data_type, ctx) \o <<RP>>
      [] e.kind = "Extract" ->
             <<"EXTRACT", LP, e.field, SP, "FROM", SP>> \o RewriteExpr(e.expr, ctx) \o <<RP>>
      [] e.kind = "Collate" ->
             RewriteExpr(e.expr, ctx) \o <<SP, "COLLATE", SP>> \o RewriteObjectName(e.collation, ctx)
      [] e.kind = "Nested" -> <<LP>> \o RewriteExpr(e.expr, ctx) \o <<RP>>
      [] e.kind = "Value" -> RewriteValue(e.value, ctx)
      [] e.kind = "TypedString" ->
             RewriteDataType(e.data_type, ctx) \o <<SP, Q>>
                 \o RewriteString(EscapeSingleQuoteString(e.value), ctx) \o <<Q>>
      [] e.kind = "Function" -> RewriteFunction(e.fun, ctx)
      [] e.kind = "Case" ->
             <<"CASE">> \o When(e.operand # None, <<SP>> \o RewriteExpr(e.operand, ctx))
                 \o FlattenSeq([i \in DOMAIN Zip(e.conditions, e.results) |->
                        <<SP, "WHEN", SP>> \o RewriteExpr(e.conditions[i], ctx)
                            \o <<SP, "THEN", SP>> \o RewriteExpr(e.results[i], ctx)])
                 \o When(e.else_result # None, <<SP, "ELSE", SP>> \o RewriteExpr(e.else_result, ctx))
                 \o <<SP, "END">>
      [] e.kind = "Exists" -> <<"EXISTS", SP, LP>> \o RewriteQuery(e.query, ctx) \o <<RP>>
      [] e.kind = "Subquery" -> <<LP>> \o RewriteQuery(e.query, ctx) \o <<RP>>
      [] e.kind = "ListAgg" -> RewriteListAgg(e.listagg, ctx)
      [] e.kind = "Substring" ->
             <<"SUBSTRING", LP>> \o RewriteExpr(e.expr, ctx)
                 \o When(e.substring_from # None, <<SP, "FROM", SP>> \o RewriteExpr(e.substring_from, ctx))
                 \o When(e.substring_for # None, <<SP, "FOR", SP>> \o RewriteExpr(e.substring_for, ctx))
                 \o <<RP>>
      [] e.kind \in {"TryCast", "ParameterMark"} -> <<>>
(***************************************************************************)
(* Small enums and leaf nodes written by rewrite/mod.rs.                   *)
(***************************************************************************)
AddDropSyncText == [SYNC |-> "SYNC", DROP |-> "DROP", ADD |-> "ADD"]

RewriteAddDropSync(a, ctx) == <<AddDropSyncText[a], SP, "PARTITIONS">>

\* FileFormat::rewrite: JSONFILE is written as TEXTFILE.
FileFormatText == [TEXTFILE |-> "TEXTFILE", SEQUENCEFILE |-> "SEQUENCEFILE",
                   ORC |-> "ORC", PARQUET |-> "PARQUET", AVRO |-> "AVRO",
                   RCFILE |-> "RCFILE", JSONFILE |-> "TEXTFILE"]

RewriteFileFormat(ff, ctx) == <<FileFormatText[ff]>>

ObjectTypeText == [Table |-> "TABLE", View |-> "VIEW", Index |-> "INDEX", Schema |-> "SCHEMA"]

RewriteSqlOption(o, ctx) == RewriteIdent(o.name, ctx) \o <<SP, "=", SP>> \o RewriteValue(o.value, ctx)

RewriteSqlOptions(os, ctx) == display_comma_separated([i \in DOMAIN os |-> RewriteSqlOption(os[i], ctx)])

TransactionAccessModeText == [ReadOnly |-> <<"READ", SP, "ONLY">>, ReadWrite |-> <<"READ", SP, "WRITE">>]

TransactionIsolationLevelText ==
    [ReadUncommitted |-> <<"READ", SP, "UNCOMMITTED">>, ReadCommitted |-> <<"READ", SP, "COMMITTED">>,
     RepeatableRead |-> <<"REPEATABLE", SP, "READ">>, Serializable |-> <<"SERIALIZABLE">>]

RewriteTransactionMode(m, ctx) ==
    IF m.kind = "AccessMode" THEN TransactionAccessModeText[m.mode]
    ELSE <<"ISOLATION", SP, "LEVEL", SP>> \o TransactionIsolationLevelText[m.level]

RewriteTransactionModes(ms, ctx) ==
    display_comma_separated([i \in DOMAIN ms |-> RewriteTransactionMode(ms[i], ctx)])

\* ShowStatementFilter::rewrite: the ILIKE filter writes nothing.
\* Mutant: the LIKE pattern is written without escaping.
RewriteShowStatementFilter_Unescaped(flt, ctx) ==
    CASE flt.kind = "Like"  -> <<"LIKE", SP, Q>> \o RewriteString(flt.pattern, ctx) \o <<Q>>
      [] flt.kind = "Where" -> <<"WHERE", SP>> \o RewriteExpr(flt.expr, ctx)
      [] flt.kind = "ILike" -> <<>>

RewriteShowStatementFilter(flt, ctx) ==
    CASE flt.kind = "Like"  -> <<"LIKE", SP, Q>> \o RewriteString(EscapeSingleQuoteString(flt.pattern), ctx) \o <<Q>>
      [] flt.kind = "Where" -> <<"WHERE", SP>> \o RewriteExpr(flt.expr, ctx)
      [] flt.kind = "ILike" -> <<>>

RewriteSetVariableValue(v, ctx) ==
    IF v.kind = "Ident" THEN RewriteIdent(v.ident, ctx) ELSE RewriteValue(v.literal, ctx)

SqliteOnConflictText == [Rollback |-> "ROLLBACK", Abort |-> "ABORT", Fail |-> "FAIL",
                         Ignore |-> "IGNORE", Replace |-> "REPLACE"]

RewriteAssignment(a, ctx) == RewriteIdent(a.id, ctx) \o <<SP, "=", SP>> \o RewriteExpr(a.value, ctx)

\* Word::rewrite and matching_end_quote: a Word accepts only ", [ and the
\* back-quote; any other quote style panics (no OTHER arm).
matching_end_quote(ch) == CASE ch = "\"" -> "\"" [] ch = "[" -> "]" [] ch = BQ -> BQ [] OTHER -> Panic

RewriteWord(w, ctx) ==
    CASE w.quote_style \in {"\"", "[", BQ} -> <<w.quote_style, w.value, matching_end_quote(w.quote_style)>>
      [] w.quote_style = None             -> <<w.value>>
      [] OTHER                            -> <<Panic>>

\* Token::rewrite: the tokens written as one fixed symbol or keyword.
TokenText == [EOF |-> "EOF", Comma |-> ",", DoubleEq |-> "==", Spaceship |-> "<=>",
              Eq |-> "=", Neq |-> "<>", Lt |-> "<", Gt |-> ">", LtEq |-> "<=", GtEq |-> ">=",
              Plus |-> "+", Minus |-> "-", Mult |-> "*", Div |-> "/", StringConcat |-> "||",
              Mod |-> "%", LParen |-> "(", RParen |-> ")", Period |-> ".", Colon |-> ":",
              DoubleColon |-> "::", SemiColon |-> ";", Backslash |-> "\\", LBracket |-> "[",
              RBracket |-> "]", Ampersand |-> "&", Caret |-> "^", Pipe |-> "|", LBrace |-> "{",
              RBrace |-> "}", RArrow |-> "=>", Sharp |-> "#", ExclamationMark |-> "!",
              DoubleExclamationMark |-> "!!", Tilde |-> "~", AtSign |-> "@",
              ShiftLeft |-> "<<", ShiftRight |-> ">>", PGSquareRoot |-> "|/", PGCubeRoot |-> "||/"]

WhitespaceText == [Space |-> <<SP>>, Newline |-> <<NL>>, Tab |-> <<TAB>>]

\* Whitespace::rewrite: a comment is written as its prefix and text, or
\* between /* and */, with nothing checked or escaped.
RewriteWhitespace(ws) ==
    CASE ws.kind \in DOMAIN WhitespaceText -> WhitespaceText[ws.kind]
      [] ws.kind = "SingleLineComment" -> ws.prefix \o ws.comment
      [] ws.kind = "MultiLineComment"  -> <<"/*">> \o ws.s \o <<"*/">>

\* Token::rewrite: quoted literals are written between quotes unescaped.
RewriteToken(tok, ctx) ==
    CASE tok.kind \in DOMAIN TokenText -> <<TokenText[tok.kind]>>
      [] tok.kind = "Word"   -> RewriteWord(tok.word, ctx)
      [] tok.kind = "Number" -> <<tok.n>> \o When(tok.long, <<"L">>)
      [] tok.kind = "Char"   -> <<tok.c>>
      [] tok.kind = "SingleQuotedString"    -> <<Q>> \o tok.s \o <<Q>>
      [] tok.kind = "NationalStringLiteral" -> <<"N", Q>> \o tok.s \o <<Q>>
      [] tok.kind = "HexStringLiteral"      -> <<"X", Q>> \o tok.s \o <<Q>>
      [] tok.kind = "Whitespace" -> RewriteWhitespace(tok.ws)
      [] tok.kind = "ParameterMark" -> <<>>

(***************************************************************************)
(* rewrite/ddl.rs (spec-modelled): a column definition is its name, type   *)
(* and options; a table constraint and an ALTER TABLE operation are the    *)
(* forms the analysis module traverses.                                    *)
(***************************************************************************)
RewriteColumnOption(o, ctx) ==
    CASE o.kind = "NotNull" -> <<"NOT", SP, "NULL">>
      [] o.kind = "Default" -> <<"DEFAULT", SP>> \o RewriteExpr(o.expr, ctx)
      [] o.kind = "DialectSpecific" ->
             DisplaySeparated([i \in DOMAIN o.tokens |-> RewriteToken(o.tokens[i], ctx)], <<SP>>)

RewriteColumnDef(c, ctx) ==
    RewriteIdent(c.name, ctx) \o <<SP>> \o RewriteDataType(c.data_type, ctx)
        \o FlattenSeq([i \in DOMAIN c.options |-> <<SP>> \o RewriteColumnOption(c.options[i], ctx)])

RewriteColumnDefs(cs, ctx) == display_comma_separated([i \in DOMAIN cs |-> RewriteColumnDef(cs[i], ctx)])

RewriteTableConstraint(tc, ctx) ==
    IF tc.kind = "Unique"
    THEN <<IF tc.is_primary THEN "PRIMARY" ELSE "UNIQUE">> \o When(tc.is_primary, <<SP, "KEY">>)
             \o <<SP, LP>> \o RewriteIdents(tc.columns, CommaSep, ctx) \o <<RP>>
    ELSE <<"CHECK", SP, LP>> \o RewriteExpr(tc.expr, ctx) \o <<RP>>

RewriteAlterTableOperation(op, ctx) ==
    IF op.kind = "RenameTable"
    THEN <<"RENAME", SP, "TO", SP>> \o RewriteObjectName(op.table_name, ctx)
    ELSE <<"ADD", SP, "COLUMN", SP>> \o RewriteColumnDef(op.column_def, ctx)
(***************************************************************************)
(* Statement::rewrite, one operator per match arm.                         *)
(***************************************************************************)
RECURSIVE RewriteStatement(_, _)

RewriteExplain(s, ctx) ==
    <<"EXPLAIN", SP>> \o When(s.analyze, <<"ANALYZE", SP>>) \o When(s.verbose, <<"VERBOSE", SP>>)
        \o RewriteStatement(s.statement, ctx)

\* No space is written between the header and the source query.
RewriteDirectory(s, ctx) ==
    <<"INSERT">> \o When(s.overwrite, <<SP, "OVERWRITE">>) \o When(s.local, <<SP, "LOCAL">>)
        \o <<SP, "DIRECTORY", SP, Q>> \o s.path \o <<Q>>
        \o When(s.file_format # None, <<SP, "STORED", SP, "AS", SP>> \o RewriteFileFormat(s.file_format, ctx))
        \o RewriteQuery(s.source, ctx)

RewriteMsck(s, ctx) ==
    <<"MSCK", SP>> \o When(s.repair, <<"REPAIR", SP>>) \o <<"TABLE", SP>>
        \o RewriteObjectName(s.table_name, ctx)
        \o When(s.partition_action # None, <<SP>> \o RewriteAddDropSync(s.partition_action, ctx))

\* Mutant: the !parts.is_empty() check inside if let Some(parts) is dropped.
PartitionClause_NoEmptyGuard(parts, ctx, lead, trail) ==
    When(parts # None,
         lead \o <<"PARTITION", SP, LP>> \o display_comma_separated(RewriteExprs(parts, ctx)) \o <<RP>> \o trail)

\* Some(parts) with parts empty writes no PARTITION clause, like None.
PartitionClause(parts, ctx, lead, trail) ==
    When(parts # None /\ parts # <<>>,
         lead \o <<"PARTITION", SP, LP>> \o display_comma_separated(RewriteExprs(parts, ctx)) \o <<RP>> \o trail)

RewriteTruncate(s, ctx) ==
    <<"TRUNCATE", SP, "TABLE", SP>> \o RewriteObjectName(s.table_name, ctx)
        \o PartitionClause(s.partitions, ctx, <<SP>>, <<>>)

RewriteAnalyze(s, ctx) ==
    <<"ANALYZE", SP, "TABLE", SP>> \o RewriteObjectName(s.table_name, ctx)
        \o PartitionClause(s.partitions, ctx, <<SP>>, <<>>)
        \o When(s.compute_statistics, <<SP, "COMPUTE", SP, "STATISTICS">>)
        \o When(s.noscan, <<SP, "NOSCAN">>)
        \o When(s.cache_metadata, <<SP, "CACHE", SP, "METADATA">>)
        \o When(s.for_columns, <<SP, "FOR", SP, "COLUMNS">>
                                   \o When(s.columns # <<>>, <<SP>> \o RewriteIdents(s.columns, CommaSep, ctx)))

RewriteInsert(s, ctx) ==
    (IF s.or # None
     THEN <<"INSERT", SP, "OR", SP, SqliteOnConflictText[s.or], SP, "INTO", SP>>
     ELSE <<"INSERT", SP, IF s.overwrite THEN "OVERWRITE" ELSE "INTO">> \o When(s.table, <<SP, "TABLE">>) \o <<SP>>)
        \o RewriteObjectName(s.table_name, ctx) \o <<SP>>
        \o When(s.columns # <<>>, <<LP>> \o RewriteIdents(s.columns, CommaSep, ctx) \o <<RP, SP>>)
        \o PartitionClause(s.partitioned, ctx, <<>>, <<SP>>)
        \o When(s.after_columns # <<>>, <<LP>> \o RewriteIdents(s.after_columns, CommaSep, ctx) \o <<RP, SP>>)
        \o RewriteQuery(s.source, ctx)

\* COPY ... FROM stdin; then the tab-separated row, NULL written as \N.
RewriteCopy(s, ctx) ==
    <<"COPY", SP>> \o RewriteObjectName(s.table_name, ctx)
        \o When(s.columns # <<>>, <<SP, LP>> \o RewriteIdents(s.columns, CommaSep, ctx) \o <<RP>>)
        \o <<SP, "FROM", SP, "stdin", ";", SP>>
        \o When(s.values # <<>>, <<NL>> \o DisplaySeparated(
               [i \in DOMAIN s.values |-> IF s.values[i] = None THEN <<"\\", "N">> ELSE s.values[i]], <<TAB>>))
        \o <<NL, "\\", ".">>

RewriteUpdate(s, ctx) ==
    <<"UPDATE", SP>> \o RewriteObjectName(s.table_name, ctx)
        \o When(s.assignments # <<>>, <<SP, "SET", SP>> \o display_comma_separated(
               [i \in DOMAIN s.assignments |-> RewriteAssignment(s.assignments[i], ctx)]))
        \o When(s.selection # None, <<SP, "WHERE", SP>> \o RewriteExpr(s.selection, ctx))
        \o When(s.limit # None, <<SP, "LIMIT", SP>> \o RewriteExpr(s.limit, ctx))

RewriteDelete(s, ctx) ==
    <<"DELETE", SP, "FROM", SP>> \o RewriteObjectName(s.table_name, ctx)
        \o When(s.selection # None, <<SP, "WHERE", SP>> \o RewriteExpr(s.selection, ctx))

\* The DATABASE keyword is never written.
RewriteCreateDatabase(s, ctx) ==
    <<"CREATE">> \o When(s.if_not_exists, <<SP, "IF", SP, "NOT", SP, "EXISTS">>) \o <<SP>>
        \o RewriteObjectName(s.db_name, ctx)
        \o When(s.location # None, <<SP, "LOCATION", SP, Q>> \o s.location \o <<Q>>)
        \o When(s.managed_location # None, <<SP, "MANAGEDLOCATION", SP, Q>> \o s.managed_location \o <<Q>>)

\* Mutant: a materialized view is written without VIEW.
RewriteCreateView_NoView(s, ctx) ==
    <<"CREATE", SP>> \o When(s.or_replace, <<"OR", SP, "REPLACE", SP>>)
        \o <<IF s.materialized THEN "MATERIALIZED" ELSE "VIEW", SP>>
        \o RewriteObjectName(s.name, ctx)
        \o When(s.with_options # <<>>, <<SP, "WITH", SP, LP>> \o RewriteSqlOptions(s.with_options, ctx) \o <<RP>>)
        \o When(s.columns # <<>>, <<SP, LP>> \o RewriteIdents(s.columns, CommaSep, ctx) \o <<RP>>)
        \o <<SP, "AS", SP>> \o RewriteQuery(s.query, ctx)

RewriteCreateView(s, ctx) ==
    <<"CREATE", SP>> \o When(s.or_replace, <<"OR", SP, "REPLACE", SP>>)
        \o When(s.materialized, <<"MATERIALIZED", SP>>) \o <<"VIEW", SP>>
        \o RewriteObjectName(s.name, ctx)
        \o When(s.with_options # <<>>, <<SP, "WITH", SP, LP>> \o RewriteSqlOptions(s.with_options, ctx) \o <<RP>>)
        \o When(s.columns # <<>>, <<SP, LP>> \o RewriteIdents(s.columns, CommaSep, ctx) \o <<RP>>)
        \o <<SP, "AS", SP>> \o RewriteQuery(s.query, ctx)
\* The Hive distribution clause; SKEWED writes "))" after its columns.
RewriteHiveDistribution(hd, ctx) ==
    CASE hd.kind = "PARTITIONED" ->
             <<SP, "PARTITIONED", SP, "BY", SP, LP>> \o RewriteColumnDefs(hd.columns, ctx) \o <<RP>>
      [] hd.kind = "CLUSTERED" ->
             <<SP, "CLUSTERED", SP, "BY", SP, LP>> \o RewriteIdents(hd.columns, CommaSep, ctx) \o <<RP>>
                 \o When(hd.sorted_by # <<>>, <<SP, "SORTED", SP, "BY", SP, LP>>
                                                  \o RewriteColumnDefs(hd.sorted_by, ctx) \o <<RP>>)
                 \o When(hd.num_buckets > 0, <<SP, "INTO", SP, ToString(hd.num_buckets), SP, "BUCKETS">>)
      [] hd.kind = "SKEWED" ->
             <<SP, "SKEWED", SP, "BY", SP, LP>> \o RewriteColumnDefs(hd.columns, ctx)
                 \o <<RP, RP, SP, "ON", SP, LP>> \o RewriteColumnDefs(hd.on, ctx) \o <<RP>>
                 \o When(hd.stored_as_directories, <<SP, "STORED", SP, "AS", SP, "DIRECTORIES">>)
      [] hd.kind = "NONE" -> <<>>

\* The Hive row format, storage and location; an external table writes its
\* file format and location later, from its own fields.
RewriteHiveFormat(hf, external, ctx) ==
    LET rf == hf.row_format
        st == hf.storage
    IN  (IF rf = None THEN <<>>
         ELSE IF rf.kind = "SERDE" THEN <<SP, "ROW", SP, "FORMAT", SP, "SERDE", SP, Q>> \o rf.class \o <<Q>>
         ELSE <<SP, "ROW", SP, "FORMAT", SP, "DELIMITED">>)
        \o (IF st = None THEN <<>>
            ELSE IF st.kind = "IOF"
                 THEN <<SP, "STORED", SP, "AS", SP, "INPUTFORMAT", SP>> \o RewriteExpr(st.input_format, ctx)
                        \o <<SP, "OUTPUTFORMAT", SP>> \o RewriteExpr(st.output_format, ctx)
            ELSE When(~external, <<SP, "STORED", SP, "AS", SP>> \o RewriteFileFormat(st.format, ctx)))
        \o When(~external /\ hf.location # None, <<SP, "LOCATION", SP, Q>> \o hf.location \o <<Q>>)

\* The columns and constraints, or "()" when there are none and no AS query.
TableElements(s, ctx) ==
    IF s.columns # <<>> \/ s.constraints # <<>>
    THEN <<SP, LP>> \o RewriteColumnDefs(s.columns, ctx)
             \o When(s.columns # <<>> /\ s.constraints # <<>>, CommaSep)
             \o display_comma_separated([i \in DOMAIN s.constraints |->
                                             RewriteTableConstraint(s.constraints[i], ctx)])
             \o <<RP>>
    ELSE When(s.query = None, <<SP, LP, RP>>)

\* Mutant: the WITH options are written ahead of TBLPROPERTIES.
TableOptions_Swapped(s, ctx) ==
    When(s.with_options # <<>>, <<SP, "WITH", SP, LP>> \o RewriteSqlOptions(s.with_options, ctx) \o <<RP>>)
        \o When(s.table_properties # <<>>, <<SP, "TBLPROPERTIES", SP, LP>>
                                              \o RewriteSqlOptions(s.table_properties, ctx) \o <<RP>>)

\* TBLPROPERTIES (...) then WITH (...), each only when non-empty.
TableOptions(s, ctx) ==
    When(s.table_properties # <<>>, <<SP, "TBLPROPERTIES", SP, LP>>
                                       \o RewriteSqlOptions(s.table_properties, ctx) \o <<RP>>)
        \o When(s.with_options # <<>>, <<SP, "WITH", SP, LP>> \o RewriteSqlOptions(s.with_options, ctx) \o <<RP>>)

\* An external table unwraps file_format and location.
RewriteCreateTable(s, ctx) ==
    <<"CREATE", SP>> \o When(s.or_replace, <<"OR", SP, "REPLACE", SP>>)
        \o When(s.external, <<"EXTERNAL", SP>>) \o <<"TABLE", SP>>
        \o When(s.if_not_exists, <<"IF", SP, "NOT", SP, "EXISTS", SP>>)
        \o RewriteObjectName(s.name, ctx)
        \o TableElements(s, ctx)
        \o When(s.without_rowid, <<SP, "WITHOUT", SP, "ROWID">>)
        \o When(s.like # None, <<SP, "LIKE", SP>> \o RewriteObjectName(s.like, ctx))
        \o RewriteHiveDistribution(s.hive_distribution, ctx)
        \o When(s.hive_formats # None, RewriteHiveFormat(s.hive_formats, s.external, ctx))
        \o When(s.external, <<SP, "STORED", SP, "AS", SP>>
                                \o Unwrapped(s.file_format, RewriteFileFormat(s.file_format, ctx)
                                    \o <<SP, "LOCATION", SP, Q>>
                                    \o Unwrapped(s.location, RewriteString(s.location, ctx) \o <<Q>>)))
        \o TableOptions(s, ctx)
        \o When(s.query # None, <<SP, "AS", SP>> \o RewriteQuery(s.query, ctx))

IfNotExists(b) == When(b, <<"IF", SP, "NOT", SP, "EXISTS", SP>>)

RewriteCreateVirtualTable(s, ctx) ==
    <<"CREATE", SP, "VIRTUAL", SP, "TABLE", SP>> \o IfNotExists(s.if_not_exists)
        \o RewriteObjectName(s.name, ctx) \o <<SP, "USING", SP>> \o RewriteIdent(s.module_name, ctx)
        \o When(s.module_args # <<>>, <<SP, LP>> \o RewriteIdents(s.module_args, CommaSep, ctx) \o <<RP>>)

RewriteCreateIndex(s, ctx) ==
    <<"CREATE", SP>> \o When(s.unique, <<"UNIQUE", SP>>) \o <<"INDEX", SP>> \o IfNotExists(s.if_not_exists)
        \o RewriteObjectName(s.name, ctx) \o <<SP, "ON", SP>> \o RewriteObjectName(s.table_name, ctx)
        \o <<LP>> \o DisplaySeparated([i \in DOMAIN s.columns |-> RewriteOrderByExpr(s.columns[i], ctx)], <<",">>)
        \o <<RP>>

RewriteAlterTable(s, ctx) ==
    <<"ALTER", SP, "TABLE", SP>> \o RewriteObjectName(s.name, ctx) \o <<SP>>
        \o RewriteAlterTableOperation(s.operation, ctx)

\* Mutant: no space between the object type and the names.
RewriteDrop_NoSpace(s, ctx) ==
    <<"DROP", SP, ObjectTypeText[s.object_type]>> \o When(s.if_exists, <<SP, "IF", SP, "EXISTS">>)
        \o RewriteObjectNames(s.names, ctx)
        \o When(s.cascade, <<SP, "CASCADE">>) \o When(s.purge, <<SP, "PURGE">>)

RewriteDrop(s, ctx) ==
    <<"DROP", SP, ObjectTypeText[s.object_type]>> \o When(s.if_exists, <<SP, "IF", SP, "EXISTS">>) \o <<SP>>
        \o RewriteObjectNames(s.names, ctx)
        \o When(s.cascade, <<SP, "CASCADE">>) \o When(s.purge, <<SP, "PURGE">>)

RewriteSetVariable(s, ctx) ==
    <<"SET", SP>> \o When(s.local, <<"LOCAL", SP>>) \o When(s.hivevar, <<"HIVEVAR", ":">>)
        \o RewriteIdent(s.variable, ctx) \o <<SP, "=", SP>>
        \o display_comma_separated([i \in DOMAIN s.value |-> RewriteSetVariableValue(s.value[i], ctx)])

\* "SHOW " and then " " before the variable words.
RewriteShowVariable(s, ctx) ==
    <<"SHOW", SP>> \o When(s.variable # <<>>, <<SP>> \o RewriteIdents(s.variable, <<SP>>, ctx))

\* Mutant: EXTENDED written as FULL, a copy of the line below.
RewriteShowColumns_FullForExtended(s, ctx) ==
    <<"SHOW", SP>> \o When(s.extended, <<"FULL", SP>>) \o When(s.full, <<"FULL", SP>>)
        \o <<"COLUMNS", SP, "FROM", SP>> \o RewriteObjectName(s.table_name, ctx)
        \o When(s.filter # None, <<SP>> \o RewriteShowStatementFilter(s.filter, ctx))

RewriteShowColumns(s, ctx) ==
    <<"SHOW", SP>> \o When(s.extended, <<"EXTENDED", SP>>) \o When(s.full, <<"FULL", SP>>)
        \o <<"COLUMNS", SP, "FROM", SP>> \o RewriteObjectName(s.table_name, ctx)
        \o When(s.filter # None, <<SP>> \o RewriteShowStatementFilter(s.filter, ctx))

RewriteStartTransaction(s, ctx) ==
    <<"START", SP, "TRANSACTION">> \o When(s.modes # <<>>, <<SP>> \o RewriteTransactionModes(s.modes, ctx))

RewriteSetTransaction(s, ctx) ==
    <<"SET">> \o When(s.session, <<SP, "SESSION">>) \o <<SP, "TRANSACTION">>
        \o When(s.modes # <<>>, <<SP>> \o RewriteTransactionModes(s.modes, ctx))

\* Mutant: " AND CHAIN " with a trailing space.
AndChain_Trailing(chain) == When(chain, <<SP, "AND", SP, "CHAIN", SP>>)

AndChain(chain) == When(chain, <<SP, "AND", SP, "CHAIN">>)

RewriteRollback(s, ctx) ==
    IF s.savepoint # None
    THEN <<"ROLLBACK", SP, "TO", SP, "SAVEPOINT", SP>> \o RewriteIdent(s.savepoint, ctx)
    ELSE <<"ROLLBACK">> \o AndChain(s.chain)

RewriteAssert(s, ctx) ==
    <<"ASSERT", SP>> \o RewriteExpr(s.condition, ctx)
        \o When(s.message # None, <<SP, "AS", SP>> \o RewriteExpr(s.message, ctx))

\* The parameter list is closed with "()".
RewriteExecute(s, ctx) ==
    <<"EXECUTE", SP>> \o RewriteIdent(s.name, ctx)
        \o When(s.parameters # <<>>, <<LP>> \o display_comma_separated(RewriteExprs(s.parameters, ctx)) \o <<LP, RP>>)

RewritePrepare(s, ctx) ==
    <<"PREPARE", SP>> \o RewriteIdent(s.name, ctx) \o <<SP>>
        \o When(s.data_types # <<>>, <<LP>> \o display_comma_separated(
               [i \in DOMAIN s.data_types |-> RewriteDataType(s.data_types[i], ctx)]) \o <<RP, SP>>)
        \o <<"AS", SP>> \o RewriteStatement(s.statement, ctx)

RewriteStatement(s, ctx) ==
    CASE s.kind = "Explain"            -> RewriteExplain(s, ctx)
      [] s.kind = "Query"              -> RewriteQuery(s.query, ctx)
      [] s.kind = "Directory"          -> RewriteDirectory(s, ctx)
      [] s.kind = "Msck"               -> RewriteMsck(s, ctx)
      [] s.kind = "Truncate"           -> RewriteTruncate(s, ctx)
      [] s.kind = "Analyze"            -> RewriteAnalyze(s, ctx)
      [] s.kind = "Insert"             -> RewriteInsert(s, ctx)
      [] s.kind = "Copy"               -> RewriteCopy(s, ctx)
      [] s.kind = "Update"             -> RewriteUpdate(s, ctx)
      [] s.kind = "Delete"             -> RewriteDelete(s, ctx)
      [] s.kind = "CreateDatabase"     -> RewriteCreateDatabase(s, ctx)
      [] s.kind = "CreateView"         -> RewriteCreateView(s, ctx)
      [] s.kind = "CreateTable"        -> RewriteCreateTable(s, ctx)
      [] s.kind = "CreateVirtualTable" -> RewriteCreateVirtualTable(s, ctx)
      [] s.kind = "CreateIndex"        -> RewriteCreateIndex(s, ctx)
      [] s.kind = "AlterTable"         -> RewriteAlterTable(s, ctx)
      [] s.kind = "Drop"               -> RewriteDrop(s, ctx)
      [] s.kind = "SetVariable"        -> RewriteSetVariable(s, ctx)
      [] s.kind = "ShowVariable"       -> RewriteShowVariable(s, ctx)
      [] s.kind = "UseDatabase"        -> <<"USE", SP>> \o RewriteIdent(s.variable, ctx)
      [] s.kind = "ShowColumns"        -> RewriteShowColumns(s, ctx)
      [] s.kind = "StartTransaction"   -> RewriteStartTransaction(s, ctx)
      [] s.kind = "SetTransaction"     -> RewriteSetTransaction(s, ctx)
      [] s.kind = "SetNames"           -> <<"SET", SP, "NAMES", SP>> \o RewriteIdent(s.variable, ctx)
      [] s.kind = "Commit"             -> <<"COMMIT">> \o AndChain(s.chain)
      [] s.kind = "Savepoint"          -> <<"SAVEPOINT", SP>> \o RewriteIdent(s.variable, ctx)
      [] s.kind = "Rollback"           -> RewriteRollback(s, ctx)
      [] s.kind = "Release"            -> <<"RELEASE", SP, "SAVEPOINT", SP>> \o RewriteIdent(s.variable, ctx)
      [] s.kind = "CreateSchema"       ->
             <<"CREATE", SP, "SCHEMA", SP>> \o IfNotExists(s.if_not_exists) \o RewriteObjectName(s.schema_name, ctx)
      [] s.kind = "Assert"             -> RewriteAssert(s, ctx)
      [] s.kind = "Deallocate"         ->
             <<"DEALLOCATE", SP>> \o When(s.prepare, <<"PREPARE", SP>>) \o RewriteIdent(s.name, ctx)
      [] s.kind = "Execute"            -> RewriteExecute(s, ctx)
      [] s.kind = "Prepare"            -> RewritePrepare(s, ctx)
-----------------------------------------------------------------------------
(***************************************************************************)
(* One Render Pass: the proxy hands a parsed statement and the context to *)
(* Statement::rewrite with an empty String and gets the text back.         *)
(***************************************************************************)
VARIABLES stmt,     \* the statement being rendered
          out,      \* the String sink once rewrite returned, None before
          panicked  \* the call panicked instead of returning

vars == <<stmt, out, panicked>>

Init == stmt \in Inputs /\ out = None /\ panicked = FALSE

\* The whole call: it returns the text, or a panic unwinds it and the
\* caller never sees the sink.
Rewrite ==
    /\ out = None /\ ~panicked
    /\ LET text == RewriteStatement(stmt, Ctx)
       IN  IF Panic \in Range(text)
           THEN panicked' = TRUE /\ UNCHANGED out
           ELSE out' = text /\ UNCHANGED panicked
    /\ UNCHANGED stmt

Next == Rewrite

Spec == Init /\ [][Next]_vars

-----------------------------------------------------------------------------
(***************************************************************************)
(* Re-parsing, to the depth of the statement kind: the keywords a SQL      *)
(* parser dispatches on, as in the round-trip requirement of the spec.    *)
(***************************************************************************)
CreateModifiers == {"OR", "REPLACE", "EXTERNAL", "TEMPORARY", "MATERIALIZED", "UNIQUE"}
CreateObjectKind == [TABLE |-> "CreateTable", VIRTUAL |-> "CreateVirtualTable",
                     VIEW |-> "CreateView", INDEX |-> "CreateIndex",
                     SCHEMA |-> "CreateSchema", DATABASE |-> "CreateDatabase"]
LeadingKind == [EXPLAIN |-> "Explain", SELECT |-> "Query", MSCK |-> "Msck",
                TRUNCATE |-> "Truncate", ANALYZE |-> "Analyze", COPY |-> "Copy",
                UPDATE |-> "Update", DELETE |-> "Delete", ALTER |-> "AlterTable",
                DROP |-> "Drop", START |-> "StartTransaction",
                COMMIT |-> "Commit", SAVEPOINT |-> "Savepoint", ROLLBACK |-> "Rollback",
                RELEASE |-> "Release", ASSERT |-> "Assert", DEALLOCATE |-> "Deallocate",
                EXECUTE |-> "Execute", PREPARE |-> "Prepare"] @@ ("USE" :> "UseDatabase")

ParsedKind(toks) ==
    LET nonsp == SelectSeq(toks, LAMBDA tk : tk.t # "sp")
        w     == [i \in DOMAIN nonsp |-> nonsp[i].v]
        n     == Len(w)
        obj   == {i \in 2..n : w[i] \notin CreateModifiers}
    IN  CASE n = 0 -> "unparsable"
          [] w[1] \in DOMAIN LeadingKind -> LeadingKind[w[1]]
          [] w[1] = "INSERT" -> IF \E i \in 2..Min({n, 4}) : w[i] = "DIRECTORY" THEN "Directory" ELSE "Insert"
          [] w[1] = "SET" /\ n > 1 /\ w[2] = "NAMES" -> "SetNames"
          [] w[1] = "SET" /\ n > 1 /\ w[2] \in {"SESSION", "TRANSACTION"} -> "SetTransaction"
          [] w[1] = "SET" -> "SetVariable"
          [] w[1] = "SHOW" /\ n > 1 /\ w[2] \in {"EXTENDED", "FULL", "COLUMNS"} -> "ShowColumns"
          [] w[1] = "SHOW" -> "ShowVariable"
          [] w[1] = "CREATE" /\ obj # {} /\ w[Min(obj)] \in DOMAIN CreateObjectKind ->
                 CreateObjectKind[w[Min(obj)]]
          [] OTHER -> "unparsable"

Text == Tokens(StatementText(out))

\* The boolean fields a statement states with a keyword ahead of its first
\* name: CREATE OR REPLACE TEMPORARY TABLE IF NOT EXISTS t, DROP TABLE IF
\* EXISTS t, SHOW FULL COLUMNS FROM t, INSERT OVERWRITE TABLE t, ...
FlagWord == [or_replace |-> "REPLACE", external |-> "EXTERNAL", temporary |-> "TEMPORARY",
             materialized |-> "MATERIALIZED", unique |-> "UNIQUE", if_not_exists |-> "EXISTS",
             if_exists |-> "EXISTS", repair |-> "REPAIR", overwrite |-> "OVERWRITE",
             table |-> "TABLE", local |-> "LOCAL", hivevar |-> "HIVEVAR", session |-> "SESSION",
             extended |-> "EXTENDED", full |-> "FULL", analyze |-> "ANALYZE",
             verbose |-> "VERBOSE", prepare |-> "PREPARE", chain |-> "CHAIN"]

FlagFields(s) == DOMAIN FlagWord \cap DOMAIN s

StatedFlags(s) == {FlagWord[f] : f \in {g \in FlagFields(s) : s[g] = TRUE}}

\* The words a parser reads before the first identifier.
HeaderWords(toks) ==
    LET nonsp == SelectSeq(toks, LAMBDA tk : tk.t # "sp")
        names == {i \in DOMAIN nonsp : nonsp[i].v \in Names}
        last  == IF names = {} THEN Len(nonsp) ELSE Min(names) - 1
    IN  {nonsp[i].v : i \in {j \in 1..last : nonsp[j].t = "w"}}

(***************************************************************************)
(* Properties.                                                             *)
(***************************************************************************)
TypeOK ==
    /\ stmt \in Inputs
    /\ out = None \/ out \in Seq(STRING \cup Names)
    /\ panicked \in BOOLEAN

\* Every "(" and "[" the statement writes is closed, in order (the spec:
\* the Render Pass produces syntactically valid SQL for every node).
DelimitersBalanced ==
    out # None => IsBalanced(Text, "(", ")") /\ IsBalanced(Text, "[", "]")

\* Every quoted text the statement writes (a string literal, a quoted
\* identifier, a map key) is closed: text that carries its own quote
\* character is escaped, as escape_single_quote_string does for literals.
LiteralsTerminated == out # None => IsTerminated(Text)

\* Two keywords, names or numbers are never written back to back without a
\* separator, which would make them one word to the parser.
WordsSeparated == out # None => ~HasFusedWords(Text)

\* Single spacing: no doubled, leading or trailing space (the test
\* test_rewrite compares rendered text with the input text).
SingleSpaced == out # None => IsSingleSpaced(Text)

\* The one empty pair the spec asks for: CREATE TABLE t () when the table
\* has no columns, no constraints and no AS query (PostgreSQL style).
EmptyTable(s) ==
    s.kind = "CreateTable" /\ s.columns = <<>> /\ s.constraints = <<>> /\ s.query = None

\* An optional clause is written only when it is present: no "()" is
\* written for an absent or empty clause (PARTITION, column lists, WITH,
\* TBLPROPERTIES, ...), and CREATE TABLE writes its "()" exactly when it
\* has neither elements nor a query (spec 4.1).  A call's empty argument
\* list is not a clause.
NoEmptyDelimiters ==
    out # None =>
        Cardinality({i \in EmptyPairs(Text) : ~IsCallParens(Text, i)}) = IF EmptyTable(stmt) THEN 1 ELSE 0

\* The clauses of CREATE TABLE after the elements, by the rank of the
\* fixed order the spec gives them and the parser reads them in.
ClauseRank == [WITHOUT |-> 1, LIKE |-> 2, PARTITIONED |-> 3, CLUSTERED |-> 3, SKEWED |-> 3,
               ROW |-> 4, STORED |-> 5, LOCATION |-> 6, TBLPROPERTIES |-> 7, AS |-> 9] @@ ("WITH" :> 8)

\* The ranks of the clause keywords outside parentheses, in text order
\* (the AS of STORED AS belongs to its clause).
ClauseRanks(toks) ==
    LET w   == SelectSeq(toks, LAMBDA tk : tk.t # "sp")
        top == {i \in DOMAIN w : /\ w[i].t = "w" /\ w[i].v \in DOMAIN ClauseRank
                                 /\ Count(w, i, LP) = Count(w, i, RP)
                                 /\ ~(w[i].v = "AS" /\ i > 1 /\ w[i - 1].v = "STORED")}
    IN  [k \in 1..Cardinality(top) |-> ClauseRank[w[CHOOSE i \in top : Cardinality({j \in top : j < i}) = k - 1].v]]

\* CREATE TABLE writes its optional clauses in the spec's fixed order
\* (spec 4.1): WITHOUT ROWID, LIKE, distribution, row format, storage,
\* location, TBLPROPERTIES, WITH, AS query; another order does not
\* re-parse.
ClauseOrder ==
    out # None /\ stmt.kind = "CreateTable" =>
        LET r == ClauseRanks(Text) IN \A i \in 1..(Len(r) - 1) : r[i] <= r[i + 1]

\* The render is total on what the parser produces (spec 4.1, 6): no
\* panic! of Ident/Word quoting and no unwrap() of a DECIMAL precision or
\* of an external table's file format or location is reached.
RenderTotal == ~panicked

\* Re-parsing the rendered text starts the same kind of statement.
ReparsesAsSameKind == out # None => ParsedKind(Text) = stmt.kind

\* Re-parsing the header restores every boolean modifier of the statement:
\* the keyword of a flag is written exactly when the flag is set (spec 8:
\* re-parsing the rendered text yields an AST equal to the original).
FlagsRoundTrip ==
    out # None =>
        HeaderWords(Text) \cap {FlagWord[f] : f \in FlagFields(stmt)} = StatedFlags(stmt)

\* The file formats a statement names in STORED AS: Hive keywords spelled
\* as the FileFormat variant.
StoredFormats(s) ==
    CASE s.kind = "CreateTable" /\ s.hive_formats # None /\ s.hive_formats.storage # None
             /\ s.hive_formats.storage.kind = "FileFormat" -> {s.hive_formats.storage.format}
      [] s.kind = "Directory" /\ s.file_format # None -> {s.file_format}
      [] OTHER -> {}

Words(toks) == {toks[i].v : i \in {j \in DOMAIN toks : toks[j].t = "w"}}

\* A STORED AS clause re-parses to the file format of the statement
\* (FileFormat::rewrite; spec 8, re-parsing yields an equal AST).
StoredFormatsKept == out # None => StoredFormats(stmt) \subseteq Words(Text)

\* The render context reaches identifier leaves: a name the context maps
\* is never written unsubstituted (spec 3, 8 "Context reach").
ContextApplied == out # None => \A i \in DOMAIN out : out[i] \notin DOMAIN Ctx
=============================================================================
