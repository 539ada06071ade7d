# TLA+ models of the martlet SQL passes

This directory holds TLA+ models of the SQL handling in
`src/martlet-proxy/src/handler/parser/sql`, with the TLC configurations that
check them. `PROJECT.json` records the following:

- the components;
- the runs;
- the mutants that show each checked property can fail;
- the map from every TLA+ definition to the Rust lines it translates;
- the findings;
- the hazards.

## The system

The proxy parses a client's SQL with `sqlparser` and runs two passes over the AST.

* **Render Pass** (`rewrite/mod.rs`, `rewrite/data_type.rs`, `rewrite/operator.rs`).
  The trait `SQLReWrite` has `rewrite(&self, f: &mut String, ctx)`. Each AST type
  writes its SQL text into the shared `String` sink. It writes fixed keywords with
  `write!` and recurses into its children. The lists go through `DisplaySeparated`,
  which writes a separator between items. `ctx` is a map from names to names that
  the spec says renames identifiers. The pass is synchronous and single-threaded.
  Its only state change is appending to the sink, and it ends by returning `Ok(())`.
  The arms for `TryCast`, `ParameterMark` and `ILike` are empty placeholders.
* **Analysis Pass** (`analyse/ddl.rs`). The trait `SQLAnalyse` has
  `analyse(&self, ctx: &mut SQLStatementContext)`. Each DDL node calls
  `child.analyse(ctx)?` on its children in SQL order. The leaf impls (identifiers,
  object names, expressions, data types, tokens) are in `analyse/mod.rs`, which is
  not in the source tree. They record facts in the context, and a leaf may fail.
  `?` makes the pass fail fast: the first `Err` unwinds every caller.
* **Service layer** (`martlet-common/src/service`, `martlet-node/src/service`). It
  holds async trait declarations and a constructor. There is no logic in it.

The two passes do not interact inside the tree. The caller runs each one on a
parsed statement.

## Modules

| Module | Models | State | Actions |
|---|---|---|---|
| `SQLText` | What the sink holds. A lexeme sequence is the `String`: strings, model-value names, and `SP`/`NL`/`TAB`/`Q`. It includes `DisplaySeparated` and a small SQL lexer (`Tokens`, `RECURSIVE Lex`/`LexQuoted`). The lexer groups text between single quotes, double quotes or backquotes into one token, with a doubled quote standing for one. It takes each run of unquoted lexemes in one step, so its recursion depth is the number of quoted texts. The module also holds the predicates over the tokens. | none | none |
| `SQLReWrite` | Every `SQLReWrite` impl of `rewrite/*.rs`: one operator per impl and one per `Statement` match arm. A `panic!` or an `unwrap()` of `None` writes the lexeme `Panic`. These are the quote-style panics of `Ident` and `Word`, the DECIMAL precision, and an external table's file format and location. `rewrite/ddl.rs`, `query.rs` and `value.rs` are missing, so their small subset is modelled from the spec and marked `spec_modelled`. | `stmt` is the parsed statement. `out` is the sink once `rewrite` returned (`None` before). `panicked` is set when the call panicked instead. | `Rewrite`: `Statement::rewrite(stmt, ctx)`, the whole call. It returns the text, or panics when the text holds `Panic`. |
| `MCSQLReWrite` | The inputs: every statement kind with its flags and optional clauses. There are two names `n1`, `n2`, every quote style, every `Expr` arm, window frames, functions, `LISTAGG`, every data type and operator, and every hive distribution, row format and storage. The filters are the parser's invariants, for example an external table always has a location and its STORED AS clause. `Shapes` switches on the inputs that exhibit a defect, one per violation run. | | |
| `SQLAnalyseAbstract` | The Analysis Pass as the spec (§4.2, §7, §8) promises it. The accumulator is handed the node's facts in SQL text order, may reject one, and then nothing more is visited. Otherwise the call returns Ok after the last fact. | `root`, `visited`, `status` | `Visit`, `Fail`, `Finish` |
| `SQLAnalyse` | The `SQLAnalyse` impls of `ddl.rs`, run as the Rust call stack runs them. A frame is `[node, pc]`, where `pc` is the next child call. Leaf calls are the accumulator (spec-modelled). | `root`, `stack`, `facts` (what the accumulator recorded), `err` (an `Err` is unwinding) | `Call` (`child.analyse(ctx)`), `Record`/`Reject` (a leaf succeeds or fails), `Return` (the final `Ok(())`), `Propagate` (the `?`) |
| `MCSQLAnalyse` | Every variant of `AlterTableOperation`, `TableConstraint` and `ColumnOption` (foreign keys with and without referential actions), and column definitions with 0–2 options. `Named` switches on `CONSTRAINT <name>`. | | |

`SQLAnalyse` is shown to implement `SQLAnalyseAbstract` with
`INSTANCE SQLAnalyseAbstract WITH visited <- facts, status <- ...`, checked as the
property `AbstractSpec`.

## Runs

There are two passing runs:

* **`render_syntax`** (`MCSQLReWrite.cfg`). It checks ten properties:
  - `TypeOK`;
  - `DelimitersBalanced`: parentheses and brackets balance outside literals;
  - `LiteralsTerminated`: every quoted text (a literal, a quoted identifier or a map key) is closed;
  - `WordsSeparated`: no two words are fused, since the lexer would read them as one;
  - `SingleSpaced`: no double, leading or trailing space, as the round-trip test expects;
  - `ReparsesAsSameKind`: the leading keywords reparse as the same statement kind;
  - `FlagsRoundTrip`: every boolean flag of the statement (OR REPLACE, EXTERNAL, UNIQUE, IF EXISTS, FULL, EXTENDED…) is in the header exactly when it is set;
  - `NoEmptyDelimiters` (spec §4.1): no `()` pair is written for an absent or empty clause. The exceptions are a call's empty argument list, `OVER ()`, and the one `()` that CREATE TABLE writes exactly when it has no elements and no AS query;
  - `ClauseOrder` (spec §4.1): the clauses of CREATE TABLE after its elements appear in the fixed order the parser reads;
  - `RenderTotal` (spec §4.1, §6): no `panic!` or `unwrap()` is reached on a statement the parser produces.

  The run covers about 1,625 inputs. Together they cover every statement kind and expression arm, plus CREATE TABLE with its trailing clauses combined.
* **`analyse_ddl`** (`MCSQLAnalyse.cfg`). It checks `TypeOK` and the refinement
  `AbstractSpec`. Facts reach the accumulator in SQL text order. After a failure no
  later sibling is visited, and every enclosing frame unwinds. The abstract pass's
  fairness makes the call finish. The accumulator may fail at any fact, so every
  position of a failure is explored.

Violation runs. Each checks one property that the spec, a comment or a test
states, and TLC finds it broken by what the code does (see `findings` in
`PROJECT.json`):

| Run | Property | What the code does |
|---|---|---|
| `render_parens` | `DelimitersBalanced` | Writes `")) ON ("` in SKEWED BY (mod.rs:719) and `"()"` to close EXECUTE parameters (mod.rs:1010). Each shape alone breaks the property; TLC reports the first one it finds. |
| `render_directory` | `WordsSeparated` | Writes no space before the source query after `STORED AS fmt` (mod.rs:426). |
| `render_showvar` | `SingleSpaced` | `SHOW ` is followed by `" "` and then the list (mod.rs:912-915), which gives two spaces. |
| `render_location` | `LiteralsTerminated` | Writes LOCATION, SERDE, DIRECTORY and MANAGEDLOCATION strings without `escape_single_quote_string`. It also writes a map key as `["key"]` unescaped (mod.rs:109), so a key holding `"` ends the quoted key early. Each of the shapes `quoted_location` and `map_key` alone breaks the property. |
| `render_createdb` | `ReparsesAsSameKind` | Writes `CREATE d` with no DATABASE keyword (mod.rs:593). |
| `render_temporary` | `FlagsRoundTrip` | Never writes `temporary` (destructured at mod.rs:635). It also writes `AND CHAIN` only when a ROLLBACK has no savepoint (mod.rs:965-970), so `ROLLBACK AND CHAIN TO SAVEPOINT s` loses it. Each of the shapes `temporary` and `rollback_chain` alone breaks the property. |
| `render_external` | `RenderTotal` | An external table stored with INPUTFORMAT/OUTPUTFORMAT has no FileFormat, so `file_format` is `None`. The code writes the IOF clause (mod.rs:748-760) and then unwraps `file_format` (779) and panics. Spec §4.1 asks only for STORED AS and LOCATION, and says such an AST renders. |
| `render_jsonfile` | `StoredFormatsKept` | Writes `JSONFILE` as `TEXTFILE` (mod.rs:1093). |
| `render_context` | `ContextApplied` | No impl reads `ctx`, so a mapped name is written unmapped. |
| `analyse_named` | `AbstractSpec` | `display_constraint_name(Some(n)).analyse` does nothing (ddl.rs:294), so a constraint name is never analysed. |

## Mutants

Every property of a passing run has a mutant in `PROJECT.json`. A mutant is an
operator defined just before the definition it replaces, and it mimics a plausible
slip in that code:

- a dropped `UNBOUNDED` arm;
- a missing `)`;
- an unescaped LIKE pattern;
- `MATERIALIZED` for `VIEW`;
- a missing space;
- `FULL` written for `EXTENDED`;
- a trailing space after `AND CHAIN`;
- dropped `if let` guards;
- a dropped `?`;
- the `!parts.is_empty()` check of a PARTITION clause dropped;
- WITH written ahead of TBLPROPERTIES;
- the `None` arm of `Ident::rewrite` missing, so a bare name falls into the panic.

TLC finds each property violated under its mutant.

## Bounds

* **Render.**
  - Two names suffice: it takes two to tell a renamed name from an unrenamed one and to show a separator.
  - Lists have 0, 1 and 2 items. Zero and one show the `is_empty` guards, and two show a separator.
  - Literals hold either no quote or one quote. That is what escaping turns on.
  - Each optional clause is on or off independently within its statement family.
  - CREATE TABLE also has inputs that combine LIKE, a CLUSTERED distribution, a full row format and storage, TBLPROPERTIES, WITH and an AS query, for plain and external tables. These reach every junction between clauses.
  - Each defect shape is off in `render_syntax`, so that run shows everything else is right.
* **Analysis.**
  - Nodes nest up to four levels deep: an ALTER TABLE operation, a column definition, an option definition, and an option with referential actions.
  - `MaxPc = 5` bounds `pc`. The widest nodes have four children: a column with two options (name, type and the two options) and a foreign key constraint. So `pc` runs from 1 to 5, one past the last child, when `Return` fires.
  - Every child position can fail, so every unwinding depth is reached.

## Fairness

`SQLAnalyse` and `SQLAnalyseAbstract` assume `WF_vars(Next)`. `analyse` is an
ordinary synchronous recursive call with no waiting, locking or I/O. Once called,
it keeps taking steps until it returns. The refinement carries the abstract
pass's fairness, so `AbstractSpec` also requires the detailed pass to reach the
abstract `Finish` or `Fail`. The Render Pass needs no fairness because
it checks only invariants, and its one step is the whole call. Both passes stop
once they return, so the configs say `CHECK_DEADLOCK FALSE`.

## Not modelled

* **The service layer.** It consists of async trait declarations and `new_service`, so there is no state or logic to check.
* **Files absent from the tree.** These are `rewrite/ddl.rs`, `rewrite/query.rs`, `rewrite/value.rs` and `analyse/mod.rs`. Only the small subset the modelled code calls into is modelled, from the spec.
* **Expression internals under analysis.** An `Expr` is one leaf of the Analysis Pass, because its impl is in the missing `analyse/mod.rs`.
* **Inputs the parser never produces.** The panics and `unwrap`s at mod.rs:76, 779/784, 1330, 1342 and data_type.rs:49 are modelled. `RenderTotal` shows they are unreachable from the inputs the spec says the parser produces. The inputs that would reach them are left out of the universe:
  - a DECIMAL scale without a precision;
  - a quote style other than the four;
  - an external table with no location. The spec makes LOCATION mandatory for an external table and trusts the parser to ensure it.

  An external table stored with INPUTFORMAT/OUTPUTFORMAT does satisfy the spec. It is the input of `render_external`.

  Unequal `CASE` condition and result lists are left out too. `Zip` truncates them as `zip` does (mod.rs:246). The parser reads each `WHEN` condition together with its `THEN` result, so the two lists always have the same length. That makes the truncation no hazard for this code.
* **Comments and whitespace tokens.** `Whitespace::rewrite` is modelled, comments included. The parser skips whitespace, so no AST input holds one.
* **Everything else.** The map covers every line of the implementation except license headers, `use`/`mod` declarations, the `SQLReWrite` trait and `DisplaySeparated` type declarations, doc comments and the `#[cfg(test)]` module. Both passes are pure, synchronous and single-threaded, with no persisted state, messages, timeouts or retries. So there is no fault model or concurrency to add inside this code. The concurrency the spec describes (one pipeline per connection) lives in the protocol layer, which is not in the tree.
* **The placeholder arms.** `TryCast`, `ParameterMark` and `ILike` write nothing, as the spec documents. They are in the model behind the shape `placeholders` but are not exercised by a run.
