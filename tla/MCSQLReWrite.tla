---------------------------- MODULE MCSQLReWrite ----------------------------
(***************************************************************************)
(* Bounded inputs for SQLReWrite.  Every statement is one the external     *)
(* parser can produce: the parser's invariants (a DECIMAL scale comes with *)
(* a precision, CASE conditions and results have equal length, INSERT OR   *)
(* carries no OVERWRITE/TABLE flag, an external table has a location and  *)
(* the format of its STORED AS clause, ...) hold of them.                  *)
(*                                                                         *)
(* Shapes switches on the inputs that exhibit a known defect, one per      *)
(* violation run, so that the passing runs check every other input:        *)
(*   "skewed"           CREATE TABLE ... SKEWED BY                         *)
(*   "execute_params"   EXECUTE with parameters                            *)
(*   "directory_format" INSERT DIRECTORY ... STORED AS                     *)
(*   "show_variable"    SHOW <variable>                                    *)
(*   "quoted_location"  a LOCATION/path literal containing a quote         *)
(*   "map_key"          a map key containing a double quote                *)
(*   "create_database"  CREATE DATABASE                                    *)
(*   "temporary"        CREATE TEMPORARY TABLE                             *)
(*   "rollback_chain"   ROLLBACK AND CHAIN TO SAVEPOINT                    *)
(*   "external_iof"     CREATE EXTERNAL TABLE ... STORED AS INPUTFORMAT    *)
(*   "jsonfile"         STORED AS JSONFILE                                 *)
(*   "placeholders"     TryCast, ParameterMark and the ILIKE filter        *)
(***************************************************************************)
EXTENDS SQLReWrite

CONSTANTS n1, n2, Shapes

On(shape, set) == IF shape \in Shapes THEN set ELSE {}

Id(v, q) == [value |-> v, quote_style |-> q]
A == Id(n1, None)
B == Id(n2, BQ)
QuotedIdents == {Id(n1, q) : q \in IdentQuotes \cup {None}}

X   == <<"x">>              \* a string without a quote
XQX == <<"x", Q, "x">>      \* a string with an embedded quote
XDX == <<"x", DQ, "x">>     \* a string with an embedded double quote

Num    == [kind |-> "Number", n |-> "1"]
Str(s) == [kind |-> "SingleQuotedString", s |-> s]

EA == [kind |-> "Identifier", ident |-> A]
E1 == [kind |-> "Value", value |-> Num]
ES == [kind |-> "Value", value |-> Str(XQX)]
Q1 == [projection |-> EA]
Q2 == [projection |-> [kind |-> "Subquery", query |-> Q1]]   \* a nested subquery
OB == [expr |-> EA, asc |-> FALSE]
Int1 == [kind |-> "Int"]

DataTypes ==
    {[kind |-> k] : k \in DOMAIN TypeKeyword}
    \cup {[kind |-> k, size |-> "10"] : k \in DOMAIN SizedTypeKeyword}
    \cup {[kind |-> k, size |-> sz] : k \in {"Char", "Varchar", "Float"}, sz \in {None, "10"}}
    \cup {[kind |-> "Decimal", precision |-> p[1], scale |-> p[2]] :
             p \in {<<None, None>>, <<"10", None>>, <<"10", "2">>}}
    \cup {[kind |-> "Array", ty |-> Int1], [kind |-> "Custom", ty |-> <<A>>]}

Bounds == {[kind |-> "CurrentRow"], [kind |-> "Preceding", n |-> None], [kind |-> "Following", n |-> "5"]}
Frames == {None}
    \cup {[units |-> "Rows", start_bound |-> sb, end_bound |-> eb] : sb \in Bounds, eb \in {None, [kind |-> "CurrentRow"]}}
    \cup {[units |-> u, start_bound |-> [kind |-> "Preceding", n |-> "5"], end_bound |-> None] : u \in {"Range", "Groups"}}
Windows == [partition_by : {<<>>, <<EA>>}, order_by : {<<>>, <<OB>>}, window_frame : Frames]

Unnamed(e) == [kind |-> "Unnamed", arg |-> e]
Functions == [name : {<<A>>}, distinct : BOOLEAN,
              args : {<<>>, <<Unnamed(EA)>>, <<[kind |-> "Named", name |-> B, arg |-> E1], Unnamed(EA)>>},
              over : {None} \cup Windows]

Overflows == {None, [kind |-> "Error"], [kind |-> "Truncate", filler |-> ES, with_count |-> TRUE],
              [kind |-> "Truncate", filler |-> None, with_count |-> FALSE]}
ListAggs == [distinct : BOOLEAN, expr : {EA}, separator : {None, ES}, on_overflow : Overflows,
             within_group : {<<>>, <<OB>>}]

Leaves == {EA, E1, ES, [kind |-> "Value", value |-> [kind |-> "Null"]],
           [kind |-> "Value", value |-> [kind |-> "Boolean", b |-> TRUE]]}
          \cup {[kind |-> "Identifier", ident |-> i] : i \in QuotedIdents}

Exprs == Leaves
    \cup {[kind |-> "MapAccess", column |-> EA, key |-> k] : k \in {X, XQX} \cup On("map_key", {XDX})}
    \cup {[kind |-> "Wildcard"],
          [kind |-> "CompoundIdentifier", s |-> <<A, B>>],
          [kind |-> "IsNull", expr |-> EA], [kind |-> "IsNotNull", expr |-> EA],
          [kind |-> "Extract", field |-> "YEAR", expr |-> EA],
          [kind |-> "Collate", expr |-> EA, collation |-> <<A>>],
          [kind |-> "Exists", query |-> Q1], [kind |-> "Subquery", query |-> Q2]}
    \cup {[kind |-> "QualifiedWildcard", q |-> q] : q \in {<<A>>, <<A, B>>}}
    \cup [kind : {"InList"}, expr : {EA}, list : {<<E1>>, <<E1, ES>>}, negated : BOOLEAN]
    \cup [kind : {"InSubquery"}, expr : {EA}, subquery : {Q1}, negated : BOOLEAN]
    \cup [kind : {"Between"}, expr : {EA}, negated : BOOLEAN, low : {E1}, high : {ES}]
    \cup [kind : {"BinaryOp"}, left : {EA}, op : DOMAIN BinaryOperatorText, right : {E1}]
    \cup [kind : {"UnaryOp"}, op : DOMAIN UnaryOperatorText, expr : {E1}]
    \cup [kind : {"Cast"}, expr : {EA}, data_type : DataTypes]
    \cup [kind : {"Nested"}, expr : {EA, [kind |-> "BinaryOp", left |-> EA, op |-> "And", right |-> E1]}]
    \cup [kind : {"TypedString"}, data_type : {[kind |-> "Date"]}, value : {X, XQX}]
    \cup [kind : {"Function"}, fun : Functions]
    \cup {[kind |-> "Case", operand |-> o, conditions |-> cr, results |-> cr, else_result |-> el] :
             o \in {None, EA}, cr \in {<<E1>>, <<E1, ES>>}, el \in {None, ES}}
    \cup [kind : {"ListAgg"}, listagg : ListAggs]
    \cup [kind : {"Substring"}, expr : {EA}, substring_from : {None, E1}, substring_for : {None, E1}]
    \cup On("placeholders", {[kind |-> "TryCast"], [kind |-> "ParameterMark"]})
Opt == [name |-> A, value |-> Num]
Asg(i) == [id |-> i, value |-> E1]
Cond == [kind |-> "BinaryOp", left |-> EA, op |-> "Eq", right |-> E1]
CD(opts) == [name |-> A, data_type |-> Int1, options |-> opts]
ColumnOptionSeqs == {<<>>, <<[kind |-> "NotNull"]>>,
                     <<[kind |-> "Default", expr |-> ES],
                       [kind |-> "DialectSpecific",
                        tokens |-> <<[kind |-> "Word", word |-> [value |-> "AUTOINCREMENT", quote_style |-> None]]>>]>>}
ColumnDefs == {CD(o) : o \in ColumnOptionSeqs}
UQ == [kind |-> "Unique", is_primary |-> TRUE, columns |-> <<A, B>>]
CK == [kind |-> "Check", expr |-> Cond]
SelectStmt == [kind |-> "Query", query |-> Q1]
CommitStmt == [kind |-> "Commit", chain |-> FALSE]
Locations == {X} \cup On("quoted_location", {XQX})

\* CREATE TABLE: a base record varied one clause family at a time.
BaseTable == [kind |-> "CreateTable", or_replace |-> FALSE, external |-> FALSE,
              if_not_exists |-> FALSE, temporary |-> FALSE, name |-> <<A>>,
              columns |-> <<CD(<<>>)>>, constraints |-> <<>>,
              hive_distribution |-> [kind |-> "NONE"],
              hive_formats |-> [row_format |-> None, storage |-> None, location |-> None],
              table_properties |-> <<>>, with_options |-> <<>>, file_format |-> None,
              location |-> None, query |-> None, without_rowid |-> FALSE, like |-> None]
HiveDistributions ==
    {[kind |-> "NONE"], [kind |-> "PARTITIONED", columns |-> <<CD(<<>>)>>]}
    \cup [kind : {"CLUSTERED"}, columns : {<<A>>, <<A, B>>}, sorted_by : {<<>>, <<CD(<<>>)>>},
          num_buckets : {0, 4}]
    \cup On("skewed", [kind : {"SKEWED"}, columns : {<<CD(<<>>)>>}, on : {<<CD(<<>>)>>},
                       stored_as_directories : BOOLEAN])
RowFormats == {None, [kind |-> "DELIMITED"]} \cup {[kind |-> "SERDE", class |-> l] : l \in Locations}
Storages == {None, [kind |-> "IOF", input_format |-> ES, output_format |-> ES]}
            \cup {[kind |-> "FileFormat", format |-> ff] : ff \in DOMAIN FileFormatText \ ({"JSONFILE"} \ On("jsonfile", {"JSONFILE"}))}
HiveFormats == [row_format : RowFormats, storage : Storages, location : {None} \cup Locations]
\* The trailing clauses together, in the one order they are written.
FullFormat == [row_format |-> [kind |-> "DELIMITED"], storage |-> [kind |-> "FileFormat", format |-> "ORC"],
               location |-> X]
Clustered == [kind |-> "CLUSTERED", columns |-> <<A>>, sorted_by |-> <<CD(<<>>)>>, num_buckets |-> 4]
CombinedTables ==
    {[BaseTable EXCEPT !.like = l, !.hive_distribution = hd, !.hive_formats = hf,
                       !.table_properties = tp, !.with_options = wo, !.query = q] :
        l \in {None, <<B>>}, hd \in {[kind |-> "NONE"], Clustered},
        hf \in {BaseTable.hive_formats, FullFormat}, tp \in {<<>>, <<Opt>>}, wo \in {<<>>, <<Opt>>},
        q \in {None, Q1}}
    \cup {[BaseTable EXCEPT !.external = TRUE, !.hive_formats = FullFormat, !.file_format = "ORC",
                            !.location = X, !.hive_distribution = hd, !.table_properties = tp, !.query = q] :
             hd \in {[kind |-> "NONE"], Clustered}, tp \in {<<>>, <<Opt>>}, q \in {None, Q1}}
\* The parser fills file_format and location of an external table from
\* its STORED AS and LOCATION clauses.
CreateTables ==
    {[BaseTable EXCEPT !.or_replace = o, !.if_not_exists = ine, !.columns = c,
                       !.constraints = k, !.query = q, !.without_rowid = w, !.like = l] :
        o \in BOOLEAN, ine \in BOOLEAN, c \in {<<>>, <<CD(<<>>)>>} \cup {<<cd, CD(<<>>)>> : cd \in ColumnDefs},
        k \in {<<>>, <<UQ>>, <<UQ, CK>>}, q \in {None, Q1}, w \in BOOLEAN, l \in {None, <<B>>}}
    \cup On("temporary", {[BaseTable EXCEPT !.temporary = TRUE]})
    \cup {[BaseTable EXCEPT !.table_properties = tp, !.with_options = wo] :
             tp \in {<<>>, <<Opt>>, <<Opt, Opt>>}, wo \in {<<>>, <<Opt>>}}
    \cup {[BaseTable EXCEPT !.hive_distribution = hd] : hd \in HiveDistributions}
    \cup {[BaseTable EXCEPT !.hive_formats = hf] : hf \in HiveFormats}
    \cup {[BaseTable EXCEPT !.external = TRUE, !.hive_formats = hf, !.file_format = hf.storage.format,
                            !.location = hf.location] :
             hf \in {h \in HiveFormats : h.storage # None /\ h.storage.kind = "FileFormat" /\ h.location # None}}
    \* STORED AS INPUTFORMAT ... OUTPUTFORMAT ... is a STORED AS clause too, but
    \* leaves no FileFormat for file_format.
    \cup On("external_iof", {[BaseTable EXCEPT !.external = TRUE, !.location = X,
                               !.hive_formats = [row_format |-> None, location |-> X,
                                                 storage |-> [kind |-> "IOF", input_format |-> ES,
                                                              output_format |-> ES]]]})

TxModes == {<<>>, <<[kind |-> "AccessMode", mode |-> "ReadWrite"]>>}
    \cup {<<[kind |-> "IsolationLevel", level |-> lv], [kind |-> "AccessMode", mode |-> "ReadOnly"]>> :
            lv \in DOMAIN TransactionIsolationLevelText}

Statements ==
    [kind : {"Explain"}, verbose : BOOLEAN, analyze : BOOLEAN, statement : {SelectStmt, CommitStmt}]
    \cup [kind : {"Query"}, query : {Q1, Q2}]
    \cup [kind : {"Directory"}, overwrite : BOOLEAN, local : BOOLEAN, path : Locations,
          file_format : {None} \cup On("directory_format", {"ORC"}), source : {Q1}]
    \cup [kind : {"Msck"}, table_name : {<<A>>}, repair : BOOLEAN, partition_action : {None} \cup DOMAIN AddDropSyncText]
    \cup [kind : {"Truncate"}, table_name : {<<A, B>>}, partitions : {None, <<>>, <<E1>>, <<Cond, E1>>}]
    \cup {s \in [kind : {"Analyze"}, table_name : {<<A>>}, partitions : {None, <<Cond>>}, for_columns : BOOLEAN,
                 columns : {<<>>, <<A, B>>}, cache_metadata : BOOLEAN, noscan : BOOLEAN,
                 compute_statistics : BOOLEAN] : s.columns # <<>> => s.for_columns}
    \cup {s \in [kind : {"Insert"}, or : {None} \cup DOMAIN SqliteOnConflictText, overwrite : BOOLEAN,
                 table : BOOLEAN, table_name : {<<A>>}, columns : {<<>>, <<A, B>>},
                 partitioned : {None, <<Cond>>}, after_columns : {<<>>, <<B>>}, source : {Q1}] :
            /\ s.or # None => ~s.overwrite /\ ~s.table /\ s.partitioned = None
            /\ s.after_columns # <<>> => s.partitioned # None}
    \cup [kind : {"Copy"}, table_name : {<<A>>}, columns : {<<>>, <<A, B>>}, values : {<<>>, <<X, None>>}]
    \cup [kind : {"Update"}, table_name : {<<A>>}, assignments : {<<Asg(A)>>, <<Asg(A), Asg(B)>>},
          selection : {None, Cond}, limit : {None, E1}]
    \cup [kind : {"Delete"}, table_name : {<<A>>}, selection : {None, Cond}]
    \cup On("create_database", [kind : {"CreateDatabase"}, db_name : {<<A>>}, if_not_exists : BOOLEAN,
                                location : {None} \cup Locations, managed_location : {None, X}])
    \cup [kind : {"CreateView"}, or_replace : BOOLEAN, materialized : BOOLEAN, name : {<<A>>},
          columns : {<<>>, <<A, B>>}, query : {Q1}, with_options : {<<>>, <<Opt>>}]
    \cup CreateTables \cup CombinedTables
    \cup [kind : {"CreateVirtualTable"}, if_not_exists : BOOLEAN, name : {<<A>>}, module_name : {B},
          module_args : {<<>>, <<A, B>>}]
    \cup [kind : {"CreateIndex"}, unique : BOOLEAN, if_not_exists : BOOLEAN, name : {<<A>>},
          table_name : {<<B>>}, columns : {<<OB>>, <<OB, [expr |-> E1, asc |-> None]>>}]
    \cup [kind : {"AlterTable"}, name : {<<A>>},
          operation : {[kind |-> "RenameTable", table_name |-> <<B>>]}
                      \cup {[kind |-> "AddColumn", column_def |-> cd] : cd \in ColumnDefs}]
    \cup [kind : {"Drop"}, object_type : DOMAIN ObjectTypeText, if_exists : BOOLEAN,
          names : {<<<<A>>>>, <<<<A>>, <<A, B>>>>}, cascade : BOOLEAN, purge : BOOLEAN]
    \cup [kind : {"SetVariable"}, local : BOOLEAN, hivevar : BOOLEAN, variable : {A},
          value : {<<[kind |-> "Ident", ident |-> B]>>,
                   <<[kind |-> "Literal", literal |-> Num], [kind |-> "Literal", literal |-> Str(XQX)]>>}]
    \cup On("show_variable", [kind : {"ShowVariable"}, variable : {<<A>>, <<A, B>>}])
    \cup [kind : {"UseDatabase"}, variable : QuotedIdents]
    \cup [kind : {"ShowColumns"}, extended : BOOLEAN, full : BOOLEAN, table_name : {<<A>>},
          filter : {None, [kind |-> "Like", pattern |-> XQX], [kind |-> "Where", expr |-> Cond]}
                   \cup On("placeholders", {[kind |-> "ILike"]})]
    \cup [kind : {"StartTransaction"}, modes : TxModes]
    \cup [kind : {"SetTransaction"}, session : BOOLEAN, modes : TxModes]
    \cup [kind : {"SetNames", "Savepoint", "Release"}, variable : {A}]
    \cup [kind : {"Commit"}, chain : BOOLEAN]
    \cup [kind : {"Rollback"}, chain : BOOLEAN, savepoint : {None}]
    \cup [kind : {"Rollback"}, chain : {FALSE} \cup On("rollback_chain", {TRUE}), savepoint : {B}]
    \cup [kind : {"CreateSchema"}, if_not_exists : BOOLEAN, schema_name : {<<A, B>>}]
    \cup [kind : {"Assert"}, condition : Exprs, message : {None, ES}]
    \cup [kind : {"Deallocate"}, prepare : BOOLEAN, name : {A}]
    \cup [kind : {"Execute"}, name : {A}, parameters : {<<>>} \cup On("execute_params", {<<E1>>, <<E1, ES>>})]
    \cup [kind : {"Prepare"}, name : {A}, data_types : {<<>>, <<Int1, [kind |-> "Varchar", size |-> "10"]>>},
          statement : {SelectStmt, [kind |-> "Delete", table_name |-> <<A>>, selection |-> Cond]}]

\* The render context of the passing runs maps no name; MCCtxMapped maps n1.
MCCtx == [n \in {} |-> n]
MCCtxMapped == n1 :> n2
=============================================================================
