------------------------- MODULE SQLAnalyseAbstract -------------------------
(***************************************************************************)
(* What the Analysis Pass promises (spec 4.2, 7, 8): analysing a node     *)
(* hands the accumulator the node's facts (its identifiers, object names,  *)
(* expressions, data types and tokens) one at a time in the order they    *)
(* appear in the node's SQL text; the accumulator may reject a fact, and   *)
(* then nothing after it is visited and the call fails; otherwise the      *)
(* call returns Ok once every fact has been handed over.                   *)
(*                                                                         *)
(* Nodes are records: sort is the Rust type, kind the variant.             *)
(***************************************************************************)
EXTENDS Sequences, SequencesExt

CONSTANTS None,    \* the absent Option
          Roots    \* the DDL nodes a caller analyses

LeafSorts == {"Ident", "ObjectName", "Expr", "DataType", "Token"}

\* The identifier of an optional CONSTRAINT <name> clause.
NameFacts(name) == IF name = None THEN <<>> ELSE <<name>>

\* The facts of a node in SQL text order.
RECURSIVE SyntaxFacts(_)
SyntaxFacts(n) ==
    LET AllOf(xs) == FlattenSeq([i \in DOMAIN xs |-> SyntaxFacts(xs[i])])
    IN
    CASE n.sort \in LeafSorts -> <<n>>
      [] n.sort = "ReferentialAction" -> <<>>
      [] n.sort = "ColumnDef" -> <<n.name, n.data_type>> \o AllOf(n.options)
      [] n.sort = "ColumnOptionDef" -> NameFacts(n.name) \o SyntaxFacts(n.option)
      [] n.sort = "ColumnOption" /\ n.kind \in {"Default", "Check"} -> <<n.expr>>
      [] n.sort = "ColumnOption" /\ n.kind = "ForeignKey" ->
             <<n.foreign_table>> \o n.referred_columns
      [] n.sort = "ColumnOption" /\ n.kind = "DialectSpecific" -> n.tokens
      [] n.sort = "ColumnOption" -> <<>>
      [] n.sort = "TableConstraint" /\ n.kind = "Unique" -> NameFacts(n.name) \o n.columns
      [] n.sort = "TableConstraint" /\ n.kind = "ForeignKey" ->
             NameFacts(n.name) \o n.columns \o <<n.foreign_table>> \o n.referred_columns
      [] n.sort = "TableConstraint" /\ n.kind = "Check" -> NameFacts(n.name) \o <<n.expr>>
      [] n.sort = "AlterTableOperation" /\ n.kind = "AddPartitions" -> n.new_partitions
      [] n.sort = "AlterTableOperation" /\ n.kind = "AddConstraint" -> SyntaxFacts(n.constraint)
      [] n.sort = "AlterTableOperation" /\ n.kind = "AddColumn" -> SyntaxFacts(n.column_def)
      [] n.sort = "AlterTableOperation" /\ n.kind = "DropPartitions" -> n.partitions
      [] n.sort = "AlterTableOperation" /\ n.kind = "DropConstraint" -> <<n.name>>
      [] n.sort = "AlterTableOperation" /\ n.kind = "DropColumn" -> <<n.column_name>>
      [] n.sort = "AlterTableOperation" /\ n.kind = "RenamePartitions" ->
             n.old_partitions \o n.new_partitions
      [] n.sort = "AlterTableOperation" /\ n.kind = "RenameColumn" ->
             <<n.old_column_name, n.new_column_name>>
      [] n.sort = "AlterTableOperation" /\ n.kind = "RenameTable" -> <<n.table_name>>

VARIABLES root,     \* the node being analysed
          visited,  \* the facts handed to the accumulator so far
          status    \* "running", "ok" or "err"

vars == <<root, visited, status>>

Facts == SyntaxFacts(root)

Init == root \in Roots /\ visited = <<>> /\ status = "running"

\* The accumulator takes the next fact.
Visit ==
    /\ status = "running"
    /\ Len(visited) < Len(Facts)
    /\ visited' = Append(visited, Facts[Len(visited) + 1])
    /\ UNCHANGED <<root, status>>

\* The accumulator rejects the next fact: the call fails.
Fail ==
    /\ status = "running"
    /\ Len(visited) < Len(Facts)
    /\ status' = "err"
    /\ UNCHANGED <<root, visited>>

Finish ==
    /\ status = "running"
    /\ Len(visited) = Len(Facts)
    /\ status' = "ok"
    /\ UNCHANGED <<root, visited>>

Next == Visit \/ Fail \/ Finish

\* A call runs to completion: the code is synchronous and never waits.
Spec == Init /\ [][Next]_vars /\ WF_vars(Next)
=============================================================================
