----------------------------- MODULE SQLAnalyse -----------------------------
(***************************************************************************)
(* The Analysis Pass over DDL nodes: the SQLAnalyse impls of               *)
(* handler/parser/sql/analyse/ddl.rs, run as the Rust call stack runs      *)
(* them.  Each impl calls child.analyse(ctx)? on its children in order;    *)
(* the impls of the leaf types (Ident, ObjectName, Expr, DataType, Token)  *)
(* and of DisplaySeparated live in analyse/mod.rs, which is not in the     *)
(* source tree: a leaf call is modelled from the spec as one call into    *)
(* the accumulator, which records the fact or fails, and DisplaySeparated  *)
(* analyses its items in order.                                            *)
(*                                                                         *)
(* A frame is [node, pc]: pc is the index of the next child call.  An Err *)
(* returned by a child is propagated by ? frame by frame.                  *)
(***************************************************************************)
EXTENDS Naturals, Sequences, SequencesExt

CONSTANTS None,    \* the absent Option
          Roots,   \* the DDL nodes a caller analyses
          Nodes,   \* every node reachable from Roots
          MaxPc    \* a bound on the number of children of a node

LeafSorts == {"Ident", "ObjectName", "Expr", "DataType", "Token"}

IsLeaf(n) == n.sort \in LeafSorts

\* display_comma_separated(xs) / display_separated(xs, " ") (analyse/mod.rs).
DisplaySeparated(xs) == [sort |-> "DisplaySeparated", items |-> xs]

\* display_constraint_name(name): ConstraintName(name).
ConstraintName(name) == [sort |-> "ConstraintName", name |-> name]

\* The children each impl calls analyse on, in call order.
AlterTableOperationChildren(op) ==
    CASE op.kind = "AddPartitions"    -> <<DisplaySeparated(op.new_partitions)>>
      [] op.kind = "AddConstraint"    -> <<op.constraint>>
      [] op.kind = "AddColumn"        -> <<op.column_def>>
      [] op.kind = "DropPartitions"   -> <<DisplaySeparated(op.partitions)>>
      [] op.kind = "DropConstraint"   -> <<op.name>>
      [] op.kind = "DropColumn"       -> <<op.column_name>>
      [] op.kind = "RenamePartitions" ->
             <<DisplaySeparated(op.old_partitions), DisplaySeparated(op.new_partitions)>>
      [] op.kind = "RenameColumn"     -> <<op.old_column_name, op.new_column_name>>
      [] op.kind = "RenameTable"      -> <<op.table_name>>

TableConstraintChildren(tc) ==
    CASE tc.kind = "Unique" -> <<ConstraintName(tc.name), DisplaySeparated(tc.columns)>>
      [] tc.kind = "ForeignKey" ->
             <<ConstraintName(tc.name), DisplaySeparated(tc.columns), tc.foreign_table,
               DisplaySeparated(tc.referred_columns)>>
      [] tc.kind = "Check" -> <<ConstraintName(tc.name), tc.expr>>

\* The name, the data type, then every option (the for loop).
ColumnDefChildren(c) == <<c.name, c.data_type>> \o c.options

ColumnOptionDefChildren(o) == <<ConstraintName(o.name), o.option>>

\* Mutant: the two if-let guards on the referential actions are dropped.
ColumnOptionChildren_UnguardedActions(o) ==
    CASE o.kind \in {"Null", "NotNull", "Unique"} -> <<>>
      [] o.kind \in {"Default", "Check"} -> <<o.expr>>
      [] o.kind = "ForeignKey" ->
             <<o.foreign_table>> \o (IF o.referred_columns # <<>> THEN <<DisplaySeparated(o.referred_columns)>> ELSE <<>>)
                 \o <<o.on_delete, o.on_update>>
      [] o.kind = "DialectSpecific" -> <<DisplaySeparated(o.tokens)>>

ColumnOptionChildren(o) ==
    CASE o.kind \in {"Null", "NotNull", "Unique"} -> <<>>
      [] o.kind \in {"Default", "Check"} -> <<o.expr>>
      [] o.kind = "ForeignKey" ->
             <<o.foreign_table>>
                 \o (IF o.referred_columns # <<>> THEN <<DisplaySeparated(o.referred_columns)>> ELSE <<>>)
                 \o (IF o.on_delete # None THEN <<o.on_delete>> ELSE <<>>)
                 \o (IF o.on_update # None THEN <<o.on_update>> ELSE <<>>)
      [] o.kind = "DialectSpecific" -> <<DisplaySeparated(o.tokens)>>

\* ConstraintName::analyse: the Some branch only held a write!, so the
\* name is never analysed.  ReferentialAction::analyse does nothing.
NoChildren(n) == <<>>

Children(n) ==
    CASE n.sort = "AlterTableOperation" -> AlterTableOperationChildren(n)
      [] n.sort = "TableConstraint"     -> TableConstraintChildren(n)
      [] n.sort = "ColumnDef"           -> ColumnDefChildren(n)
      [] n.sort = "ColumnOptionDef"     -> ColumnOptionDefChildren(n)
      [] n.sort = "ColumnOption"        -> ColumnOptionChildren(n)
      [] n.sort = "DisplaySeparated"    -> n.items
      [] n.sort \in {"ConstraintName", "ReferentialAction"} -> NoChildren(n)

\* Mutant: the ? after option.analyse(ctx) in the loop over the options
\* of a column is dropped, so an Err of an option is ignored.
Propagates_OptionsUnchecked(node, pc) == ~(node.sort = "ColumnDef" /\ pc > 2)

\* Every child call in ddl.rs is followed by ?.
Propagates(node, pc) == TRUE

\* Every child has been called: the impl reaches its final Ok(()).
Done(frame) == frame.pc > Len(Children(frame.node))

-----------------------------------------------------------------------------
VARIABLES root,    \* the node the caller analyses
          stack,   \* the call stack, the innermost frame last
          facts,   \* the facts the accumulator recorded, in order
          err      \* an Err is being returned

vars == <<root, stack, facts, err>>

Top == stack[Len(stack)]

\* The top frame returns Ok: it is popped and its caller moves on.
ReturnOk(st) == IF Len(st) = 1 THEN <<>> ELSE [Front(st) EXCEPT ![Len(st) - 1].pc = @ + 1]

Init ==
    /\ root \in Roots
    /\ stack = <<[node |-> root, pc |-> 1]>>
    /\ facts = <<>>
    /\ err = FALSE

\* child.analyse(ctx): a frame for the next child.
Call ==
    /\ stack # <<>> /\ ~err
    /\ ~IsLeaf(Top.node) /\ Top.pc <= Len(Children(Top.node))
    /\ stack' = Append(stack, [node |-> Children(Top.node)[Top.pc], pc |-> 1])
    /\ UNCHANGED <<root, facts, err>>

\* A leaf call: the accumulator records the fact and the leaf returns Ok.
Record ==
    /\ stack # <<>> /\ ~err /\ IsLeaf(Top.node)
    /\ facts' = Append(facts, Top.node)
    /\ stack' = ReturnOk(stack)
    /\ UNCHANGED <<root, err>>

\* A leaf call: the accumulator fails and the leaf returns Err.
Reject ==
    /\ stack # <<>> /\ ~err /\ IsLeaf(Top.node)
    /\ err' = TRUE
    /\ stack' = Front(stack)
    /\ UNCHANGED <<root, facts>>

\* Ok(()) at the end of an impl.
Return ==
    /\ stack # <<>> /\ ~err
    /\ ~IsLeaf(Top.node) /\ Done(Top)
    /\ stack' = ReturnOk(stack)
    /\ UNCHANGED <<root, facts, err>>

\* The caller of a failed child: ? returns the Err at once; without ? the
\* Err would be dropped and the caller would go on with its next child.
Propagate ==
    /\ stack # <<>> /\ err
    /\ stack' = IF Propagates(Top.node, Top.pc) THEN Front(stack)
                ELSE [stack EXCEPT ![Len(stack)].pc = @ + 1]
    /\ err' = Propagates(Top.node, Top.pc)
    /\ UNCHANGED <<root, facts>>

Next == Call \/ Record \/ Reject \/ Return \/ Propagate

\* analyse is synchronous and runs to its end: every enabled step is taken.
Spec == Init /\ [][Next]_vars /\ WF_vars(Next)

\* What the caller sees: still running, Ok(()) or Err.
result == IF stack # <<>> THEN "running" ELSE IF err THEN "err" ELSE "ok"
-----------------------------------------------------------------------------
(***************************************************************************)
(* Properties.                                                             *)
(***************************************************************************)
TypeOK ==
    /\ root \in Roots
    /\ stack \in Seq([node : Nodes, pc : 1..MaxPc])
    /\ facts \in Seq({n \in Nodes : IsLeaf(n)})
    /\ err \in BOOLEAN

\* The call stack implements the abstract pass: the accumulator sees the
\* facts in SQL text order, nothing after a failure, and an Ok only once
\* every fact was seen; an Err status is never taken back.  The status is
\* "err" from the moment the accumulator fails, while ? unwinds.
Abstract == INSTANCE SQLAnalyseAbstract
    WITH visited <- facts,
         status  <- IF err THEN "err" ELSE IF stack = <<>> THEN "ok" ELSE "running"

\* Refinement of SQLAnalyseAbstract (spec 4.2, 8: fail-fast, total).
AbstractSpec == Abstract!Spec
=============================================================================
