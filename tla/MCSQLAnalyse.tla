---------------------------- MODULE MCSQLAnalyse ----------------------------
(***************************************************************************)
(* Bounded DDL nodes for SQLAnalyse: every variant of AlterTableOperation, *)
(* TableConstraint and ColumnOption, column definitions with zero, one and *)
(* two options, lists of one and two items.  c1 and c2 are the values the *)
(* leaves carry.  Named constraints (CONSTRAINT <name>) are switched on by *)
(* Named, for the run that shows their name is never analysed.            *)
(***************************************************************************)
EXTENDS SQLAnalyse

CONSTANTS c1, c2, Named

Leaf(sort, v) == [sort |-> sort, value |-> v]
I1 == Leaf("Ident", c1)
I2 == Leaf("Ident", c2)
ON == Leaf("ObjectName", c2)
EX == Leaf("Expr", c1)
DT == Leaf("DataType", c1)
TK == Leaf("Token", c2)
RA == [sort |-> "ReferentialAction", kind |-> "Cascade"]

ConstraintNames == {None} \cup (IF Named THEN {I2} ELSE {})

Opt(kind) == [sort |-> "ColumnOption", kind |-> kind]
ColumnOptions ==
    {Opt("Null"), Opt("NotNull"), Opt("Unique")}
    \cup {[sort |-> "ColumnOption", kind |-> k, expr |-> EX] : k \in {"Default", "Check"}}
    \cup [sort : {"ColumnOption"}, kind : {"ForeignKey"}, foreign_table : {ON},
          referred_columns : {<<>>, <<I1>>}, on_delete : {None, RA}, on_update : {None, RA}]
    \cup {[sort |-> "ColumnOption", kind |-> "DialectSpecific", tokens |-> <<TK, TK>>]}

ColumnOptionDefs == [sort : {"ColumnOptionDef"}, name : ConstraintNames, option : ColumnOptions]

NotNullDef == [sort |-> "ColumnOptionDef", name |-> None, option |-> Opt("NotNull")]
DefaultDef == [sort |-> "ColumnOptionDef", name |-> None, option |-> Opt("Default") @@ [expr |-> EX]]

ColumnDefs ==
    {[sort |-> "ColumnDef", name |-> I1, data_type |-> DT, options |-> os] :
        os \in {<<>>, <<NotNullDef, DefaultDef>>} \cup {<<d>> : d \in ColumnOptionDefs}}

TableConstraints ==
    [sort : {"TableConstraint"}, kind : {"Unique"}, name : ConstraintNames, columns : {<<I1, I2>>},
     is_primary : BOOLEAN]
    \cup [sort : {"TableConstraint"}, kind : {"ForeignKey"}, name : ConstraintNames, columns : {<<I1>>},
          foreign_table : {ON}, referred_columns : {<<I2>>}]
    \cup [sort : {"TableConstraint"}, kind : {"Check"}, name : ConstraintNames, expr : {EX}]

Op(kind) == [sort |-> "AlterTableOperation", kind |-> kind]
AlterTableOperations ==
    {Op("AddPartitions") @@ [new_partitions |-> <<EX, EX>>],
     Op("DropPartitions") @@ [partitions |-> <<EX>>],
     Op("DropConstraint") @@ [name |-> I1],
     Op("DropColumn") @@ [column_name |-> I1],
     Op("RenamePartitions") @@ [old_partitions |-> <<EX>>, new_partitions |-> <<EX>>],
     Op("RenameColumn") @@ [old_column_name |-> I1, new_column_name |-> I2],
     Op("RenameTable") @@ [table_name |-> ON]}
    \cup {Op("AddConstraint") @@ [constraint |-> tc] : tc \in TableConstraints}
    \cup {Op("AddColumn") @@ [column_def |-> cd] : cd \in ColumnDefs}

MCRoots == AlterTableOperations \cup TableConstraints \cup ColumnDefs

ItemLists == {<<EX, EX>>, <<EX>>, <<I1, I2>>, <<I1>>, <<I2>>, <<TK, TK>>}

MCNodes ==
    MCRoots \cup ColumnOptionDefs \cup ColumnOptions \cup {I1, I2, ON, EX, DT, TK, RA}
    \cup {ConstraintName(n) : n \in ConstraintNames}
    \cup {DisplaySeparated(xs) : xs \in ItemLists}
=============================================================================
