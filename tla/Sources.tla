------------------------------ MODULE Sources ------------------------------
(***************************************************************************)
(* A client putting together the leaf of a query: source.rs with the rows, *)
(* the identifiers and the header it takes.                                *)
(*                                                                         *)
(* `columns` and `batch` are the Vec<Attribute> and the Vec<Row> the client*)
(* has collected; both only grow.  `source` is the last Source that was    *)
(* built, which keeps its own header and rows.  `outcome` is what the last *)
(* constructor answered, and the string it was given if it was a name.     *)
(***************************************************************************)
EXTENDS Values, Identifiers, Infer

CONSTANTS
  RawNames,     \* the strings the client calls a column
  RawTables,    \* the strings it calls a table
  RawRows,      \* the lists of values it passes to Row::try_new
  MaxColumns,   \* a bound on the exploration
  MaxBatch      \* a bound on the exploration

VARIABLES columns, batch, source, outcome

vars == <<columns, batch, source, outcome>>

ASSUME SourceAssumption ==
  /\ \A raw \in RawNames : raw \in Seq(ToSet(raw))
  /\ RawRows \subseteq Seq(Value)
  /\ \A t \in ValueType : IsRelationTy(t) => SchemaTryNew(t.schema).ok
  /\ MaxColumns \in Nat
  /\ MaxBatch \in Nat

-----------------------------------------------------------------------------

(***************************************************************************)
(* MemorySource::try_new: the rows are compared with the header before     *)
(* their number is.                                                        *)
(***************************************************************************)
RowChecks(schema, rows) ==
  [i \in DOMAIN rows |-> At("RowMismatch", i, RowMatchesSchema(rows[i], schema))]

Memory(schema, rows) == [k |-> "Memory", schema |-> schema, rows |-> rows]

\* A wrong MemorySourceTryNew: the number of rows is looked at first.
LengthFirst(schema, rows) ==
  Then(Wrap("Rows", RowsTryNew(rows)),
       LAMBDA checked : Then(Collect(RowChecks(schema, rows)),
                             LAMBDA cells : Ok(Memory(schema, rows))))

\* A wrong MemorySourceTryNew: the first row stands for all.
FirstRowOnly(schema, rows) ==
  Then(Collect([i \in DOMAIN rows \cap {1} |-> RowChecks(schema, rows)[i]]),
       LAMBDA cells : Then(Wrap("Rows", RowsTryNew(rows)),
                           LAMBDA checked : Ok(Memory(schema, rows))))

\* A wrong MemorySourceTryNew: the last row that does not fit is blamed.
LastMisfit(schema, rows) ==
  LET checks == RowChecks(schema, rows)
      last == SelectLastInSeq(checks, LAMBDA r : ~r.ok)
  IN  IF last # 0 THEN checks[last]
      ELSE Then(Wrap("Rows", RowsTryNew(rows)), LAMBDA checked : Ok(Memory(schema, rows)))

MemorySourceTryNew(schema, rows) ==
  Then(Collect(RowChecks(schema, rows)),
       LAMBDA cells : Then(Wrap("Rows", RowsTryNew(rows)),
                           LAMBDA checked : Ok(Memory(schema, rows))))

(***************************************************************************)
(* try_memory takes a Schema, so the columns are checked before.           *)
(***************************************************************************)
TryMemoryOf(attributes, rows) ==
  Then(Wrap("Schema", SchemaTryNew(attributes)),
       LAMBDA schema : MemorySourceTryNew(schema, rows))

-----------------------------------------------------------------------------

NoSource == [k |-> "None"]

Init ==
  /\ columns = <<>>
  /\ batch = <<>>
  /\ source = NoSource
  /\ outcome = [call |-> "None", arg |-> <<>>, verdict |-> Fits]

(***************************************************************************)
(* Only the error of a call is kept: what it built is in the other         *)
(* variables.                                                              *)
(***************************************************************************)
Answer(call, arg, result) ==
  outcome' = [call |-> call, arg |-> arg, verdict |-> IF result.ok THEN Fits ELSE result]

AddColumn(raw, t) ==
  LET name == AttributeNameTryNew(raw)
  IN  /\ Len(columns) < MaxColumns
      /\ columns' = IF name.ok THEN Append(columns, Column(name.val, t)) ELSE columns
      /\ Answer("AttributeName", raw, name)
      /\ UNCHANGED <<batch, source>>

PushRow(values) ==
  LET row == RowTryNew(values)
  IN  /\ Len(batch) < MaxBatch
      /\ batch' = IF row.ok THEN Append(batch, row.val) ELSE batch
      /\ Answer("Row", <<>>, row)
      /\ UNCHANGED <<columns, source>>

TryMemory ==
  LET memory == TryMemoryOf(columns, batch)
  IN  /\ source' = IF memory.ok THEN memory.val ELSE source
      /\ Answer("Memory", <<>>, memory)
      /\ UNCHANGED <<columns, batch>>

TryTable(raw) ==
  LET name == TableNameTryNew(raw)
      table == Then(name, LAMBDA n : Then(Wrap("Schema", SchemaTryNew(columns)),
                            LAMBDA s : Ok([k |-> "Table", schema |-> s, name |-> n])))
  IN  /\ source' = IF table.ok THEN table.val ELSE source
      /\ Answer("Table", <<>>, table)
      /\ UNCHANGED <<columns, batch>>

Next ==
  \/ \E raw \in RawNames, t \in ValueType : AddColumn(raw, t)
  \/ \E values \in RawRows : PushRow(values)
  \/ TryMemory
  \/ \E raw \in RawTables : TryTable(raw)

Spec == Init /\ [][Next]_vars
============================================================================
