---------------------------- MODULE CatalogTables ----------------------------
(***************************************************************************)
(* How a table name of a query becomes rows.  GoogleSqlCatalog resolves    *)
(* the path to a table object, kept in a per-query cache: a stored table,  *)
(* the union of the tables that match a wildcard, or an INFORMATION_SCHEMA *)
(* view.  DuckDbExecutor copies every object the query scans into an       *)
(* in-memory DuckDB under the object's bare name and runs the transpiled   *)
(* query there; the semantic executor iterates over the object itself.     *)
(*                                                                         *)
(* An identifier is a sequence of letters, letters are integers; Star ends *)
(* a wildcard, and the identifier TablesView stands for TABLES.  A stored  *)
(* table has columns, rows and the rows it had before (FOR SYSTEM_TIME AS  *)
(* OF, from the version log).  A cell is [k, v]: its kind and its payload. *)
(* Registered views are in ViewCatalog, row access policies in Governance. *)
(***************************************************************************)
EXTENDS SqlValues

CONSTANTS
    SuffixLetters,      \* letters of the suffixes of wildcard tables
    MaxNesting          \* depth of nested columns

Star == 0

TablesView == <<9>>

SuffixName == "_TABLE_SUFFIX"

Cell(k, v) == [k |-> k, v |-> v]

NullCell == Cell("kNull", <<>>)

ColumnSchema(n, t, m, f) == [name |-> n, type |-> t, mode |-> m, fields |-> f]



-----------------------------------------------------------------------------

(***************************************************************************)
(* Paths.                                                                  *)
(***************************************************************************)

\* A segment is the sequence of its dot-separated parts: a backticked path
\* arrives as one segment of several parts.
ParsedPath(ds, id, view) == [ds |-> ds, id |-> id, view |-> view]

BadPath == [error |-> "NOT_FOUND"]

ParseFindTablePath(path, default) ==
    CASE Len(path) = 1 ->
            LET parts == path[1]
            IN CASE Len(parts) = 1 ->
                        IF default = "" THEN BadPath ELSE ParsedPath(default, parts[1], <<>>)
                 [] Len(parts) = 2 -> ParsedPath(parts[1], parts[2], <<>>)
                 [] OTHER -> ParsedPath(parts[2], FlattenSeq(SubSeq(parts, 3, Len(parts))), <<>>)
      [] Len(path) = 2 ->
            IF path[1] = <<"INFORMATION_SCHEMA">>
            THEN ParsedPath("", <<>>, path[2][1])
            ELSE ParsedPath(path[1][1], path[2][1], <<>>)
      [] Len(path) = 3 ->
            IF path[2] = <<"INFORMATION_SCHEMA">>
            THEN ParsedPath(path[1][1], <<>>, path[3][1])
            ELSE ParsedPath(path[2][1], path[3][1], <<>>)
      [] OTHER -> BadPath

-----------------------------------------------------------------------------

(***************************************************************************)
(* Wildcard tables.                                                        *)
(***************************************************************************)

\* std::string's order.
NameBefore(a, b) ==
    \/ IsPrefix(a, b)
    \/ \E i \in DOMAIN a \cap DOMAIN b : a[i] < b[i] /\ SubSeq(a, 1, i - 1) = SubSeq(b, 1, i - 1)

IsWildcardTableId(id) == id # <<>> /\ Last(id) = Star

WildcardTablePrefix(id) == IF IsWildcardTableId(id) THEN Front(id) ELSE id

TableMatchesWildcard(id, wildcard) ==
    IsWildcardTableId(wildcard) /\ IsPrefix(WildcardTablePrefix(wildcard), id)

TableSuffixFor(id, prefix) ==
    IF IsPrefix(prefix, id) THEN SubSeq(id, Len(prefix) + 1, Len(id)) ELSE id

RECURSIVE ColumnTypesCompatible(_, _)
ColumnTypesCompatible(a, b) ==
    /\ a.type = b.type
    /\ a.mode = b.mode
    /\ a.type = "STRUCT" =>
         /\ Len(a.fields) = Len(b.fields)
         /\ \A i \in DOMAIN a.fields : ColumnTypesCompatible(a.fields[i], b.fields[i])

TableSuffixColumn == ColumnSchema(SuffixName, "STRING", "REQUIRED", <<>>)

ColumnNames(columns) == {columns[i].name : i \in DOMAIN columns}

\* A name has the type of its first table; the newest table's columns come
\* first, the rest in the order of a hash map, the suffix last.
UnifyWildcardTableSchemas(store, matched) ==
    LET all == FlattenSeq([i \in DOMAIN matched |-> store[matched[i]].columns])
        unified(n) == all[Min({i \in DOMAIN all : all[i].name = n})]
        newest == store[Last(matched)].columns
        rest == SetToSeq(ColumnNames(all) \ ColumnNames(newest))
    IN IF \E i \in DOMAIN all : ~ColumnTypesCompatible(unified(all[i].name), all[i])
       THEN [error |-> "INVALID_ARGUMENT"]
       ELSE [columns |-> [i \in DOMAIN newest |-> unified(newest[i].name)]
                         \o [i \in DOMAIN rest |-> unified(rest[i])]
                         \o <<TableSuffixColumn>>]

\* For each matched table, where it keeps each column of the union; 0: nowhere.
BuildWildcardColumnMaps(store, matched, union) ==
    [i \in DOMAIN matched |->
       [id |-> matched[i],
        at |-> [u \in DOMAIN union |->
                  LET own == store[matched[i]].columns
                      found == {p \in DOMAIN own : own[p].name = union[u].name}
                  IN IF union[u].name = SuffixName \/ found = {} THEN 0 ELSE Min(found)]]]

MaterializeWildcardTable(store, ds, wildcard) ==
    LET matched == SetToSortSeq({k \in DOMAIN store : k.ds = ds /\ TableMatchesWildcard(k.id, wildcard)},
                                LAMBDA a, b : NameBefore(a.id, b.id))
        union == UnifyWildcardTableSchemas(store, matched)
    IN IF matched = <<>> THEN [error |-> "NOT_FOUND"]
       ELSE IF "error" \in DOMAIN union THEN union
       ELSE [made |-> "wildcard", ds |-> ds, name |-> wildcard, columns |-> union.columns,
             maps |-> BuildWildcardColumnMaps(store, matched, union.columns)]

BuildUnionRow(physical, map, union, suffix) ==
    [u \in DOMAIN union |->
       IF union[u].name = SuffixName THEN Cell("kString", suffix)
       ELSE IF map.at[u] = 0 \/ map.at[u] > Len(physical) THEN NullCell
       ELSE physical[map.at[u]]]

(***************************************************************************)
(* Pruning: the suffixes a filter directly above the scan may let through. *)
(* A filter is [op, args]; an allow list is [list], nullopt is NoList.     *)
(***************************************************************************)

NoList == [none |-> TRUE]

List(s) == [list |-> s]

IntersectAllowLists(a, b) ==
    LET mem == {b.list[i] : i \in DOMAIN b.list}
    IN List(SelectSeq(a.list, LAMBDA s : s \in mem))

\* The conjunction of the lists: given up at the first conjunct without one,
\* unless the lists before it already had nothing in common.
ConjoinAllowLists(parts) ==
    LET met(k) == FoldLeft(IntersectAllowLists, parts[1], SubSeq(parts, 2, k))
        stop == Min({i \in DOMAIN parts : parts[i] = NoList} \cup {Len(parts) + 1})
    IN IF \E k \in 2..(stop - 1) : met(k).list = <<>> THEN List(<<>>)
       ELSE IF stop <= Len(parts) THEN NoList ELSE met(Len(parts))

\* $in has its alternatives as arguments of their own, and the code looks
\* for one array literal: no list.
RECURSIVE ExtractFromExpr(_)
ExtractFromExpr(e) ==
    CASE e.op = "equal" -> List(<<e.args[1]>>)
      [] e.op = "between" -> List(<<e.args[1], e.args[2]>>)
      [] e.op = "and" -> ConjoinAllowLists([i \in DOMAIN e.both |-> ExtractFromExpr(e.both[i])])
      [] OTHER -> NoList


SuffixMatchesAllowList(suffix, allow) ==
    IF Len(allow) = 2 /\ NameBefore(allow[1], allow[2])
    THEN NameBefore(allow[1], suffix) /\ NameBefore(suffix, allow[2])
    ELSE \E i \in DOMAIN allow : allow[i] = suffix

CollectUnionRows(store, table, allow) ==
    LET suffix(m) == TableSuffixFor(m.id.id, WildcardTablePrefix(table.name))
        kept == SelectSeq(table.maps, LAMBDA m :
                    allow = NoList \/ SuffixMatchesAllowList(suffix(m), allow.list))
    IN FlattenSeq([i \in DOMAIN kept |->
         LET rows == store[kept[i].id].rows
         IN [r \in DOMAIN rows |->
               BuildUnionRow(rows[r], kept[i], table.columns, suffix(kept[i]))]])

\* What reaches DuckDB: only the types listed are rendered, the rest is NULL.
RenderCellLiteral(cell, column) ==
    IF column.type \in {"BOOL", "INT64", "FLOAT64", "STRING", "BYTES", "NUMERIC", "BIGNUMERIC"}
    THEN cell ELSE NullCell

MaterializeInDuckDBWithSuffixAllowList(store, table, allow) ==
    LET rows == CollectUnionRows(store, table, allow)
    IN [columns |-> table.columns,
        rows |-> [r \in DOMAIN rows |->
                    [c \in DOMAIN table.columns |->
                       RenderCellLiteral(rows[r][c], table.columns[c])]]]

-----------------------------------------------------------------------------

(***************************************************************************)
(* The per-query cache and the two ways to read a table.                   *)
(***************************************************************************)

MaterializeInfoSchemaView(ds, view) ==
    IF view = TablesView
    THEN [made |-> "info", ds |-> ds, name |-> view,
          columns |-> <<ColumnSchema("table_name", "STRING", "REQUIRED", <<>>)>>]
    ELSE [error |-> "NOT_FOUND"]

MaterializeTablePhysical(store, ds, id) ==
    IF [ds |-> ds, id |-> id] \in DOMAIN store
    THEN [made |-> "storage", ds |-> ds, name |-> id, columns |-> store[[ds |-> ds, id |-> id]].columns]
    ELSE [error |-> "NOT_FOUND"]

\* The object, found in the cache under its key or made.  The
\* INFORMATION_SCHEMA view and the table of the same name share a key.
FindTable(cache, store, p) ==
    LET name == IF p.view # <<>> THEN p.view ELSE p.id
        known == {t \in cache : t.ds = p.ds /\ t.name = name}
    IN CASE known # {} -> CHOOSE t \in known : TRUE
         [] known = {} /\ p.view # <<>> -> MaterializeInfoSchemaView(p.ds, p.view)
         [] known = {} /\ p.view = <<>> /\ IsWildcardTableId(p.id) -> MaterializeWildcardTable(store, p.ds, p.id)
         [] OTHER -> MaterializeTablePhysical(store, p.ds, p.id)

\* The analyzer resolves the paths of a query in order, over one cache.
Resolve(store, paths) ==
    LET found(acc, t) ==
            IF "error" \in DOMAIN t THEN [acc EXCEPT !.failed = TRUE]
            ELSE [failed |-> FALSE, cache |-> acc.cache \cup {t}, tables |-> Append(acc.tables, t)]
    IN FoldLeft(LAMBDA acc, p : IF acc.failed THEN acc ELSE found(acc, FindTable(acc.cache, store, p)),
                [failed |-> FALSE, cache |-> {}, tables |-> <<>>], paths)

\* The rows of the TABLES view of one dataset.
ViewRows(store, ds) ==
    LET listed == SetToSortSeq({k.id : k \in {x \in DOMAIN store : x.ds = ds}}, NameBefore)
    IN [i \in DOMAIN listed |-> <<Cell("kString", listed[i])>>]

StoredRows(store, t, asOf) ==
    LET at == store[[ds |-> t.ds, id |-> t.name]] IN IF asOf THEN at.before ELSE at.rows

\* TableScanCollector: one entry a table, the last scan that says anything wins.
CollectScans(scans) ==
    [tables |-> {scans[i].table : i \in DOMAIN scans},
     past |-> {scans[i].table : i \in {j \in DOMAIN scans : scans[j].asOf}},
     allow |-> [t \in {scans[i].table : i \in DOMAIN scans} |->
                  LET say == {i \in DOMAIN scans : /\ scans[i].table = t
                                                   /\ ExtractFromExpr(scans[i].filter) # NoList}
                  IN IF say = {} THEN NoList ELSE ExtractFromExpr(scans[Max(say)].filter)]]

\* AttachStorageTableAt, MaterializeInDuckDB: the contents a table gets.
AttachedTable(store, t, collected) ==
    CASE t.made = "wildcard" -> MaterializeInDuckDBWithSuffixAllowList(store, t, collected.allow[t])
      [] t.made = "info" -> [columns |-> t.columns, rows |-> ViewRows(store, t.ds)]
      [] OTHER -> [columns |-> t.columns, rows |-> StoredRows(store, t, t \in collected.past)]

\* CREATE OR REPLACE TABLE under the bare name, in the order of the set of
\* pointers.
AttachCollectedQueryTables(store, collected, order) ==
    FoldLeft(LAMBDA db, t : (t.name :> AttachedTable(store, t, collected)) @@ db, <<>>, order)

RowByName(columns, row) == [n \in ColumnNames(columns) |->
                             row[Min({c \in DOMAIN columns : columns[c].name = n})]]

\* A filter on a row that is a function of column names.
RECURSIVE Satisfies(_, _)
Satisfies(e, row) ==
    CASE e.op = "none" -> TRUE
      [] e.op = "other" -> row["a"] # NullCell
      [] e.op = "equal" -> row[SuffixName].v = e.args[1]
      [] e.op = "between" -> NameBefore(e.args[1], row[SuffixName].v) /\ NameBefore(row[SuffixName].v, e.args[2])
      [] e.op = "in" -> \E i \in DOMAIN e.args : row[SuffixName].v = e.args[i]
      [] e.op = "and" -> \A i \in DOMAIN e.both : Satisfies(e.both[i], row)

\* The transpiled scan: a SELECT of the analyzer's columns from the bare name.
DuckdbScan(db, scan) ==
    LET from == db[scan.table.name]
        wanted == ColumnNames(scan.table.columns)
        read == [r \in DOMAIN from.rows |->
                   [n \in wanted |-> RowByName(from.columns, from.rows[r])[n]]]
    IN IF wanted \subseteq ColumnNames(from.columns)
       THEN [rows |-> SelectSeq(read, LAMBDA row : Satisfies(scan.filter, row))]
       ELSE [error |-> "UNIMPLEMENTED"]

\* The tables' own iterators, at the current time.
StorageEvaluatorTableIterator(store, t) ==
    LET rows == StoredRows(store, t, FALSE) IN [r \in DOMAIN rows |-> RowByName(t.columns, rows[r])]

WildcardEvaluatorIterator(store, t) ==
    LET rows == CollectUnionRows(store, t, NoList) IN [r \in DOMAIN rows |-> RowByName(t.columns, rows[r])]

InfoSchemaEvaluatorIterator(store, t) ==
    LET rows == ViewRows(store, t.ds) IN [r \in DOMAIN rows |-> RowByName(t.columns, rows[r])]

MaterializeTableScan(store, scan) ==
    LET t == scan.table
    IN [rows |-> SelectSeq(CASE t.made = "wildcard" -> WildcardEvaluatorIterator(store, t)
                             [] t.made = "info" -> InfoSchemaEvaluatorIterator(store, t)
                             [] OTHER -> StorageEvaluatorTableIterator(store, t),
                           LAMBDA row : Satisfies(scan.filter, row))]

\* DuckDbExecutor::ExecuteQuery of a transpiled query: attach, then run.
ExecuteQuery(store, scans, order) ==
    LET run(db) == [i \in DOMAIN scans |-> DuckdbScan(db, scans[i])]
    IN run(AttachCollectedQueryTables(store, CollectScans(scans), order))

-----------------------------------------------------------------------------

(***************************************************************************)
(* Cells of a stored table as values of the semantic executor.             *)
(***************************************************************************)

PlainType(t) == [t |-> t, of |-> <<>>]

RECURSIVE ToGoogleSqlType(_)

ScalarOrStructType(c) ==
    IF c.type = "STRUCT"
    THEN [t |-> "STRUCT", of |-> [i \in DOMAIN c.fields |-> ToGoogleSqlType(c.fields[i])]]
    ELSE PlainType(c.type)

ToGoogleSqlType(c) ==
    IF c.mode = "REPEATED" THEN [t |-> "ARRAY", of |-> <<ScalarOrStructType(c)>>]
    ELSE ScalarOrStructType(c)

Converted(type, v) == [is |-> type, v |-> v]

Unconvertible == [error |-> "INVALID_ARGUMENT"]

\* The parts of a composite cell, given up at the first that fails.
Gather(type, parts) ==
    IF \E i \in DOMAIN parts : "error" \in DOMAIN parts[i] THEN Unconvertible
    ELSE Converted(type, parts)

\* The schema of an ARRAY's elements: the column's first field if it has any.
ElementSchema(column) ==
    IF column.fields # <<>> THEN column.fields[1]
    ELSE ColumnSchema(column.name, column.type, "NULLABLE", <<>>)

ConvertStringTypedScalar(cell, type) ==
    Converted(IF type.t \in {"NUMERIC", "BIGNUMERIC", "TIMESTAMP"} THEN type ELSE PlainType("STRING"),
              cell.v)

RECURSIVE ConvertCell(_, _, _)

ConvertCell(cell, type, column) ==
    CASE cell.k = "kNull" -> Converted(type, <<>>)
      [] type.t = "ARRAY" ->
            IF cell.k # "kArray" THEN Unconvertible
            ELSE Gather(type, [i \in DOMAIN cell.v |->
                                 ConvertCell(cell.v[i], type.of[1], ElementSchema(column))])
      [] cell.k = "kString" -> ConvertStringTypedScalar(cell, type)
      [] cell.k = "kInt64" -> Converted(PlainType("INT64"), cell.v)
      [] cell.k = "kStruct" ->
            IF type.t # "STRUCT" \/ Len(cell.v) # Len(type.of) \/ Len(cell.v) # Len(column.fields)
            THEN Unconvertible
            ELSE Gather(type, [i \in DOMAIN cell.v |->
                                 ConvertCell(cell.v[i], type.of[i], column.fields[i])])
      [] OTHER -> Unconvertible

-----------------------------------------------------------------------------

(***************************************************************************)
(* INFORMATION_SCHEMA.  A catalog has datasets, tables with their columns, *)
(* registered views and routines; a table may vanish between the listing   *)
(* and the look at its schema (later).                                     *)
(***************************************************************************)

Str(x) == Cell("kString", <<x>>)

IntCell(n) == Cell("kInt64", <<n>>)

Strs(n) == [i \in 1..n |-> "STRING"]

IntTypes(n) == [i \in 1..n |-> "INT64"]

RowSchemaForView(kind) ==
    CASE kind = "TABLES" -> Strs(4)
      [] kind = "COLUMNS" -> Strs(4) \o IntTypes(1) \o Strs(2)
      [] kind = "SCHEMATA" -> Strs(2)
      [] kind = "VIEWS" -> Strs(6)
      [] kind = "ROUTINES" -> Strs(13) \o <<"TIMESTAMP", "TIMESTAMP">> \o Strs(2)
      [] kind = "TABLE_OPTIONS" -> Strs(6)
      [] kind = "COLUMN_FIELD_PATHS" -> Strs(9) \o <<"ARRAY">>
      [] kind = "PARTITIONS" -> Strs(4) \o IntTypes(3) \o <<"TIMESTAMP", "STRING">>
      [] kind = "TABLE_STORAGE" ->
            <<"STRING", "INT64">> \o Strs(3) \o <<"TIMESTAMP">> \o IntTypes(10)
            \o <<"TIMESTAMP", "BOOL", "STRING", "STRING", "INT64", "TIMESTAMP", "STRING", "TIMESTAMP">>
      [] kind = "KEY_COLUMN_USAGE" -> Strs(7) \o IntTypes(2)

Nulls(n) == [i \in 1..n |-> NullCell]

\* The name of a column's type, by its shape.  An array is named after its
\* first field, and after INT64 when it has none.
RECURSIVE InfoSchemaDataType(_)
InfoSchemaDataType(c) ==
    IF c.mode = "REPEATED"
    THEN [t |-> "ARRAY", of |-> <<IF c.fields = <<>> THEN PlainType("INT64")
                                  ELSE InfoSchemaDataType(c.fields[1])>>]
    ELSE IF c.type = "STRUCT"
    THEN [t |-> "STRUCT", of |-> [i \in DOMAIN c.fields |-> InfoSchemaDataType(c.fields[i])]]
    ELSE PlainType(c.type)

\* A row for the column, then those of its fields.
RECURSIVE AppendFieldPathRows(_, _, _)
AppendFieldPathRows(table, c, path) ==
    LET below == IF c.type = "STRUCT" THEN c.fields ELSE <<>>
    IN <<<<Str("p"), Str(table.ds), Str(table.id), Str(path[1]), Cell("kString", path),
           Cell("kString", <<InfoSchemaDataType(c)>>)>> \o Nulls(4)>>
       \o FlattenSeq([i \in DOMAIN below |->
                        AppendFieldPathRows(table, below[i], Append(path, below[i].name))])

PartitionsRow(name, count) == name \o <<NullCell, IntCell(count)>> \o Nulls(3) \o <<Str("ACTIVE")>>

AppendRowsForTableKind(kind, catalog, table) ==
    LET name == <<Str("p"), Str(table.ds), Str(table.id)>>
        at == catalog[table]
    IN CASE kind = "TABLES" -> <<name \o <<Str("BASE TABLE")>>>>
         [] kind = "COLUMNS" ->
               [i \in DOMAIN at.columns |->
                  name \o <<Str(at.columns[i].name), IntCell(i),
                            Str(IF at.columns[i].mode = "REQUIRED" THEN "NO" ELSE "YES"),
                            Str(InfoSchemaDataType(at.columns[i]))>>]
         [] kind = "PARTITIONS" -> <<PartitionsRow(name, at.count)>>
         [] kind = "TABLE_STORAGE" ->
               <<<<Str("p"), NullCell>> \o name \o <<NullCell, IntCell(at.count), IntCell(0)>> \o Nulls(9)
                 \o <<Cell("kBool", <<FALSE>>), Str("BASE TABLE"), Str("NATIVE")>> \o Nulls(4)>>
         [] OTHER -> <<>>

\* The rows of one dataset's tables: [rows], or the error of the first table
\* that is gone when its schema or its row count is read.
AppendTableRows(kind, catalog, later, ds) ==
    LET tables == SetToSeq({t \in DOMAIN catalog : t.ds = ds})
        reads == kind \in {"COLUMNS", "COLUMN_FIELD_PATHS", "PARTITIONS", "TABLE_STORAGE"}
    IN IF kind \in {"KEY_COLUMN_USAGE", "TABLE_OPTIONS"} THEN [rows |-> <<>>]
       ELSE IF reads /\ \E i \in DOMAIN tables : tables[i] \notin DOMAIN later
       THEN [error |-> "NOT_FOUND"]
       ELSE [rows |-> FlattenSeq([i \in DOMAIN tables |->
               IF kind = "COLUMN_FIELD_PATHS"
               THEN LET cs == catalog[tables[i]].columns
                    IN FlattenSeq([c \in DOMAIN cs |-> AppendFieldPathRows(tables[i], cs[c], <<cs[c].name>>)])
               ELSE AppendRowsForTableKind(kind, catalog, tables[i])])]

IsProjectScope(ds) == ds \in {"", "region-us"}

\* What an unqualified, a region-qualified or a dataset-qualified view scans.
DatasetsInScope(datasets, ds) == IF IsProjectScope(ds) THEN SetToSeq(datasets) ELSE <<ds>>

ListProjectViews(views, ds) ==
    LET of == SetToSeq({v \in views : IsProjectScope(ds) \/ v.ds = ds})
    IN [i \in DOMAIN of |-> <<Str("p"), Str(of[i].ds), Str(of[i].id), Str("SELECT"), NullCell, Str("YES")>>]

\* Temporary routines are of one session and not listed.
GenerateRoutineRows(routines, ds) ==
    LET of == SetToSeq({r \in routines : (IsProjectScope(ds) \/ r.ds = ds) /\ ~r.temp})
        name(r) == <<Str("p"), Str(r.ds), Str(r.id)>>
    IN [i \in DOMAIN of |->
          name(of[i]) \o name(of[i])
          \o <<Str(of[i].kind), NullCell, Str(IF of[i].js THEN "EXTERNAL" ELSE "SQL"), Str("CREATE"),
               IF of[i].js THEN Str("JAVASCRIPT") ELSE NullCell>>
          \o Nulls(4) \o <<Str("CREATE"), NullCell>>]

GenerateRows(kind, world, later, ds) ==
    LET scope == DatasetsInScope(world.datasets, ds)
        parts == [i \in DOMAIN scope |-> AppendTableRows(kind, world.tables, later, scope[i])]
        all == SetToSeq(world.datasets)
    IN CASE kind = "SCHEMATA" -> [rows |-> [i \in DOMAIN all |-> <<Str("p"), Str(all[i])>>]]
         [] kind = "VIEWS" -> [rows |-> ListProjectViews(world.views, ds)]
         [] kind = "ROUTINES" -> [rows |-> GenerateRoutineRows(world.routines, ds)]
         [] OTHER -> IF \E i \in DOMAIN parts : "error" \in DOMAIN parts[i] THEN [error |-> "NOT_FOUND"]
                     ELSE [rows |-> FlattenSeq([i \in DOMAIN parts |-> parts[i].rows])]

\* A cell as DuckDB reads its literal back: an accessor of another kind than
\* the cell's yields the kind's zero, and other types are always NULL.
InfoCellLiteral(cell, type) ==
    LET as(kind, zero) == IF cell.k = kind THEN cell ELSE Cell(kind, zero)
    IN CASE cell = NullCell -> NullCell
         [] type = "STRING" -> as("kString", <<>>)
         [] type = "INT64" -> as("kInt64", <<0>>)
         [] type = "BOOL" -> as("kBool", <<FALSE>>)
         [] OTHER -> NullCell

InsertRows(schema, rows) ==
    IF \E r \in DOMAIN rows : Len(rows[r]) # Len(schema) THEN [error |-> "INVALID_ARGUMENT"]
    ELSE [rows |-> [r \in DOMAIN rows |->
                      [c \in DOMAIN schema |-> InfoCellLiteral(rows[r][c], schema[c])]]]

\* InfoSchemaTable::MaterializeInDuckDB.
MaterializeView(kind, world, later, ds) ==
    LET made == GenerateRows(kind, world, later, ds)
    IN IF "error" \in DOMAIN made THEN made ELSE InsertRows(RowSchemaForView(kind), made.rows)

-----------------------------------------------------------------------------

(***************************************************************************)
(* Inputs.  The stores differ in the third table of the wildcard: another  *)
(* column, a DATE column, or a column of another type.                     *)
(***************************************************************************)

Key(ds, id) == [ds |-> ds, id |-> id]

IntColumn(n) == ColumnSchema(n, "INT64", "NULLABLE", <<>>)

Stored(columns, n) ==
    [columns |-> columns,
     rows |-> <<[c \in DOMAIN columns |-> Cell("kInt64", <<n, c>>)],
                [c \in DOMAIN columns |-> NullCell]>>,
     before |-> <<[c \in DOMAIN columns |-> Cell("kInt64", <<n + 10, c>>)]>>]

StoreWith(third) ==
    Key("d1", <<1, 1>>) :> Stored(<<IntColumn("a")>>, 1)
    @@ Key("d1", <<1, 2>>) :> Stored(<<IntColumn("b"), IntColumn("a")>>, 2)
    @@ Key("d1", <<1, 3>>) :> Stored(<<IntColumn("a"), third>>, 3)
    @@ Key("d2", <<1, 2>>) :> Stored(<<IntColumn("a"), IntColumn("b")>>, 4)
    @@ Key("d1", TablesView) :> Stored(<<IntColumn("table_name")>>, 5)

Stores == {StoreWith(c) : c \in {IntColumn("c"), ColumnSchema("c", "DATE", "NULLABLE", <<>>),
                                 ColumnSchema("b", "STRING", "NULLABLE", <<>>)}}

Wildcard == <<1, Star>>

\* A table or view of a dataset, as the analyzer hands its path over.
Spelled(spelled, ds, id, view) ==
    [spelled |-> spelled, ds |-> ds, id |-> id, view |-> view]

QueryPaths ==
    {Spelled(p, "d1", <<1, 2>>, <<>>) :
       p \in {<<<<"d1">>, <<<<1, 2>>>>>>, <<<<"p", "d1", <<1, 2>>>>>>, <<<<<<1, 2>>>>>>}}
    \cup {Spelled(<<<<"d2", <<1, 2>>>>>>, "d2", <<1, 2>>, <<>>),
          Spelled(<<<<"d1">>, <<TablesView>>>>, "d1", TablesView, <<>>),
          Spelled(<<<<"d1">>, <<"INFORMATION_SCHEMA">>, <<TablesView>>>>, "d1", <<>>, TablesView),
          Spelled(<<<<"d2">>, <<"INFORMATION_SCHEMA">>, <<TablesView>>>>, "d2", <<>>, TablesView),
          Spelled(<<<<"p">>, <<"d2">>, <<<<2, Star>>>>>>, "d2", <<2, Star>>, <<>>)}

WildcardPath == Spelled(<<<<"p", "d1", Wildcard>>>>, "d1", Wildcard, <<>>)

Filter(op, args) == [op |-> op, args |-> args, both |-> <<>>]

NoFilter == Filter("none", <<>>)

SuffixFilters ==
    {Filter("equal", <<<<s>>>>) : s \in SuffixLetters}
    \cup {Filter("between", <<<<s>>, <<t>>>>) : s, t \in SuffixLetters}
    \cup {Filter("in", <<<<1>>, <<3>>>>), Filter("other", <<>>)}

Asked(p, f, past) == [path |-> p, filter |-> f, asOf |-> past]

\* A table asked for plainly or in the past, the wildcard with a filter.
OneScan == {Asked(p, NoFilter, b) : p \in {q \in QueryPaths : q.view = <<>>}, b \in BOOLEAN}
           \cup {Asked(p, NoFilter, FALSE) : p \in QueryPaths}
           \cup {Asked(WildcardPath, f, FALSE) : f \in SuffixFilters \cup {NoFilter}}

Conjunctions ==
    {Asked(WildcardPath, [op |-> "and", args |-> <<>>, both |-> <<f, g>>], FALSE) : f, g \in SuffixFilters}

Asks == {<<a>> : a \in OneScan \cup Conjunctions} \cup (OneScan \X OneScan)

ScansOf(asks, found) ==
    [i \in DOMAIN found |-> [table |-> found[i], filter |-> asks[i].filter, asOf |-> asks[i].asOf]]

\* The collected tables are walked by address, so in any order.
AttachOrders(tables) ==
    {o \in [1..Cardinality(tables) -> tables] : \A t \in tables : \E i \in DOMAIN o : o[i] = t}

Answers(store, asks, scans) ==
    {[op |-> "query", store |-> store, asks |-> asks, scans |-> scans, duckdb |-> ExecuteQuery(store, scans, order),
      semantic |-> [i \in DOMAIN scans |-> MaterializeTableScan(store, scans[i])]] :
        order \in AttachOrders(CollectScans(scans).tables)}

QueryOutcomes(store, asks, found) ==
    IF found.failed
    THEN {[op |-> "query", store |-> store, asks |-> asks, scans |-> <<>>, duckdb |-> <<>>, semantic |-> <<>>]}
    ELSE Answers(store, asks, ScansOf(asks, found.tables))

CallQuery ==
    \E store \in Stores, asks \in Asks :
      eval' \in QueryOutcomes(store, asks,
                    Resolve(store, [i \in DOMAIN asks |-> ParseFindTablePath(asks[i].path.spelled, "d1")]))

ScalarTypes == {"INT64", "STRING", "NUMERIC", "DATE"}

RECURSIVE Columns(_, _)
Columns(n, depth) ==
    {ColumnSchema(n, t, m, <<>>) : t \in ScalarTypes, m \in {"NULLABLE", "REQUIRED", "REPEATED"}}
    \cup (IF depth = 0 THEN {}
          ELSE {ColumnSchema(n, "STRUCT", m, <<x>>) : m \in {"NULLABLE", "REPEATED"}, x \in Columns("x", depth - 1)}
               \cup {ColumnSchema(n, "STRUCT", m, <<x, IntColumn("y")>>) :
                       m \in {"NULLABLE", "REPEATED"}, x \in Columns("x", depth - 1)})

\* A cell storage returns for the column; arrays have n elements, the last NULL.
RECURSIVE Filled(_, _)
Filled(c, n) ==
    CASE c.mode = "REPEATED" ->
            Cell("kArray", [i \in 1..n |-> IF i > 1 THEN NullCell
                                           ELSE Filled([c EXCEPT !.mode = "NULLABLE"], n)])
      [] c.type = "STRUCT" -> Cell("kStruct", [i \in DOMAIN c.fields |-> Filled(c.fields[i], n)])
      [] c.type = "INT64" -> Cell("kInt64", <<7>>)
      [] OTHER -> Cell("kString", <<7>>)

CallConvert ==
    \E c \in Columns("c", MaxNesting), n \in 0..2 :
      eval' = [op |-> "convert", column |-> c, cell |-> Filled(c, n),
               result |-> ConvertCell(Filled(c, n), ToGoogleSqlType(c), c)]

InfoViews == {"TABLES", "COLUMNS", "SCHEMATA", "VIEWS", "ROUTINES", "TABLE_OPTIONS",
              "COLUMN_FIELD_PATHS", "PARTITIONS", "TABLE_STORAGE", "KEY_COLUMN_USAGE"}

CatalogsOf(c) ==
    LET tables == Key("d1", "t") :> [columns |-> <<IntColumn("a"), c>>, count |-> 3]
                  @@ Key("d1", "u") :> [columns |-> <<c>>, count |-> 0]
                  @@ Key("d2", "t") :> [columns |-> <<IntColumn("a")>>, count |-> 1]
    IN [datasets |-> {"d1", "d2"}, tables |-> tables,
        views |-> {Key("d1", "v"), Key("d2", "v")},
        routines |-> {[ds |-> d, id |-> "f", temp |-> b, kind |-> "FUNCTION", js |-> d = "d2"] :
                        d \in {"d1", "d2"}, b \in BOOLEAN}]

CallInfoSchema ==
    \E kind \in InfoViews, ds \in {"", "region-us", "d1", "d2"} :
    \E c \in Columns("c", IF kind = "COLUMN_FIELD_PATHS" THEN MaxNesting ELSE 0),
       gone \in {{}, {Key("d1", "u")}} :
      LET world == CatalogsOf(c)
          later == [t \in DOMAIN world.tables \ gone |-> world.tables[t]]
      IN eval' = [op |-> "info", kind |-> kind, world |-> world, ds |-> ds, later |-> later,
                  rows |-> GenerateRows(kind, world, later, ds),
                  duckdb |-> MaterializeView(kind, world, later, ds)]

CatalogNext ==
    \/ eval = NoCall /\ CallQuery
    \/ eval = NoCall /\ CallConvert
    \/ eval = NoCall /\ CallInfoSchema

-----------------------------------------------------------------------------

(***************************************************************************)
(* Properties.                                                             *)
(***************************************************************************)

\* What a scan is to read: the rows of its own table, at its own time, by
\* column name; for a wildcard those of every matching table.
Meant(store, ask) ==
    LET p == ask.path
        tables == SetToSortSeq({k \in DOMAIN store : k.ds = p.ds /\ IsPrefix(Front(p.id), k.id)},
                               LAMBDA a, b : NameBefore(a.id, b.id))
        names == UNION {ColumnNames(store[tables[i]].columns) : i \in DOMAIN tables} \cup {SuffixName}
        part(k) == LET own == store[k]
                   IN [r \in DOMAIN own.rows |->
                         [n \in names |->
                            IF n = SuffixName THEN Cell("kString", SubSeq(k.id, Len(p.id), Len(k.id)))
                            ELSE IF n \in ColumnNames(own.columns) THEN RowByName(own.columns, own.rows[r])[n]
                            ELSE NullCell]]
        plain == store[Key(p.ds, p.id)]
        rows == IF p.view # <<>>
                THEN [i \in DOMAIN ViewRows(store, p.ds) |-> [n \in {"table_name"} |-> ViewRows(store, p.ds)[i][1]]]
                ELSE IF IsWildcardTableId(p.id) THEN FlattenSeq([i \in DOMAIN tables |-> part(tables[i])])
                ELSE LET own == IF ask.asOf THEN plain.before ELSE plain.rows
                     IN [r \in DOMAIN own |-> RowByName(plain.columns, own[r])]
    IN [rows |-> SelectSeq(rows, LAMBDA row : Satisfies(ask.filter, row))]

Same(a, b) == a.ds = b.ds /\ a.id = b.id /\ a.view = b.view

BareName(p) == IF p.view # <<>> THEN p.view ELSE p.id

\* Queries the attach step serves wrongly.  Two tables with one bare name
\* are attached over each other, or found under one key.
SharesName(asks) ==
    \E i, j \in DOMAIN asks : BareName(asks[i].path) = BareName(asks[j].path) /\ ~Same(asks[i].path, asks[j].path)

\* One allow list, or one time, serves every scan of a table.
SharesScan(asks) ==
    \E i, j \in DOMAIN asks : Same(asks[i].path, asks[j].path)
                              /\ (asks[i].filter # asks[j].filter \/ asks[i].asOf # asks[j].asOf)

\* The ends of a range are intersected as if they were its members.
CutsRange(asks) ==
    \E i \in DOMAIN asks : /\ asks[i].filter.op = "and"
                           /\ \E k \in DOMAIN asks[i].filter.both : asks[i].filter.both[k].op = "between"

\* A wildcard has columns RenderCellLiteral turns into NULL.
Unrendered(scans) ==
    \E i \in DOMAIN scans : scans[i].table.made = "wildcard"
                            /\ \E c \in DOMAIN scans[i].table.columns : scans[i].table.columns[c].type = "DATE"

\* Every scan of a query reads exactly the rows of the table its path names
\* that satisfy its filter, whatever the order in which the collected tables
\* are attached, outside the four shapes above (googlesql_catalog.cc,
\* wildcard_table*.cc, duckdb_executor_attach_helpers.cc).
ScansReadTheirTables ==
    eval.op = "query" =>
      (\/ SharesName(eval.asks)
       \/ SharesScan(eval.asks)
       \/ CutsRange(eval.asks)
       \/ Unrendered(eval.scans)
       \/ \A i \in DOMAIN eval.scans : eval.duckdb[i] = Meant(eval.store, eval.asks[i]))

\* "The engine is responsible for ATTACHing storage so the bare name resolves
\* at execution time" (transpiler_emit_query.cc): two tables of different
\* datasets with the same name are both read as themselves.  They are not:
\* the one attached last replaces the other.
SameNamedTablesKeptApart ==
    eval.op = "query" =>
      (\/ SharesScan(eval.asks)
       \/ CutsRange(eval.asks)
       \/ Unrendered(eval.scans)
       \/ \A i \in DOMAIN eval.scans : eval.duckdb[i] = Meant(eval.store, eval.asks[i]))

\* The semantic executor's iterators return the rows DuckDB would: the two
\* engines differ only where the attach step goes wrong, in the past, and
\* where two objects share a key of the catalog's cache.
EnginesReadAlike ==
    eval.op = "query" =>
      \A i \in DOMAIN eval.scans :
        \/ eval.asks[i].asOf
        \/ (eval.scans[i].table.made = "info") # (eval.asks[i].path.view # <<>>)
        \/ eval.semantic[i] = Meant(eval.store, eval.asks[i])

RECURSIVE SomewhereIn(_, _)
SomewhereIn(P(_), c) == P(c) \/ \E i \in DOMAIN c.fields : SomewhereIn(P, c.fields[i])

\* Types storage keeps as text that the iterator does not parse.
LeftAsText(c) == c.type = "DATE"

\* A repeated record: its elements are taken to have the schema of its first
\* field.
RepeatedRecord(c) == c.type = "STRUCT" /\ c.mode = "REPEATED"

\* A value back as the cell it came from.
RECURSIVE BackToCell(_, _)
BackToCell(value, cell) ==
    IF cell.k \in {"kArray", "kStruct"} /\ Len(value.v) = Len(cell.v)
    THEN Cell(cell.k, [i \in DOMAIN value.v |-> BackToCell(value.v[i], cell.v[i])])
    ELSE Cell(cell.k, value.v)

\* A stored cell becomes a value of the column's GoogleSQL type with the same
\* contents, element for element and field for field, except dates and
\* repeated records (ConvertCell, storage_table.cc).
CellsKeepTypeAndContents ==
    eval.op = "convert" =>
      (\/ SomewhereIn(LeftAsText, eval.column)
       \/ SomewhereIn(RepeatedRecord, eval.column)
       \/ /\ "error" \notin DOMAIN eval.result
          /\ eval.result.is = ToGoogleSqlType(eval.column)
          /\ BackToCell(eval.result, eval.cell) = eval.cell)

\* Every view's rows fit its schema, cell for cell, so that a query of an
\* INFORMATION_SCHEMA view reads the same in DuckDB as from the iterator
\* (info_schema_rows.cc against info_schema_schema.cc).
ViewsFitTheirSchema ==
    eval.op = "info" => eval.duckdb = eval.rows

\* The paths of a column: itself, and those of its fields below it.
RECURSIVE Reaches(_, _)
Reaches(c, path) ==
    /\ path[1] = c.name
    /\ Len(path) > 1 => \E i \in DOMAIN c.fields : Reaches(c.fields[i], Tail(path))

\* A project-wide view has the rows of every dataset's view, a view fails
\* only when a table vanished under it, and COLUMN_FIELD_PATHS lists each
\* path of each column once, a field after the record that holds it.
ViewsCoverTheCatalog ==
    eval.op = "info" =>
      LET of(d) == {t \in DOMAIN eval.world.tables : t.ds = d}
          inScope == IF IsProjectScope(eval.ds) THEN eval.world.datasets ELSE {eval.ds}
          tables == UNION {of(d) : d \in inScope}
          rows == eval.rows.rows
      IN IF "error" \in DOMAIN eval.rows
         THEN tables \ DOMAIN eval.later # {}
         ELSE CASE eval.kind \in {"TABLES", "PARTITIONS"} ->
                      /\ Len(rows) = Cardinality(tables)
                      /\ {Key(rows[i][2].v[1], rows[i][3].v[1]) : i \in DOMAIN rows} = tables
                [] eval.kind = "COLUMN_FIELD_PATHS" ->
                      \A t \in tables, path \in UNION {[1..n -> {"a", "c", "x", "y"}] : n \in 1..(MaxNesting + 1)} :
                        LET at == {i \in DOMAIN rows : /\ rows[i][2].v[1] = t.ds
                                                       /\ rows[i][3].v[1] = t.id
                                                       /\ rows[i][5].v = path}
                            cs == eval.world.tables[t].columns
                        IN /\ Cardinality(at) = IF \E c \in DOMAIN cs : Reaches(cs[c], path) THEN 1 ELSE 0
                           /\ at # {} /\ Len(path) > 1 =>
                                \E j \in 1..(Min(at) - 1) :
                                  /\ rows[j][2].v[1] = t.ds /\ rows[j][3].v[1] = t.id
                                  /\ rows[j][5].v = Front(path)
                [] eval.kind \in {"VIEWS", "ROUTINES"} -> Len(rows) = Cardinality(inScope)
                [] OTHER -> TRUE

=============================================================================
