------------------------------ MODULE Catalog ------------------------------
(***************************************************************************)
(* The catalog functions (src/info.c) and the entry points that call them  *)
(* (src/odbcapi.c, src/odbcapiw.c).                                        *)
(*                                                                         *)
(* A catalog function answers on the handle of the application with a      *)
(* result it makes up from the rows of its own queries, which it runs on   *)
(* statement handles allocated for the purpose or straight on the          *)
(* connection; SQLStatistics and the foreign keys of an old server call    *)
(* other catalog functions on such handles.  When nothing is found the     *)
(* name is looked for again: in schema public when the schema asked for is *)
(* named after the user, and, by the ANSI entry points, in lower case.     *)
(*                                                                         *)
(* Data.  An item is a relation or a procedure of the database and stands  *)
(* for all the rows the query yields about it.  An identifier is a         *)
(* string; "none" is a null pointer and "%" the pattern that matches       *)
(* everything.  The session's user is "me" and its current schema          *)
(* "public".  Failed allocations, the texts of rows, the pseudo columns    *)
(* oid and xmin and what the calls do to the transaction (StatementSvp)    *)
(* are left out.                                                           *)
(***************************************************************************)
EXTENDS Naturals, Sequences, SequencesExt, TLC

CONSTANTS
    Databases,    \* the sets of items the server may hold
    Requests,     \* what the application may ask, see Request
    FetchFaults,  \* functions whose own fetches may fail half way
    Internal      \* names for the statement handles of the driver

VARIABLES
    db,      \* the items of the server
    up,      \* the session still answers
    hs,      \* the live statement handles
    stack,   \* the catalog functions being executed, the innermost last
    app      \* the application's call

vars == <<db, up, hs, stack, app>>

App == 0                          \* the application's own handle
User == "me"
Current == "public"

Lower(id) == CASE id = "ME" -> "me" [] id \in {"EMP", "Emp"} -> "emp"
               [] OTHER -> id
AllUpper(id) == id \in {"ME", "EMP", "%", "none"}

Names == {"sch", "name", "osch", "other"}

(* What a call asks: the function, whether it is the wide entry point, the *)
(* identifiers (osch and other: of the foreign key table, or other the     *)
(* name of a column), the attribute SQL_ATTR_METADATA_ID, the connection's *)
(* LowerCaseIdentifier and the table types or kind of row identifier.      *)
Request(fn, wide, sch, name, osch, other, md, lc, typ) ==
    [fn |-> fn, wide |-> wide, sch |-> sch, name |-> name, osch |-> osch,
     other |-> other, md |-> md, lc |-> lc, typ |-> typ]

-----------------------------------------------------------------------------
(* Statement handles.  err: the handle has a message for SQLGetDiagRec.    *)

Fresh == [status |-> "ready", has |-> FALSE, rows |-> {}, err |-> FALSE]

Unused(H) == CHOOSE n \in Internal : n \notin DOMAIN H
Drop(H, S) == [x \in DOMAIN H \ S |-> H[x]]

(* SC_initialize_and_recycle: the result is freed, the error cleared.      *)
Recycled(H, x) == [H EXCEPT ![x] = Fresh]

(* A query executed on handle x yields rows, or fails with a message.      *)
ExecDirect(H, x, rows, ok) ==
    [H EXCEPT ![x] = [status |-> "finished", has |-> ok, err |-> ~ok,
                      rows |-> IF ok THEN rows ELSE {}]]

(* SC_full_error_copy and SC_error_copy                                    *)
Copied(H, to, from) == [H EXCEPT ![to].err = @ \/ H[from].err]
Told(H, x) == [H EXCEPT ![x].err = TRUE]

(* SC_set_Result with a result made up by the function.                    *)
Answered(H, x, rows) == [H EXCEPT ![x].has = TRUE, ![x].rows = rows]

Answers == IF up THEN BOOLEAN ELSE {FALSE}

(* What a loop of PGAPI_Fetch gets out of the rows of a query.             *)
Fetches(fn, rows) ==
    {[got |-> rows, ok |-> TRUE]} \cup
    (IF fn \in FetchFaults /\ rows # {}
       THEN {[got |-> g, ok |-> FALSE] : g \in SUBSET rows} ELSE {})

-----------------------------------------------------------------------------
(* Frames of the functions being executed.                                 *)

Frame(fn, self, sch, name) ==
    [fn |-> fn, pc |-> "open", self |-> self, sch |-> sch, name |-> name,
     osch |-> "none", other |-> "none", md |-> FALSE, typ |-> "all",
     public |-> FALSE, sub |-> App, sub2 |-> App, ok |-> FALSE,
     keep |-> {}, todo |-> {}]

Top == stack[Len(stack)]
At(fn, pc) == stack # <<>> /\ Top.fn = fn /\ Top.pc = pc
Becomes(f) == stack' = [stack EXCEPT ![Len(stack)] = f]
Goto(pc) == Becomes([Top EXCEPT !.pc = pc])
Calls(f, g) == stack' = Append([stack EXCEPT ![Len(stack)] = f], g)

(* The function returns; H are the handles it leaves.                      *)
Return(ok, H) ==
    /\ hs' = H
    /\ IF Len(stack) = 1
         THEN /\ stack' = <<>>
              /\ app' = [app EXCEPT !.pc = "back", !.ok = ok]
         ELSE /\ stack' = Append(Front(Front(stack)),
                                 [stack[Len(stack) - 1] EXCEPT !.ok = ok])
              /\ UNCHANGED app
    /\ UNCHANGED <<db, up>>

(* Mutants: a function's second handle is kept; its error is not copied.   *)
Cleanup_Kept(H, ok) ==
    Return(ok, Drop([H EXCEPT ![Top.self].status = "finished",
                              ![Top.self].err = @ \/ ~ok], {Top.sub} \ {App}))
Cleanup_Silent(H, ok) ==
    Return(ok, Drop([H EXCEPT ![Top.self].status = "finished"],
                    {Top.sub, Top.sub2} \ {App}))

(* The common end: the handle counts as finished, an error nobody          *)
(* explained is explained by the handles of the driver, which are dropped. *)
Cleanup(H, ok) ==
    LET f == Top
        subs == {f.sub, f.sub2} \ {App}
        silent == ~ok /\ ~H[f.self].err
        told == silent /\ \E x \in subs : H[x].err
    IN Return(ok, Drop([H EXCEPT ![f.self].status = "finished",
                                 ![f.self].err = @ \/ told], subs))

Same == UNCHANGED <<db, up, app>>

-----------------------------------------------------------------------------
(* Names.                                                                  *)

(* gen_opestr: LIKE, or equality.  A null pointer adds no condition.       *)
Matches(exact, pattern, id) ==
    pattern \in {"none", id} \/ (~exact /\ pattern = "%")

(* schema_appendPQExpBuffer1 and schema_str: without a schema a table name *)
(* is looked for in the current one.                                       *)
SchemaOr(sch, name) == IF sch = "none" /\ name # "none" THEN Current ELSE sch

(* Mutant: schema public is looked through again after itself.             *)
AllowPublic_Itself(sch) == Lower(sch) \in {User, Current}

(* allow_public_schema: the schema asked for is the user's name, in any    *)
(* case, and the current schema is public.                                 *)
AllowPublic(sch) == Lower(sch) = User /\ Current = "public"

Relations == {x \in db : x.k \in {"table", "view"}}
Procs == {x \in db : x.k = "proc"}

-----------------------------------------------------------------------------
(* SQLTables                                                               *)

TablesOpen ==
    /\ At("Tables", "open")
    /\ LET H == Recycled(hs, Top.self)  n == Unused(hs)
       IN /\ hs' = H @@ (n :> Fresh)
          /\ Becomes([Top EXCEPT !.sub = n, !.pc = "exec"])
    /\ Same

TablesQuery(f) ==
    IF f.typ = "schemas"
      THEN {[s |-> x.s, n |-> "none", k |-> "schema"] : x \in db}
      ELSE {x \in Relations : /\ Matches(f.md, SchemaOr(f.sch, f.name), x.s)
                              /\ Matches(f.md, f.name, x.n)}

(* A public schema is looked through on the same handle once more.         *)
TablesExec ==
    /\ At("Tables", "exec")
    /\ \E ok \in Answers :
         LET H == ExecDirect(hs, Top.sub, TablesQuery(Top), ok)
             again == ok /\ TablesQuery(Top) = {} /\ AllowPublic(Top.sch)
         IN IF ~ok THEN Cleanup(Copied(H, Top.self, Top.sub), FALSE)
            ELSE /\ hs' = H
                 /\ IF again THEN Becomes([Top EXCEPT !.sch = Current])
                             ELSE Goto("rows")
                 /\ Same

(* A materialized view counts as a table as well; the rows of the wrong    *)
(* type are fetched and left out.                                          *)
TypeShown(f, x) == f.typ \in {"all", x.k, "schemas"}

TablesRows ==
    /\ At("Tables", "rows")
    /\ \E o \in Fetches("Tables", hs[Top.sub].rows) :
         LET H == Answered(hs, Top.self, {x \in o.got : TypeShown(Top, x)})
         IN Cleanup(IF o.ok THEN H ELSE Told(H, Top.self), o.ok)

-----------------------------------------------------------------------------
(* SQLColumns                                                              *)

ColumnsOpen ==
    /\ At("Columns", "open")
    /\ hs' = Recycled(hs, Top.self)
    /\ Goto("exec")
    /\ Same

ColumnsQuery(f) ==
    {x \in Relations : /\ Matches(f.md, f.name, x.n)
                       /\ Matches(f.md, SchemaOr(f.sch, f.name), x.s)}

(* The second search, in schema public, has a handle of its own: the first *)
(* is dropped.                                                             *)
ColumnsExec ==
    /\ At("Columns", "exec")
    /\ \E ok \in Answers :
         LET n == Unused(hs)
             H == ExecDirect(hs @@ (n :> Fresh), n, ColumnsQuery(Top), ok)
             again == /\ ok /\ ColumnsQuery(Top) = {}
                      /\ Top.public /\ AllowPublic(Top.sch)
         IN IF again
              THEN /\ hs' = Drop(H, {n})
                   /\ Becomes([Top EXCEPT !.sch = Current])
                   /\ Same
              ELSE /\ hs' = IF ok THEN H ELSE Copied(H, Top.self, n)
                   /\ Becomes([Top EXCEPT !.sub = n,
                                          !.pc = IF ok THEN "bind" ELSE "end"])
                   /\ Same

ColumnsBind ==
    /\ At("Columns", "bind")
    /\ hs' = Answered(hs, Top.self, {})
    /\ Goto("rows")
    /\ Same

(* Mutant: a failed fetch counts as the end of the rows.                   *)
ColumnsRows_Ignored ==
    /\ At("Columns", "rows")
    /\ \E o \in Fetches("Columns", hs[Top.sub].rows) :
         /\ hs' = Answered(hs, Top.self, o.got)
         /\ Becomes([Top EXCEPT !.ok = TRUE, !.pc = "end"])
         /\ Same

ColumnsRows ==
    /\ At("Columns", "rows")
    /\ \E o \in Fetches("Columns", hs[Top.sub].rows) :
         LET H == Answered(hs, Top.self, o.got)
         IN /\ hs' = IF o.ok THEN H ELSE Told(H, Top.self)
            /\ Becomes([Top EXCEPT !.ok = o.ok, !.pc = "end"])
            /\ Same

ColumnsEnd ==
    /\ At("Columns", "end")
    /\ Cleanup(hs, Top.ok)

-----------------------------------------------------------------------------
(* SQLSpecialColumns.  A table without oids has no row identifier but its  *)
(* unique keys, which a query on the connection finds; an unknown table is *)
(* an error.                                                               *)

SpecialOpen ==
    /\ At("Special", "open")
    /\ IF Top.name = "none"
         THEN Return(FALSE, Told(Recycled(hs, Top.self), Top.self))
         ELSE hs' = Recycled(hs, Top.self) /\ Goto("exec") /\ Same

SpecialQuery(f) ==
    {x \in Relations : /\ Matches(TRUE, f.name, x.n)
                       /\ Matches(TRUE, SchemaOr(f.sch, f.name), x.s)}

SpecialExec ==
    /\ At("Special", "exec")
    /\ \E ok \in Answers :
         LET n == Unused(hs)
             found == SpecialQuery(Top)
             H == ExecDirect(hs @@ (n :> Fresh), n, found, ok)
         IN IF ok /\ found = {} /\ AllowPublic(Top.sch)
              THEN /\ hs' = Drop(H, {n})
                   /\ Becomes([Top EXCEPT !.sch = Current])
                   /\ Same
              ELSE /\ hs' = IF ~ok THEN Copied(H, Top.self, n)
                            ELSE IF found = {} THEN Told(H, Top.self) ELSE H
                   /\ Becomes([Top EXCEPT !.sub = n, !.pc =
                                 IF ok /\ found # {} THEN "bind" ELSE "end"])
                   /\ Same

(* The first row tells a view from a table; the handle is dropped.  The    *)
(* query for the unique keys takes the table's name alone when no catalog  *)
(* was given.                                                              *)
SpecialBind ==
    /\ At("Special", "bind")
    /\ \E x \in hs[Top.sub].rows :
         /\ hs' = Answered(Drop(hs, {Top.sub}), Top.self,
                           IF Top.typ = "rowver" THEN {x} ELSE {})
         /\ Becomes([Top EXCEPT !.sub = App, !.keep = {x},
                       !.ok = Top.typ = "rowver" \/ x.k = "view",
                       !.pc = IF Top.typ = "rowver" \/ x.k = "view"
                                THEN "end" ELSE "keys"])
    /\ Same

SpecialKeys ==
    /\ At("Special", "keys")
    /\ \E ok \in Answers :
         LET keyed == {x \in Relations : x.n = Top.name /\ x.pk # "none"}
         IN /\ hs' = IF ok THEN Answered(hs, Top.self, keyed)
                           ELSE Told(hs, Top.self)
            /\ Becomes([Top EXCEPT !.ok = ok, !.pc = "end"])
    /\ Same

SpecialEnd ==
    /\ At("Special", "end")
    /\ Cleanup(hs, Top.ok)

-----------------------------------------------------------------------------
(* SQLStatistics.  The columns of the table come from SQLColumns on a      *)
(* handle of the driver, which also says in which schema it was found.     *)

StatisticsOpen ==
    /\ At("Statistics", "open")
    /\ IF Top.name = "none"
         THEN Return(TRUE, Told(Recycled(hs, Top.self), Top.self))
         ELSE LET H == Answered(Recycled(hs, Top.self), Top.self, {})
                  n == Unused(hs)
              IN /\ hs' = H @@ (n :> Fresh)
                 /\ Calls([Top EXCEPT !.sub = n, !.pc = "columns"],
                          [Frame("Columns", n, SchemaOr(Top.sch, Top.name),
                                 Top.name) EXCEPT !.md = TRUE,
                                                  !.public = TRUE])
                 /\ Same

StatisticsColumns ==
    /\ At("Statistics", "columns")
    /\ IF ~Top.ok THEN Cleanup(hs, FALSE)
       ELSE \E o \in Fetches("Statistics", hs[Top.sub].rows) :
              IF ~o.ok THEN Cleanup(Told(hs, Top.self), FALSE)
              ELSE /\ hs' = Drop(hs, {Top.sub})
                   /\ Becomes([Top EXCEPT !.sub = App, !.keep = o.got,
                         !.pc = IF o.got = {} THEN "end" ELSE "exec",
                         !.ok = o.got = {}])
                   /\ Same

(* The indexes of the table of that name in that schema.                   *)
StatisticsQuery(f) ==
    {x \in Relations : /\ x.n = f.name
                       /\ \E c \in f.keep : x.s = c.s
                       /\ x.pk # "none"}

StatisticsExec ==
    /\ At("Statistics", "exec")
    /\ \E ok \in Answers :
         LET n == Unused(hs)
             H == ExecDirect(hs @@ (n :> Fresh), n, StatisticsQuery(Top), ok)
         IN /\ hs' = IF ok THEN H ELSE Copied(H, Top.self, n)
            /\ Becomes([Top EXCEPT !.sub2 = n,
                                   !.pc = IF ok THEN "rows" ELSE "end"])
    /\ Same

StatisticsRows ==
    /\ At("Statistics", "rows")
    /\ \E o \in Fetches("Statistics", hs[Top.sub2].rows) :
         LET H == Answered(hs, Top.self, o.got)
         IN /\ hs' = IF o.ok THEN H ELSE Told(H, Top.self)
            /\ Becomes([Top EXCEPT !.ok = o.ok, !.pc = "end"])
    /\ Same

StatisticsEnd ==
    /\ At("Statistics", "end")
    /\ Cleanup(hs, Top.ok)

-----------------------------------------------------------------------------
(* SQLColumnPrivileges: one query on the connection, whose result is the   *)
(* answer.                                                                 *)

ColumnPrivilegesQuery(f) ==
    {x \in Relations : Matches(TRUE, f.sch, x.s) /\ Matches(TRUE, f.name, x.n)}

ColumnPrivileges ==
    /\ At("ColumnPrivileges", "open")
    /\ \E ok \in Answers :
         LET H == Recycled(hs, Top.self)
         IN Cleanup(IF ok THEN Answered(H, Top.self, ColumnPrivilegesQuery(Top))
                          ELSE Told(H, Top.self), ok)

-----------------------------------------------------------------------------
(* SQLPrimaryKeys.  Two queries, the second for a unique index named after *)
(* the table, and the same again in schema public, all on one handle.      *)

PrimaryOpen ==
    /\ At("PrimaryKeys", "open")
    /\ LET n == Unused(hs)
           H == Answered(Recycled(hs, Top.self), Top.self, {}) @@ (n :> Fresh)
       IN IF Top.name = "none"
            THEN /\ hs' = Told(H, Top.self)
                 /\ Becomes([Top EXCEPT !.sub = n, !.pc = "end"])
            ELSE /\ hs' = H
                 /\ Becomes([Top EXCEPT !.sub = n, !.pc = "first"])
    /\ Same

PrimaryQuery(f, kind) ==
    {x \in Relations : /\ x.n = f.name
                       /\ x.s = SchemaOr(f.sch, f.name)
                       /\ x.pk = kind}

(* A query of the loop: found rows end it, and an error the function.      *)
PrimaryTry(kind, onEmpty) ==
    \E ok \in Answers :
      LET rows == PrimaryQuery(Top, kind)
          H == ExecDirect(hs, Top.sub, rows, ok)
      IN /\ hs' = IF ok THEN H ELSE Copied(H, Top.self, Top.sub)
         /\ IF ~ok THEN Goto("end")
            ELSE IF rows # {} THEN Goto("rows") ELSE Becomes(onEmpty)
         /\ Same

PrimaryFirst ==
    /\ At("PrimaryKeys", "first")
    /\ PrimaryTry("primary", [Top EXCEPT !.pc = "second"])

PrimarySecond ==
    /\ At("PrimaryKeys", "second")
    /\ PrimaryTry("old", IF AllowPublic(Top.sch)
                           THEN [Top EXCEPT !.sch = Current, !.pc = "first"]
                           ELSE [Top EXCEPT !.pc = "rows"])

PrimaryRows ==
    /\ At("PrimaryKeys", "rows")
    /\ \E o \in Fetches("PrimaryKeys", hs[Top.sub].rows) :
         LET H == Answered(hs, Top.self, o.got)
         IN /\ hs' = IF o.ok THEN H ELSE Told(H, Top.self)
            /\ Becomes([Top EXCEPT !.ok = o.ok, !.pc = "end"])
    /\ Same

PrimaryEnd ==
    /\ At("PrimaryKeys", "end")
    /\ Cleanup(hs, Top.ok)

-----------------------------------------------------------------------------
(* SQLForeignKeys on a server of version 8.1 or later: one query on the     *)
(* connection.  With both tables named the schema of the first is ignored. *)

ForeignKeysQuery(f) ==
    IF f.other # "none"
      THEN {x \in Relations : /\ x.refs # <<>>
                              /\ x.n = f.other
                              /\ x.s = SchemaOr(f.osch, f.other)
                              /\ f.name \in {"none", x.refs[2]}}
      ELSE {x \in Relations : x.refs = <<SchemaOr(f.sch, f.name), f.name>>}

(* A failed query does not mark the handle as finished.                    *)
ForeignKeysNew ==
    /\ At("ForeignKeysNew", "open")
    /\ LET H == Recycled(hs, Top.self)
       IN IF Top.name = "none" /\ Top.other = "none"
            THEN Return(FALSE, Told(H, Top.self))
            ELSE \E ok \in Answers :
                   IF ok THEN Cleanup(Answered(H, Top.self,
                                               ForeignKeysQuery(Top)), TRUE)
                         ELSE Return(FALSE, Told(H, Top.self))

-----------------------------------------------------------------------------
(* SQLForeignKeys on a server older than 8.1: the triggers that enforce    *)
(* the keys are read, and the primary keys of the tables they refer to.    *)

ForeignOldOpen ==
    /\ At("ForeignKeysOld", "open")
    /\ LET n == Unused(hs)
           H == Answered(Recycled(hs, Top.self), Top.self, {})
       IN /\ hs' = [H EXCEPT ![Top.self].status = "finished"] @@ (n :> Fresh)
          /\ Becomes([Top EXCEPT !.sub = n, !.pc =
                        IF Top.other # "none" THEN "of" ELSE "to"])
    /\ Same

(* Case 2: the foreign keys of a table.                                    *)
TriggersOf(f) ==
    {x \in Relations : /\ x.refs # <<>>
                       /\ x.n = f.other
                       /\ x.s = SchemaOr(f.osch, f.other)}

ForeignOldOf ==
    /\ At("ForeignKeysOld", "of")
    /\ \E ok \in Answers :
         LET n == Unused(hs)
             rows == TriggersOf(Top)
             H == ExecDirect(hs, Top.sub, rows, ok)
         IN IF ~ok THEN Cleanup(Copied(H, Top.self, Top.sub), FALSE)
            ELSE IF rows = {} THEN Cleanup(H, TRUE)
            ELSE /\ hs' = H @@ (n :> Fresh)
                 /\ Becomes([Top EXCEPT !.sub2 = n, !.todo = rows,
                                        !.pc = "next"])
                 /\ Same

(* The next trigger: one of another table than the one asked for is passed *)
(* over.  A fetch that fails ends the loop like the end of the rows.       *)
ForeignOldNext ==
    /\ At("ForeignKeysOld", "next")
    /\ \/ /\ Top.todo = {} \/ "ForeignKeysOld" \in FetchFaults
          /\ Cleanup(hs, TRUE)
       \/ \E x \in Top.todo :
            LET rest == [Top EXCEPT !.todo = @ \ {x}]
            IN /\ IF Top.name \notin {"none", x.refs[2]} THEN Becomes(rest)
                  ELSE Calls([rest EXCEPT !.keep = {x}, !.pc = "check"],
                             Frame("PrimaryKeys", Top.sub2,
                                   x.refs[1], x.refs[2]))
               /\ UNCHANGED hs
               /\ Same

(* The columns the trigger names have to be the primary key.               *)
ForeignOldCheck ==
    /\ At("ForeignKeysOld", "check")
    /\ IF ~Top.ok THEN Cleanup(Told(hs, Top.self), FALSE)
       ELSE LET mine == {x \in Top.keep : \E p \in hs[Top.sub2].rows :
                                            x.refs = <<p.s, p.n>>}
                H == Answered(hs, Top.self, hs[Top.self].rows \cup mine)
            IN /\ hs' = Recycled(H, Top.sub2)
               /\ Goto("next")
               /\ Same

(* Case 1: the foreign keys that refer to a table, of which the name of    *)
(* the primary key is wanted.                                              *)
TriggersTo(f) ==
    {x \in Relations : x.refs = <<SchemaOr(f.sch, f.name), f.name>>}

ForeignOldTo ==
    /\ At("ForeignKeysOld", "to")
    /\ \E ok \in Answers :
         LET n == Unused(hs)
             rows == TriggersTo(Top)
             H == ExecDirect(hs, Top.sub, rows, ok)
         IN IF ~ok \/ rows = {} THEN Cleanup(H, ok)
            ELSE /\ hs' = H @@ (n :> Fresh)
                 /\ Calls([Top EXCEPT !.sub2 = n, !.pc = "named"],
                          Frame("PrimaryKeys", n, SchemaOr(Top.sch, Top.name),
                                Top.name))
                 /\ Same

ForeignOldNamed ==
    /\ At("ForeignKeysOld", "named")
    /\ IF ~Top.ok THEN Cleanup(Told(hs, Top.self), FALSE)
       ELSE \E o \in Fetches("ForeignKeysOld", hs[Top.sub].rows) :
              Cleanup(Answered(Recycled(hs, Top.sub2), Top.self, o.got), TRUE)

-----------------------------------------------------------------------------
(* SQLProcedureColumns and SQLProcedures.                                  *)

ProcedureColumnsQuery(f) ==
    {x \in Procs : Matches(f.md, f.sch, x.s) /\ Matches(f.md, f.name, x.n)}

(* The names of columns are not looked for: asked for one, none is found.  *)
(* (A failed query's result is freed twice, here as it is freed once.)     *)
ProcedureColumnsExec ==
    /\ At("ProcedureColumns", "open")
    /\ \E ok \in Answers :
         LET H == Recycled(hs, Top.self)
         IN IF ~ok THEN Cleanup(Told(H, Top.self), FALSE)
            ELSE /\ hs' = Answered(H, Top.self, {})
                 /\ Becomes([Top EXCEPT !.keep = ProcedureColumnsQuery(Top),
                                        !.pc = "rows"])
                 /\ Same

ProcedureColumnsRows ==
    /\ At("ProcedureColumns", "rows")
    /\ Cleanup(Answered(hs, Top.self,
                        IF Top.other # "none" THEN {} ELSE Top.keep), TRUE)

Procedures ==
    /\ At("Procedures", "open")
    /\ \E ok \in Answers :
         LET H == Recycled(hs, Top.self)
             found == {x \in Procs :
                         /\ Matches(Top.md, SchemaOr(Top.sch, Top.name), x.s)
                         /\ Matches(Top.md, Top.name, x.n)}
         IN Cleanup(IF ok THEN Answered(H, Top.self, found)
                          ELSE Told(H, Top.self), ok)

-----------------------------------------------------------------------------
(* SQLTablePrivileges.  The owner has all privileges: every relation found *)
(* has rows.                                                               *)

TablePrivilegesOpen ==
    /\ At("TablePrivileges", "open")
    /\ hs' = [Answered(Recycled(hs, Top.self), Top.self, {})
                EXCEPT ![Top.self].status = "finished"]
    /\ Goto("exec")
    /\ Same

TablePrivilegesQuery(f) ==
    {x \in Relations : Matches(f.md, f.sch, x.s) /\ Matches(f.md, f.name, x.n)}

TablePrivilegesExec ==
    /\ At("TablePrivileges", "exec")
    /\ \E ok \in Answers :
         LET found == TablePrivilegesQuery(Top)
         IN IF ~ok THEN Return(FALSE, Told(hs, Top.self))
            ELSE /\ Becomes(IF found = {} /\ Top.public /\ AllowPublic(Top.sch)
                              THEN [Top EXCEPT !.sch = Current]
                              ELSE [Top EXCEPT !.keep = found, !.pc = "users"])
                 /\ UNCHANGED hs
                 /\ Same

TablePrivilegesUsers ==
    /\ At("TablePrivileges", "users")
    /\ \E ok \in Answers :
         Return(ok, IF ok THEN Answered(hs, Top.self, Top.keep)
                          ELSE Told(hs, Top.self))

-----------------------------------------------------------------------------
(* SQLGetTypeInfo makes its rows up without the server.                    *)

TypeRow == [s |-> "pg_catalog", n |-> "int4", k |-> "type"]

GetTypeInfo ==
    /\ At("TypeInfo", "open")
    /\ Cleanup(Answered(Recycled(hs, Top.self), Top.self, {TypeRow}), TRUE)

-----------------------------------------------------------------------------
(* The entry points.                                                       *)

(* SC_is_lower_case                                                        *)
Lowers(r) == r.md \/ r.lc

(* make_lstring_ifneeded: names with a lower-case letter are kept, unless  *)
(* identifiers are not case-sensitive.                                     *)
LowerIfNeeded(r, id) == IF Lowers(r) \/ AllUpper(id) THEN Lower(id) ELSE id

AsLower(r) == [x \in DOMAIN r |->
                 IF x \in Names THEN LowerIfNeeded(r, r[x]) ELSE r[x]]

(* SC_opencheck: a handle that waits for data, or whose result has rows.   *)
OpenCheck(h) ==
    \/ h.status = "executing"
    \/ h.status # "described" /\ h.has /\ h.rows # {}

Ask(fn, r) ==
    [Frame(fn, App, r.sch, r.name) EXCEPT
       !.osch = r.osch, !.other = r.other, !.md = r.md, !.typ = r.typ,
       !.public = fn = "Columns"]

(* SQLColumns and SQLColumnsW; the other entry points do the same with     *)
(* other names.  The wide ones lower the names at once if they are not     *)
(* case-sensitive.                                                         *)
Enter(fn, r) ==
    LET q == IF r.wide /\ Lowers(r) THEN AsLower(r) ELSE r
        refused == ~up \/ OpenCheck(hs[App])
    IN /\ app.pc = "idle"
       /\ app' = [pc |-> IF refused THEN "done" ELSE "in", req |-> r,
                  ok |-> FALSE, fn |-> fn, again |-> FALSE]
       /\ hs' = [hs EXCEPT ![App].err = refused]
       /\ stack' = IF refused THEN <<>> ELSE <<Ask(fn, q)>>
       /\ UNCHANGED <<db, up>>

Asked(fn, wide) == {r \in Requests : r.fn = fn /\ r.wide = wide}

SQLColumns == \E r \in Asked("Columns", FALSE) : Enter("Columns", r)
SQLColumnsW == \E r \in Asked("Columns", TRUE) : Enter("Columns", r)
SQLTables == \E r \in Asked("Tables", FALSE) : Enter("Tables", r)
SQLTablesW == \E r \in Asked("Tables", TRUE) : Enter("Tables", r)
SQLSpecialColumns == \E r \in Asked("Special", FALSE) : Enter("Special", r)
SQLSpecialColumnsW == \E r \in Asked("Special", TRUE) : Enter("Special", r)
SQLStatistics == \E r \in Asked("Statistics", FALSE) : Enter("Statistics", r)
SQLStatisticsW == \E r \in Asked("Statistics", TRUE) : Enter("Statistics", r)
SQLColumnPrivileges ==
    \E r \in Asked("ColumnPrivileges", FALSE) : Enter("ColumnPrivileges", r)
SQLColumnPrivilegesW ==
    \E r \in Asked("ColumnPrivileges", TRUE) : Enter("ColumnPrivileges", r)
SQLPrimaryKeys == \E r \in Asked("PrimaryKeys", FALSE) : Enter("PrimaryKeys", r)
SQLPrimaryKeysW == \E r \in Asked("PrimaryKeys", TRUE) : Enter("PrimaryKeys", r)

(* PGAPI_ForeignKeys: which one is called depends on the server's version. *)
ByVersion == {"ForeignKeysNew", "ForeignKeysOld"}

SQLForeignKeys ==
    \E fn \in ByVersion, r \in Asked("ForeignKeys", FALSE) : Enter(fn, r)
SQLForeignKeysW ==
    \E fn \in ByVersion, r \in Asked("ForeignKeys", TRUE) : Enter(fn, r)
SQLProcedureColumns ==
    \E r \in Asked("ProcedureColumns", FALSE) : Enter("ProcedureColumns", r)
SQLProcedureColumnsW ==
    \E r \in Asked("ProcedureColumns", TRUE) : Enter("ProcedureColumns", r)
SQLProcedures == \E r \in Asked("Procedures", FALSE) : Enter("Procedures", r)
SQLProceduresW == \E r \in Asked("Procedures", TRUE) : Enter("Procedures", r)
SQLTablePrivileges ==
    \E r \in Asked("TablePrivileges", FALSE) : Enter("TablePrivileges", r)
SQLTablePrivilegesW ==
    \E r \in Asked("TablePrivileges", TRUE) : Enter("TablePrivileges", r)
SQLGetTypeInfo == \E r \in Asked("TypeInfo", FALSE) : Enter("TypeInfo", r)
SQLGetTypeInfoW == \E r \in Asked("TypeInfo", TRUE) : Enter("TypeInfo", r)

(* A success without a row: the ANSI entry points ask again with the names *)
(* in lower case, if that changes one.  SQLTablePrivileges forgets that    *)
(* the names are no patterns.                                              *)
TryLower ==
    LET r == app.req
        q == [AsLower(r) EXCEPT !.md = @ /\ app.fn # "TablePrivileges"]
        again == /\ app.ok /\ ~app.again /\ ~r.wide
                 /\ hs[App].has /\ hs[App].rows = {}
                 /\ app.fn # "TypeInfo"
                 /\ AsLower(r) # r
    IN /\ app.pc = "back"
       /\ app' = [app EXCEPT !.pc = IF again THEN "in" ELSE "done",
                             !.again = again]
       /\ stack' = IF again THEN <<Ask(app.fn, q)>> ELSE <<>>
       /\ UNCHANGED <<db, up, hs>>

Idle == [pc |-> "idle", req |-> CHOOSE r \in Requests : TRUE,
         ok |-> FALSE, fn |-> "none", again |-> FALSE]

(* The application is done with the answer and closes the cursor.          *)
CloseCursor ==
    /\ app.pc = "done"
    /\ app' = Idle
    /\ hs' = Recycled(hs, App)
    /\ UNCHANGED <<db, up, stack>>

(* The session is lost: no query is answered any more.                     *)
Lose ==
    /\ up
    /\ up' = FALSE
    /\ UNCHANGED <<db, hs, stack, app>>

(* What the application may have done with the handle before.              *)
Priors == {Fresh,
           [Fresh EXCEPT !.status = "executing"],
           [Fresh EXCEPT !.status = "described", !.has = TRUE],
           [Fresh EXCEPT !.status = "finished", !.has = TRUE],
           [Fresh EXCEPT !.status = "finished", !.has = TRUE,
                         !.rows = {TypeRow}]}

Init ==
    /\ db \in Databases
    /\ up = TRUE
    /\ \E p \in Priors : hs = App :> p
    /\ stack = <<>>
    /\ app = Idle

EntryPoints ==
    \/ SQLColumns \/ SQLColumnsW \/ SQLTables \/ SQLTablesW
    \/ SQLSpecialColumns \/ SQLSpecialColumnsW
    \/ SQLStatistics \/ SQLStatisticsW
    \/ SQLColumnPrivileges \/ SQLColumnPrivilegesW
    \/ SQLPrimaryKeys \/ SQLPrimaryKeysW \/ SQLForeignKeys \/ SQLForeignKeysW
    \/ SQLProcedureColumns \/ SQLProcedureColumnsW
    \/ SQLProcedures \/ SQLProceduresW
    \/ SQLTablePrivileges \/ SQLTablePrivilegesW
    \/ SQLGetTypeInfo \/ SQLGetTypeInfoW

Driver ==
    \/ TablesOpen \/ TablesExec \/ TablesRows
    \/ ColumnsOpen \/ ColumnsExec \/ ColumnsBind \/ ColumnsRows \/ ColumnsEnd
    \/ SpecialOpen \/ SpecialExec \/ SpecialBind \/ SpecialKeys \/ SpecialEnd
    \/ StatisticsOpen \/ StatisticsColumns \/ StatisticsExec
    \/ StatisticsRows \/ StatisticsEnd
    \/ ColumnPrivileges
    \/ PrimaryOpen \/ PrimaryFirst \/ PrimarySecond \/ PrimaryRows
    \/ PrimaryEnd
    \/ ForeignKeysNew
    \/ ForeignOldOpen \/ ForeignOldOf \/ ForeignOldNext \/ ForeignOldCheck
    \/ ForeignOldTo \/ ForeignOldNamed
    \/ ProcedureColumnsExec \/ ProcedureColumnsRows \/ Procedures
    \/ TablePrivilegesOpen \/ TablePrivilegesExec \/ TablePrivilegesUsers
    \/ GetTypeInfo
    \/ TryLower

Next == EntryPoints \/ Driver \/ CloseCursor \/ Lose

Spec == Init /\ [][Next]_vars /\ WF_vars(Driver)

-----------------------------------------------------------------------------
(* Properties.                                                             *)

(* Every statement handle of the driver belongs to exactly one function in *)
(* progress, and none is left when the application has its answer: not     *)
(* after an error half way, nor after a search repeated in another schema  *)
(* (the calls of PGAPI_FreeStmt in info.c).                                *)
HandlesFreed ==
    LET owned(i) == {stack[i].sub, stack[i].sub2} \ {App}
    IN /\ DOMAIN hs = {App} \cup UNION {owned(i) : i \in 1..Len(stack)}
       /\ \A i, j \in 1..Len(stack) : i # j => owned(i) \cap owned(j) = {}

(* What the database has to say to a call, for one spelling and one schema *)
(* of the names: the ODBC meaning of the call, written without looking at  *)
(* how the queries are put together.                                       *)
Complete(fn, r) ==
    LET sch == IF r.sch = "none" /\ r.name # "none" THEN Current ELSE r.sch
        osch == IF r.osch = "none" THEN Current ELSE r.osch
        at(s, x) == Matches(r.md, s, x.s) /\ Matches(r.md, r.name, x.n)
        is(x) == x.s = sch /\ x.n = r.name
        keyed == {x \in Relations : x.pk # "none"}
    IN CASE fn = "Tables" -> IF r.typ = "schemas"
              THEN {[s |-> x.s, n |-> "none", k |-> "schema"] : x \in db}
              ELSE {x \in Relations : at(sch, x) /\ r.typ \in {"all", x.k}}
         [] fn = "Columns" -> {x \in Relations : at(sch, x)}
         [] fn = "Special" -> {x \in IF r.typ = "rowver" THEN Relations
                                     ELSE keyed : is(x)}
         [] fn \in {"Statistics", "PrimaryKeys"} -> {x \in keyed : is(x)}
         [] fn = "ColumnPrivileges" ->
              {x \in Relations : /\ r.sch \in {"none", x.s}
                                 /\ r.name \in {"none", x.n}}
         [] fn \in {"ForeignKeysNew", "ForeignKeysOld"} ->
              {x \in Relations :
                 /\ x.refs # <<>>
                 /\ IF r.other = "none" THEN x.refs = <<sch, r.name>>
                    ELSE /\ x.s = osch /\ x.n = r.other
                         /\ r.name \in {"none", x.refs[2]}
                         /\ fn = "ForeignKeysOld" => \E p \in keyed :
                              x.refs = <<p.s, p.n>>}
         [] fn = "ProcedureColumns" ->
              {x \in Procs : at(r.sch, x) /\ r.other = "none"}
         [] fn = "Procedures" -> {x \in Procs : at(sch, x)}
         [] fn = "TablePrivileges" -> {x \in Relations : at(r.sch, x)}
         [] fn = "TypeInfo" -> {TypeRow}

(* The ways the names may be read: as given, or in lower case; and the     *)
(* schema of the user may be public instead.                               *)
First == IF app.req.wide /\ Lowers(app.req) THEN AsLower(app.req) ELSE app.req
Readings ==
    LET spelled == {First, AsLower(app.req)}
    IN spelled \cup {[r EXCEPT !.sch = Current] :
                       r \in {r \in spelled : AllowPublic(r.sch)}}

Succeeded == app.pc = "done" /\ app.ok

(* A call that succeeds answers with all there is for the names as they    *)
(* were given, if there is anything: the second searches never hide it.    *)
(* Otherwise it answers with all there is for one other reading of them:   *)
(* never with part of it, nor with a mixture of two (the retries of info.c *)
(* and odbcapi.c, and the loops that make the results up).                 *)
AnswerTruth ==
    Succeeded =>
      /\ hs[App].has
      /\ LET first == Complete(app.fn, First)
         IN IF first # {} THEN hs[App].rows = first
            ELSE \E r \in Readings : hs[App].rows = Complete(app.fn, r)

(* The application learns why a call failed, however deep the function     *)
(* was that failed: SQL_ERROR comes with a message on its own handle       *)
(* (SC_error_copy and SC_full_error_copy).                                 *)
ErrorTold == app.pc = "done" /\ ~app.ok => hs[App].err

(* Every call returns: a search repeated in schema public is not repeated  *)
(* for ever, nor is the search in lower case.                              *)
CallsReturn == app.pc = "in" ~> app.pc = "done"
=============================================================================
