----------------------------- MODULE MCCatalog -----------------------------
(* Small databases and the requests of the catalog functions.              *)
EXTENDS Catalog

Item(s, n, k, pk, refs) == [s |-> s, n |-> n, k |-> k, pk |-> pk, refs |-> refs]

Mine == Item("me", "emp", "table", "primary", <<>>)
Upper == Item("me", "EMP", "table", "none", <<"me", "emp">>)
View == Item("public", "emp", "view", "none", <<>>)
Old == Item("public", "EMP", "table", "old", <<"me", "emp">>)
Other == Item("app", "emp", "table", "primary", <<"public", "EMP">>)
Dept == Item("public", "dept", "table", "primary", <<"me", "EMP">>)
Func == Item("me", "emp", "proc", "none", <<>>)
Func2 == Item("public", "EMP", "proc", "none", <<>>)

MCDatabases ==
    {d \cup {Dept, Func, Func2} : d \in
       {{}, {Mine}, {View}, {Old}, {Other}, {Mine, View}, {Mine, Upper},
        {Old, Other}, {Upper, View, Old},
        {Mine, Upper, View, Old, Other}}}

Spelled == {"emp", "EMP", "Emp", "%"}
Schemas == {"none", "me", "ME", "app"}
Plain(fn, sch, name, typs) ==
    {Request(fn, w, s, n, "none", "none", ml[1], ml[2], t) :
       w \in BOOLEAN, s \in sch, n \in name, t \in typs,
       ml \in {<<TRUE, FALSE>>, <<FALSE, TRUE>>, <<FALSE, FALSE>>}}

MCRequests ==
    UNION {Plain("Tables", Schemas, Spelled \cup {"none"}, {"all", "table"}),
           Plain("Tables", {"%"}, {"none"}, {"schemas"}),
           Plain("Columns", Schemas, Spelled \cup {"none"}, {"all"}),
           Plain("Special", Schemas, {"emp", "EMP", "none"}, {"rowver"}),
           Plain("Special", {"none", "ME"}, {"dept"}, {"rowid"}),
           Plain("Statistics", Schemas, Spelled, {"all"}),
           Plain("ColumnPrivileges", Schemas, {"emp", "EMP", "none"}, {"all"}),
           Plain("PrimaryKeys", Schemas, Spelled \cup {"none"}, {"all"}),
           Plain("ProcedureColumns", Schemas, {"EMP", "%", "none"}, {"all"}),
           Plain("Procedures", Schemas, {"EMP", "%", "none"}, {"all"}),
           Plain("TypeInfo", {"none"}, {"none"}, {"all"}),
           {r \in Plain("TablePrivileges", Schemas, Spelled, {"all"}) :
              r.name # "%" \/ ~r.md},
           {[r EXCEPT !.other = "emp"] : r \in
              Plain("ProcedureColumns", {"me"}, {"emp"}, {"all"})},
           {[r EXCEPT !.osch = s, !.other = o] : s \in {"none", "ME", "app"},
              o \in {"emp", "EMP"}, r \in
              Plain("ForeignKeys", {"none"}, {"none", "emp", "EMP"}, {"all"})},
           Plain("ForeignKeys", Schemas, {"emp", "EMP"}, {"all"})}

AllFetchFaults ==
    {"Tables", "Columns", "Statistics", "PrimaryKeys"}
=============================================================================
