------------------------------- MODULE MCAccess -------------------------------
(* Small instances of Access for TLC: policies on this service and another, for *)
(* one subject or several, with roles that have a rank and one that has none.   *)
EXTENDS Access

Grant(subjects, services, roles) ==
    [subjects |-> subjects, services |-> services, roles |-> roles]

Policies == {Grant({"ann"}, {"is"}, {"Viewer"}),
             Grant({"ann", Local}, {"cos"}, {"Administrator"}),
             Grant({"ann", Unknown}, {"is", "cos"}, {"Editor", "Writer"})}
=============================================================================
