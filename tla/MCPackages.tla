---- MODULE MCPackages ----
(* Two requests for one name; or one request at a time, for a package in two
   spellings, in upper and lower case, or beside another that may depend on it. *)
EXTENDS Packages
CONSTANTS r1, r2, dash, Dash, score, other
MCNames == {dash, Dash, score, other}
MCLower == [n \in MCNames |-> IF n = Dash THEN dash ELSE n]
MCPackage == [n \in MCNames |-> IF n = other THEN other ELSE dash]
MCRequires == [p \in {dash, other} |-> IF p = other THEN {dash} ELSE {}]
MCWorkloads ==
    {[r \in {r1, r2} |-> {dash}]}
    \cup {[r \in {r1, r2} |-> IF r = r1 THEN {dash, n} ELSE {}] : n \in {Dash, score, other}}
====
