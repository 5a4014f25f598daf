---- MODULE MCJobCatalog ----
(* Two jobs, two names, two venvs of one directory and two requests at a time:
   each pair of requests meets on each row and each name. *)
EXTENDS JobCatalog, TLC

CONSTANTS n1, n2, v1

(* An update of each field *)
EachField ==
    {[Blank EXCEPT !.name = n1], [Blank EXCEPT !.name = n2], Blank,
     [Blank EXCEPT !.venv = v1], [Blank EXCEPT !.venv = None]}

Alike == Permutations(Requests) \cup Permutations(Ids)
====
