----------------------------- MODULE WriteOnce ------------------------------
(***************************************************************************)
(* A directory of write-once JSON files, as the evidence store and the     *)
(* research store keep them.  A directory maps the names of its files to   *)
(* their contents.  A file is written in place, so a process that dies     *)
(* while it writes leaves a file that exists and cannot be parsed: Torn.   *)
(***************************************************************************)
CONSTANT Torn   \* what is left of a file whose writer died

\* _write_once refuses a name whose file says something else, and cannot
\* parse a torn one.
Writable(dir, name, body) == name \in DOMAIN dir => dir[name] = body

Written(dir, name, body) ==
  [n \in DOMAIN dir \union {name} |-> IF n = name THEN body ELSE dir[n]]

\* A search reads every file of the directory and raises on a torn one.
Searchable(dir) == \A name \in DOMAIN dir : dir[name] # Torn

Readable(dir) == {name \in DOMAIN dir : dir[name] # Torn}
=============================================================================
