------------------------------- MODULE MCShell -------------------------------
(* An instance of Shell for TLC. *)
EXTENDS Shell

MCLengths == {-1, 1}
MCNames == {"a", "b", "f", "g", "temp.dat"}
\* A directory with two levels under it, and one with a file beside it.
Deep == << >> :> "dir" @@ <<"a">> :> "dir" @@ <<"a", "b">> :> "dir" @@ <<"a", "b", "f">> :> "file"
Wide == << >> :> "dir" @@ <<"a">> :> "dir" @@ <<"a", "f">> :> "file" @@ <<"g">> :> "file"
\* One whose file has too long a path.
Long == << >> :> "dir" @@ <<"b">> :> "dir" @@ <<"b", "g">> :> "file"
MCTrees == {Deep, Wide, Long}
MCLongPaths == {<<"b", "g">>}
MCArgs == {<< << >> >>, << <<"a">>, <<"g">> >>}
================================================================================
