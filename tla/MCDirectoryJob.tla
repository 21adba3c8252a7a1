---------------------------- MODULE MCDirectoryJob ----------------------------
(* A model-checking instance of DirectoryJob: a tree of three directories that  *)
(* fits the frontier, one of them too deep.                                     *)
EXTENDS DirectoryJob, TLC

Listing(f, ds, s) == [files |-> f, dirs |-> ds, special |-> s]

MCTree == "r" :> Listing(1, <<"a", "c">>, 0) @@ "a" :> Listing(1, <<>>, 1)
            @@ "c" :> Listing(1, <<>>, 0)
===============================================================================
