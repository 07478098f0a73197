------------------------------ MODULE MC_Router ------------------------------
(* kes is a repository, 1c one whose entry is empty, ghost none.  A file may *)
(* have the name of any route, and of those that do not travel whole there   *)
(* is one of each kind.                                                      *)
EXTENDS Router

MCWords == {"files", "folders", "sign-in", "reindex", "noarch", "info", ".."}

Odd(name, up, get, info) == [name |-> name, up |-> up, get |-> get, info |-> info]

MCFileNames ==
    {Odd(w, 0, <<w>>, <<w, "info">>) : w \in MCWords \ {".."}}
    \cup
    { Odd("info?", 0, <<"info">>, <<"info">>),                    \* the rest is a query
      Odd("#", 0, <<Empty>>, <<Empty>>),
      Odd("noarch%2Finfo", 0, <<"noarch", "info">>, <<"noarch", "info", "info">>),
      Odd("info\\", 0, <<"info", Empty>>, <<"info", Empty, "info">>),
      Odd("%69nfo", 0, <<"info">>, <<"info", "info">>),
      Odd("..%2Finfo", 0, <<"..", "info">>, <<"..", "info", "info">>),
      Odd("..\\sign-in", 1, <<"sign-in">>, <<"sign-in", "info">>),
      Odd("..\\..\\folders", 2, <<"folders">>, <<"folders", "info">>),
      Odd("..\\..\\..\\kes\\folders", 3, <<"kes", "folders">>, <<"kes", "folders", "info">>),
      Odd("100%", 0, <<>>, <<>>) }                                  \* refused
=============================================================================
