---------------------------- MODULE MC_Answers ----------------------------
(* Two packages and one of the folders; packages with the fields that are  *)
(* read differently: texts, a number, lists, none, and one that is not     *)
(* UTF-8.  The tool prints a line, nothing, or a JSON object.              *)
EXTENDS Answers

MCPackages ==
    { Construct("RPM", data) : data \in
        { 1 :> "name" @@ 6 :> <<"group", "group">> @@ 7 :> 5 @@ 16 :> "text",
          9 :> <<"source">> @@ 10 :> "date",
          8 :> Garbled } }

MCOutputs == {Text("done"), Text(""), Json("{}")}
=============================================================================
