------------------------------ MODULE MCPipeline ------------------------------
(* Documents without a section, and of two sections for the chunking.      *)
EXTENDS Pipeline

Bodies  == {<<>>, <<"text">>, <<"text", "title", "text", "title">>}
Empty   == [signal : BOOLEAN, sections : {<<>>}]
TwoPart == [signal : {FALSE}, sections : [1..2 -> Bodies]]
MCDocs  == Empty \cup TwoPart
=============================================================================
