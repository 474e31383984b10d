---------------------------- MODULE MCPlayground ----------------------------
(* Instances of Playground for TLC. *)
EXTENDS Playground

MCMaxChunks == <<2, 0>>
MCChunkTexts == {<<"text", "<think>", "text", "</thi">>, <<"<think>", "</thi">>,
                 <<"nk>", "text">>}
MCAnswers == {[content |-> <<>>, reasoning |-> <<"text">>],
              [content |-> <<"<think>", "text", "</think>", "text">>, reasoning |-> <<>>]}
=============================================================================
