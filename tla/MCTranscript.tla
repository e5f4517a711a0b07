----------------------------- MODULE MCTranscript -----------------------------
(***************************************************************************)
(* Transcript with two offline segments, one online request and one ITN    *)
(* worker; the lists of the clients overlap that of the service, and some  *)
(* hotwords begin with another.                                            *)
(***************************************************************************)
EXTENDS Transcript

TwoLetters == {"a", "b"}
A  == <<"a">>
B  == <<"b">>
AB == <<"a", "b">>
BA == <<"b", "a">>

ServiceList == <<A, B>>
ClientLists == {<<>>, <<A, BA>>, <<AB, <<>>, B>>}
Said        == {<<>>, <<"a", Punct>>, <<"a", Sep, "b">>, <<"b", Sep, "a", Punct>>}
=============================================================================
