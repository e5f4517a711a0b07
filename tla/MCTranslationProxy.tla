-------------------------- MODULE MCTranslationProxy --------------------------
(***************************************************************************)
(* TranslationProxy with one request: any text of up to four characters,   *)
(* or up to two texts out of a few that are cut in different ways.         *)
(***************************************************************************)
EXTENDS TranslationProxy

ShortTexts == UNION {[1..n -> {Letter, Mark, Dot, Blank}] : n \in 0..4}

SomeTexts ==
    {<<>>, <<Blank>>, <<Letter>>, <<Letter, Mark, Mark, Letter>>,
     <<Letter, Dot, Blank, Letter>>, <<Letter, Dot, Letter, Dot>>, <<Mark, Blank>>}

UpToTwo == {<<>>} \cup {<<s>> : s \in ShortTexts} \cup {<<s, t>> : s, t \in SomeTexts}
=============================================================================
