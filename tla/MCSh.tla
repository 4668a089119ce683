-------------------------------- MODULE MCSh --------------------------------
(* Instance of Sh: every line of at most three tokens, those of four tokens  *)
(* that redirect no output, and some longer ones.                            *)
EXTENDS Sh

MCTokens == {"a", "<", ">", "|", "&", ";", "(", ")"}

\* Longer lines: pipelines, lists and blocks in the fore- and background.
MCLong == { <<"a", "|", "a", "|", "a", ">>", "a">>,
            <<"(", "a", "|", "a", ")", "&">>,
            <<"a", "|", "(", "a", ";", "a", ")">>,
            <<"a", "&", ";", "a", "|", "a">> }

MCFirstLines == SeqOf(MCTokens, 3) \cup SeqOf(MCTokens \ {">"}, 4) \cup MCLong
MCLines == {EOF, Cd, <<"a">>}
=============================================================================
