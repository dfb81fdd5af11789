----------------------------- MODULE MCBotSession -----------------------------
(* Two chunks of a dimension with two levels, and of one with only the      *)
(* upper of them, as the overworld and the nether have.                    *)
EXTENDS BotSession

MCLevels == [overworld |-> {-1, 0}, nether |-> {0}]
MCSections == {<<0, 0>>, <<1, 0>>, <<1, 1>>}
=============================================================================
