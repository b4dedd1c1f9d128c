---------------------------- MODULE MCBotRuntime ----------------------------
(* Small instances of BotRuntime for TLC.                                   *)
EXTENDS BotRuntime

(* The screens of a join as guest, a frame that covers the page, a lobby    *)
(* whose button says what the text of a lobby says.                         *)
Screens == {<<{sign}>> : sign \in Signs}
              \cup {<<{}>>, <<{"join_now"}, {"captcha"}>>, <<{"leave", "way_back"}>>,
                    <<{"lobby", "denied"}>>}
============================================================================
