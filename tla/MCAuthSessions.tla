--------------------------- MODULE MCAuthSessions ---------------------------
(* An instance of AuthSessions for TLC: a web page and a bot chat of one    *)
(* user, whose account is deleted and whose replies get lost.               *)
EXTENDS AuthSessions, TLC

CONSTANTS ann, web, bot, c1, c2

WebAndBot == (web :> ann) @@ (bot :> ann)
CallEach  == (c1 :> web) @@ (c2 :> bot)

=============================================================================
