------------------------- MODULE MCChannelListener --------------------------
(***************************************************************************)
(* Four updates of two chats: a message, one of another chat, an edit of   *)
(* the first, and a second message of the first chat.  A turn answers      *)
(* nothing, two parts, or two equal parts, which share one row.            *)
(***************************************************************************)
EXTENDS ChannelListener

CONSTANTS anna, bob, m1, m2, m3

Chats      == <<anna, bob, anna, anna>>
MessageIds == <<m1, m2, m1, m3>>

Replies == {<<>>, <<"no", "yes">>, <<"yes", "yes">>}
=============================================================================
