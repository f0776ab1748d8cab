---------------------------- MODULE MCChatWindow ----------------------------
\* ChatWindow for TLC: two chats with a short history.
EXTENDS ChatWindow

MCPast == <<"a", "a", "b", "a", "a">>
MCLongPast == <<"a", "a", "a", "a">>
=============================================================================
