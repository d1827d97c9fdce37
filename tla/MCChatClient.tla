---------------------------- MODULE MCChatClient ----------------------------
(* ChatClient with two names at the prompts and a few requests.            *)
EXTENDS ChatClient, TLC
=============================================================================
