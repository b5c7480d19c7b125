---------------------------- MODULE MCNoticeInbox ----------------------------
(* A small instance of NoticeInbox: every message concerns all users.      *)
EXTENDS NoticeInbox

CONSTANTS e1, e2, u1, u2

ToAll == [e \in OrderEvents |-> Readers]
==============================================================================
