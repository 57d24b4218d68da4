---------------------------- MODULE MCUdpTransaction ----------------------------
(* Two requests, made in descending order of their ids, so that the second    *)
(* goes to the head of the list.                                              *)
EXTENDS UdpTransaction

TwoRequests == <<111, 110>>
===============================================================================
