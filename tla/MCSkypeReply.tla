---------------------------- MODULE MCSkypeReply ----------------------------
(* Model checking SkypeReply: the requests of each instance are in its cfg.  *)
EXTENDS SkypeReply, TLC
CONSTANTS a, b, c, main

\* As long as Miranda does not exit, and Skype answers.
RunningSpec == ReplyInit /\ [][ReplyNext /\ ~shutting']_replyVars /\ Fairness /\ Answers
=============================================================================
