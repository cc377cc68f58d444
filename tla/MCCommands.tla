----------------------------- MODULE MCCommands -----------------------------
(* An instance of AccountCommands for TLC. *)
EXTENDS AccountCommands

\* Commands that meet in a slot, a process or a confirmation, with a repeat to fill
\* the queue
Together == {{"video", "search", "convert", "dlstop"},
             {"broadcast", "confirmbroadcast", "broadcaststop", "repeat"},
             {"gift", "giftconfirm", "giftcancel", "repeat"},
             {"transfer", "cloudpass", "repeat", "repeatstop"}}

MCTraffic == UNION {[Msg -> kinds] : kinds \in Together}
=============================================================================
