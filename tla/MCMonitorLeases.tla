-------------------------- MODULE MCMonitorLeases --------------------------
(* Two processes while one is slow, stops or dies; one process under every   *)
(* kind of request.  In each scene a request is made once.                   *)
EXTENDS MonitorLeases

CONSTANTS a, b \* the processes

Together == {{"stop"}, {"slow"}, {"crash"}}
Alone == {{"queue", "stop", "start"}, {"pause", "resume", "queue"},
          {"run once", "pause"}, {"pause", "stop"},
          {"break", "queue", "stop"},
          {"fail", "queue", "stop"}}
MCScenes == {[up |-> {a, b}, plan |-> p] : p \in Together}
            \cup {[up |-> {a}, plan |-> p] : p \in Alone}

\* two processes that nothing happens to: neither is slow, stopped or dies
UndisturbedScenes == {[up |-> {a, b}, plan |-> {}]}
=============================================================================
