----------------------------- MODULE MC_EventBus -----------------------------
(* Model-checking instance of EventBus: the heartbeat and one removing      *)
(* session publish; an "events --all" subscriber and an "events" subscriber *)
(* of service "web" listen.                                                 *)
EXTENDS EventBus, TLC

CONSTANTS heartbeat, remover, lAll, lWeb

MC_Publishers == {heartbeat, remover}
MC_PubNames == (heartbeat :> {"sys"}) @@ (remover :> {"web", "db"})
MC_Listeners == {lAll, lWeb}
MC_Filter == (lAll :> All) @@ (lWeb :> "web")
=============================================================================
