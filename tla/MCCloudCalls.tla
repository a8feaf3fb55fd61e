---------------------------- MODULE MCCloudCalls ----------------------------
(* A small instance of CloudCalls. *)
EXTENDS CloudCalls, TLC

CONSTANTS k1, k2, k3

\* Two terminals are opened with the same ticket, beside a call that must raise.
MixedMethod ==
    (k1 :> "consume_terminal_ticket") @@ (k2 :> "consume_terminal_ticket")
        @@ (k3 :> "get_active_container_ids")
==============================================================================
