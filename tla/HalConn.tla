------------------------------- MODULE HalConn -------------------------------
(***************************************************************************)
(* What the HAL client is promised about A2DP connections (spec 4.4 and  *)
(* the CONN_STATE event of section 6): per peer address, the sequence of *)
(* CONN_STATE events follows the connection state machine                 *)
(*                                                                         *)
(*   DISCONNECTED -> CONNECTING -> CONNECTED -> DISCONNECTING             *)
(*        ^   \________________________/ |  \____________|                *)
(*        |_______ failure / drop _______|_______________|                *)
(*                                                                         *)
(* with an incoming connection going from DISCONNECTED to CONNECTED       *)
(* directly, and no event ever repeating the current state.  hal[a] is    *)
(* the state of the last event sent for a; one handler may send events   *)
(* for several addresses.                                                 *)
(***************************************************************************)
CONSTANT Addr

VARIABLE hal

States == {"DISCONNECTED", "CONNECTING", "CONNECTED", "DISCONNECTING"}

\* The transitions the HAL may observe.
Edges ==
    { <<"DISCONNECTED", "CONNECTING">>,     \* local connect
      <<"DISCONNECTED", "CONNECTED">>,      \* incoming connection
      <<"CONNECTING", "CONNECTED">>,        \* signaling up
      <<"CONNECTING", "DISCONNECTED">>,     \* connect failure or cancel
      <<"CONNECTED", "DISCONNECTING">>,     \* local disconnect
      <<"CONNECTED", "DISCONNECTED">>,      \* remote drop
      <<"DISCONNECTING", "DISCONNECTED">> } \* session torn down

Init == hal = [a \in Addr |-> "DISCONNECTED"]

\* One CONN_STATE event for one address.
Event(a, s) ==
    /\ <<hal[a], s>> \in Edges
    /\ hal' = [hal EXCEPT ![a] = s]

\* One handler's events for the addresses in DOMAIN t, each legal for its
\* address (bt_a2dp_unregister reports every device it frees).
Burst(t) ==
    /\ \A a \in DOMAIN t : <<hal[a], t[a]>> \in Edges
    /\ hal' = [a \in Addr |-> IF a \in DOMAIN t THEN t[a] ELSE hal[a]]

Next ==
    \/ \E a \in Addr, s \in States : Event(a, s)
    \/ \E S \in SUBSET Addr : \E t \in [S -> States] : Burst(t)

Spec == Init /\ [][Next]_hal

TypeOK == hal \in [Addr -> States]

=============================================================================
