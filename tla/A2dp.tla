-------------------------------- MODULE A2dp --------------------------------
(***************************************************************************)
(* The A2DP source coordinator of android/a2dp.c: the device table and    *)
(* its connection state machine, the endpoint registry, the setup list    *)
(* and the AVDTP indication / confirmation callbacks that drive them.     *)
(*                                                                         *)
(* Every handler of a2dp.c runs to completion on the daemon's single      *)
(* event loop, so each one is one atomic action.  The inputs of the three *)
(* sources (HAL IPC, audio IPC, AVDTP engine and BtIO callbacks) arrive   *)
(* in any order; that interleaving is the model's nondeterminism.         *)
(*                                                                         *)
(* The AVDTP engine (android/avdtp.c) is not part of the model; it is the *)
(* environment, represented by what a2dp.c relies on: the streams it has  *)
(* configured (one per local SEP), the requests awaiting a confirmation   *)
(* and the DISCOVER in flight.  A session the coordinator drops takes all *)
(* of these with it.                                                      *)
(*                                                                         *)
(* Memory: the code frees devices, endpoints and presets and keeps        *)
(* pointers to them.  A device record is named by its address and an     *)
(* incarnation number (its pointer identity); an endpoint by its index in *)
(* the endpoints list.  When a handler dereferences freed memory or NULL  *)
(* the behaviour is undefined: the model records it in `fault` and the    *)
(* daemon takes no further step.                                          *)
(***************************************************************************)
EXTENDS Naturals, Sequences, FiniteSets, A2dpCodec

CONSTANTS
    Addr,          \* peer BD_ADDRs
    MaxGen,        \* bound: device records created per address
    MaxEndpoints,  \* bound: AUDIO_OP_OPEN commands accepted
    IdMod,         \* 2^8: endpoint ids are uint8_t
    Opens,         \* OPEN commands: a codec and its presets, capabilities first
    RemoteSeps,    \* sink SEPs a peer may report in DISCOVER
    Proposals,     \* capability lists a peer may send in SET_CONFIGURATION
    AudioIds       \* endpoint ids the audio client may name

Entry == [cat : {"transport", "codec", "delay"}, codec : Codecs, conf : Blob]

ASSUME ConstAssumption ==
    /\ MaxGen \in Nat \ {0}
    /\ MaxEndpoints \in Nat
    /\ IdMod \in Nat \ {0}
    /\ Opens \subseteq [codec : Codecs, presets : Seq(Blob) \ {<<>>}]
    /\ RemoteSeps \subseteq [codec : Codecs, caps : Blob]
    /\ Proposals \subseteq Seq(Entry)
    /\ AudioIds \subseteq 0..(IdMod - 1)

\* HAL_A2DP_STATE_*
States == {"DISCONNECTED", "CONNECTING", "CONNECTED", "DISCONNECTING"}

DevId == Addr \X (1..MaxGen)
EpIdx == 1..MaxEndpoints
Ops == {"setconf", "open", "start", "suspend", "close"}
Faults == {"none", "use_after_free", "null_deref", "oversized_copy"}

\* An endpoint is "live", "closed" (freed by AUDIO_OP_CLOSE, still in the
\* list) or "unowned" (registered with id 0, its presets freed).
EpRec == [id : 0..(IdMod - 1), codec : Codecs, caps : Blob,
          presets : Seq(Blob), st : {"live", "closed", "unowned"}]
SetupRec == [dev : DevId, ep : EpIdx, preset : Blob, shared : BOOLEAN]
StreamRec == [ep : EpIdx, dev : DevId, conf : Blob]
PendRec == [op : Ops, ep : EpIdx, dev : DevId]
NoBlob == [len |-> 0, frequency |-> {}, channel_mode |-> {},
           block_length |-> {}, subbands |-> {}, allocation_method |-> {}]
NoRsp == [id |-> IdMod, preset |-> NoBlob]

VARIABLES
    tracked,       \* addresses that have a record in `devices`
    devState,      \* dev->state
    io,            \* what dev->io refers to: "none", "sig" or "trans"
    session,       \* dev->session != NULL
    gen,           \* incarnation of the latest record of each address
    halState,      \* the last CONN_STATE the HAL was sent, per address
    eps,           \* the `endpoints` list
    setups,        \* the `setups` list
    streams,       \* engine: configured streams
    pend,          \* engine: requests awaiting a confirmation
    discovering,   \* engine: devices with a DISCOVER in flight
    transPending,  \* BtIO: devices with a transport connect in flight
    shutdownReq,   \* devices on whose session avdtp_shutdown was called
    openRsp,       \* the last OPEN_STREAM reply to the audio client
    fault          \* undefined behaviour the daemon has executed

devVars == <<tracked, devState, io, session, gen, halState>>
engVars == <<streams, pend, discovering, transPending, shutdownReq>>
vars == <<devVars, eps, setups, engVars, openRsp, fault>>

Dev(a) == <<a, gen[a]>>
IsLive(d) == d[1] \in tracked /\ gen[d[1]] = d[2]
DropAt(s, i) == [j \in 1..(Len(s) - 1) |-> IF j < i THEN s[j] ELSE s[j + 1]]

-----------------------------------------------------------------------------
(* Lookups over the lists, with the memory each of them reads.            *)

\* find_setup(id): the first setup whose endpoint has the id.  The loop
\* reads setup->endpoint->id of every setup it passes.
FindSetup(id) == FirstIndex(setups, LAMBDA s : eps[s.ep].id = id)
FindSetupReadsFreed(id) ==
    \E i \in 1..Len(setups) :
        /\ FindSetup(id) \in {0} \cup i..Len(setups)
        /\ eps[setups[i].ep].st = "closed"

\* find_setup_by_device(dev): compares pointers only.
FindSetupByDevice(d) == FirstIndex(setups, LAMBDA s : s.dev = d)

\* find_endpoint(id), reading endpoint->id of every endpoint it passes.
FindEndpoint(id) == FirstIndex(eps, LAMBDA e : e.id = id)
FindEndpointReadsFreed(id) ==
    \E e \in 1..Len(eps) :
        /\ FindEndpoint(id) \in {0} \cup e..Len(eps)
        /\ eps[e].st = "closed"

-----------------------------------------------------------------------------
(* Building blocks shared by several handlers.                            *)

\* The daemon has not executed undefined behaviour.
Running == fault = "none"

Crash(kind) ==
    /\ fault' = kind
    /\ UNCHANGED <<devVars, eps, setups, engVars, openRsp>>

\* bt_a2dp_notify_state(dev, s) for s # dev->state and s # DISCONNECTED.
Notify(a, s) ==
    /\ devState' = [devState EXCEPT ![a] = s]
    /\ halState' = [halState EXCEPT ![a] = s]

\* bt_a2dp_notify_state(dev, DISCONNECTED) from a state other than
\* DISCONNECTED, and a2dp_device_free: the session is unreferenced (the
\* engine drops its streams, requests and DISCOVER), dev->io is shut down
\* (cancelling a transport connect in flight on it) and the record leaves
\* the list.
NotifyDisconnected(a) ==
    /\ Notify(a, "DISCONNECTED")
    /\ tracked' = tracked \ {a}
    /\ io' = [io EXCEPT ![a] = "none"]
    /\ session' = [session EXCEPT ![a] = FALSE]
    /\ streams' = {s \in streams : s.dev # Dev(a)}
    /\ pend' = {p \in pend : p.dev # Dev(a)}
    /\ discovering' = discovering \ {Dev(a)}
    /\ transPending' = IF io[a] = "trans" THEN transPending \ {Dev(a)}
                                          ELSE transPending
    /\ shutdownReq' = shutdownReq \ {Dev(a)}
    /\ UNCHANGED <<gen, eps, setups, openRsp, fault>>

\* setup_remove(setups[i]): setup_free keeps the preset when it is one of
\* the endpoint's (a pointer the endpoint owns) and frees it otherwise.
SetupRemove(i) == setups' = DropAt(setups, i)

-----------------------------------------------------------------------------
(* HAL IPC.                                                                *)

\* bt_a2dp_connect: a new record, an L2CAP connect to PSM 0x19 and
\* CONNECTING.  Refusals (address tracked, bt_io_connect failing) change
\* nothing.
HalConnect(a) ==
    /\ Running
    /\ a \notin tracked
    /\ gen[a] < MaxGen
    /\ tracked' = tracked \cup {a}
    /\ gen' = [gen EXCEPT ![a] = @ + 1]
    /\ io' = [io EXCEPT ![a] = "sig"]
    /\ Notify(a, "CONNECTING")
    /\ UNCHANGED <<session, eps, setups, engVars, openRsp, fault>>

\* Mutant: bt_a2dp_disconnect announcing DISCONNECTING without calling
\* avdtp_shutdown.
HalDisconnectNoShutdown(a) ==
    /\ Running
    /\ a \in tracked
    /\ \/ /\ io[a] # "none"
          /\ devState[a] # "DISCONNECTED"
          /\ NotifyDisconnected(a)
       \/ /\ io[a] = "none"
          /\ ~session[a]
          /\ Crash("null_deref")
       \/ /\ io[a] = "none"
          /\ session[a]
          /\ Notify(a, "DISCONNECTING")
          /\ UNCHANGED <<tracked, io, session, gen, eps, setups, engVars,
                         openRsp, fault>>

\* Mutant: bt_a2dp_disconnect with avdtp_shutdown(NULL) returning quietly.
HalDisconnectNullSession(a) ==
    /\ Running
    /\ a \in tracked
    /\ \/ /\ io[a] # "none"
          /\ devState[a] # "DISCONNECTED"
          /\ NotifyDisconnected(a)
       \/ /\ io[a] = "none"
          /\ shutdownReq' = IF session[a] THEN shutdownReq \cup {Dev(a)}
                                          ELSE shutdownReq
          /\ Notify(a, "DISCONNECTING")
          /\ UNCHANGED <<tracked, io, session, gen, eps, setups, streams,
                         pend, discovering, transPending, openRsp, fault>>

\* bt_a2dp_disconnect: with dev->io set the record is dropped at once;
\* otherwise the session is shut down (avdtp_shutdown dereferences it) and
\* the device waits in DISCONNECTING for the disconnect callback.
HalDisconnect(a) ==
    /\ Running
    /\ a \in tracked
    /\ \/ /\ io[a] # "none"
          /\ devState[a] # "DISCONNECTED"
          /\ NotifyDisconnected(a)
       \/ /\ io[a] = "none"
          /\ ~session[a]
          /\ Crash("null_deref")
       \/ /\ io[a] = "none"
          /\ session[a]
          /\ shutdownReq' = shutdownReq \cup {Dev(a)}
          /\ Notify(a, "DISCONNECTING")
          /\ UNCHANGED <<tracked, io, session, gen, eps, setups, streams,
                         pend, discovering, transPending, openRsp, fault>>

-----------------------------------------------------------------------------
(* Signaling channel.                                                      *)

\* Mutant: signaling_connect_cb keeping the channel in dev->io once the
\* session owns it.
SignalingConnectCbKeepsIo(a) ==
    /\ Running
    /\ io[a] = "sig"
    /\ \/ NotifyDisconnected(a)
       \/ /\ session' = [session EXCEPT ![a] = TRUE]
          /\ discovering' = IF devState[a] = "CONNECTING"
                            THEN discovering \cup {Dev(a)}
                            ELSE discovering
          /\ Notify(a, "CONNECTED")
          /\ UNCHANGED <<tracked, io, gen, eps, setups, streams, pend,
                         transPending, shutdownReq, openRsp, fault>>

\* Mutant: signaling_connect_cb returning on a connect error without
\* notifying DISCONNECTED.
SignalingConnectCbSilentError(a) ==
    /\ Running
    /\ io[a] = "sig"
    /\ \/ /\ io' = [io EXCEPT ![a] = "none"]
          /\ UNCHANGED <<tracked, devState, session, gen, halState, eps,
                         setups, engVars, openRsp, fault>>
       \/ /\ session' = [session EXCEPT ![a] = TRUE]
          /\ io' = [io EXCEPT ![a] = "none"]
          /\ discovering' = IF devState[a] = "CONNECTING"
                            THEN discovering \cup {Dev(a)}
                            ELSE discovering
          /\ Notify(a, "CONNECTED")
          /\ UNCHANGED <<tracked, gen, eps, setups, streams, pend,
                         transPending, shutdownReq, openRsp, fault>>

\* signaling_connect_cb on the outbound channel.  Every failure (connect
\* error, bt_io_get, avdtp_new, avdtp_discover) ends in DISCONNECTED.
SignalingConnectCb(a) ==
    /\ Running
    /\ io[a] = "sig"
    /\ \/ NotifyDisconnected(a)
       \/ /\ session' = [session EXCEPT ![a] = TRUE]
          /\ io' = [io EXCEPT ![a] = "none"]
          /\ discovering' = IF devState[a] = "CONNECTING"
                            THEN discovering \cup {Dev(a)}
                            ELSE discovering
          /\ Notify(a, "CONNECTED")
          /\ UNCHANGED <<tracked, gen, eps, setups, streams, pend,
                         transPending, shutdownReq, openRsp, fault>>

\* connect_cb from a peer without a record: a new record, whose state is
\* 0 (DISCONNECTED), handed to signaling_connect_cb.  There a failure
\* notifies DISCONNECTED, which is the current state: nothing is sent and
\* the record is not freed.  On success no DISCOVER is issued.
IncomingSignaling(a) ==
    /\ Running
    /\ a \notin tracked
    /\ gen[a] < MaxGen
    /\ tracked' = tracked \cup {a}
    /\ gen' = [gen EXCEPT ![a] = @ + 1]
    /\ \/ UNCHANGED <<devState, halState, session>>
       \/ /\ session' = [session EXCEPT ![a] = TRUE]
          /\ Notify(a, "CONNECTED")
    /\ UNCHANGED <<io, eps, setups, engVars, openRsp, fault>>

\* transport_connect_cb(chan, NULL, dev) once the channel is up: the
\* channel becomes the transport of the device's first setup, after which
\* the transport connect callbacks in flight are tp.  setup->stream is the
\* engine's and is freed once the engine released it.  Without a setup,
\* or when bt_io_get or avdtp_stream_set_transport fail, the callback
\* returns without a change.
TransportBind(d, tp) ==
    LET i == FindSetupByDevice(d) IN
    /\ i # 0
    /\ \/ /\ ~\E s \in streams : s.ep = setups[i].ep /\ s.dev = d
          /\ Crash("use_after_free")
       \/ /\ \E s \in streams : s.ep = setups[i].ep /\ s.dev = d
          /\ io' = [io EXCEPT ![d[1]] = "none"]
          /\ transPending' = tp
          /\ UNCHANGED <<tracked, devState, session, gen, halState, eps,
                         setups, streams, pend, discovering, shutdownReq,
                         openRsp, fault>>

\* connect_cb from a peer that has a record: transport_connect_cb.
IncomingTransport(a) ==
    /\ Running
    /\ a \in tracked
    /\ TransportBind(Dev(a), transPending)

\* transport_connect_cb on the outbound transport channel.  A connect
\* error, like every early return, only consumes the callback.
TransportConnectCb(d) ==
    /\ Running
    /\ d \in transPending
    /\ \/ /\ transPending' = transPending \ {d}
          /\ UNCHANGED <<devVars, eps, setups, streams, pend, discovering,
                         shutdownReq, openRsp, fault>>
       \/ TransportBind(d, transPending \ {d})

\* disconnect_cb: the engine tore the session down.
DisconnectCb(a) ==
    /\ Running
    /\ a \in tracked
    /\ session[a]
    /\ NotifyDisconnected(a)

\* avdtp_shutdown(session) where discover_cb gives up: the engine will
\* close the session and call disconnect_cb.
DiscoverShutdown(d) ==
    /\ discovering' = discovering \ {d}
    /\ shutdownReq' = shutdownReq \cup {d}
    /\ UNCHANGED <<devVars, eps, setups, streams, pend, transPending,
                   openRsp, fault>>

\* discover_cb: the first endpoint (in list order) for which the peer
\* reported a sink SEP of its codec, then select_configuration: the first
\* preferred preset that SEP's capabilities admit, SET_CONFIGURATION with
\* it, and a setup holding the endpoint's own preset.  The loop reads
\* endpoint->sep of every endpoint it passes; select_preset reads the
\* endpoint's presets.  The reported SEPs R are the environment's choice.
DiscoverCb(d) ==
    /\ Running
    /\ d \in discovering
    /\ \E R \in SUBSET RemoteSeps :
       LET e == FirstIndex(eps, LAMBDA ep : \E r \in R : r.codec = ep.codec)
           passed == IF e = 0 THEN 1..Len(eps) ELSE 1..e
       IN
       \/ /\ \E k \in passed : eps[k].st = "closed"
          /\ Crash("use_after_free")
       \/ /\ \A k \in passed : eps[k].st # "closed"
          /\ e = 0
          /\ DiscoverShutdown(d)
       \/ /\ \A k \in passed : eps[k].st # "closed"
          /\ e # 0
          /\ eps[e].st = "unowned"
          /\ Crash("use_after_free")
       \/ /\ \A k \in passed : eps[k].st # "closed"
          /\ e # 0
          /\ eps[e].st = "live"
          /\ \E r \in R :
             LET i == SelectPreset(eps[e].presets, r.codec, r.caps) IN
             /\ r.codec = eps[e].codec
             /\ \/ /\ i = 0
                   /\ DiscoverShutdown(d)
                \* avdtp_set_configuration fails, always when the SEP is in use
                \/ /\ i # 0
                   /\ DiscoverShutdown(d)
                \/ /\ i # 0
                   /\ ~\E s \in streams : s.ep = e
                   /\ streams' = streams \cup
                                   {[ep |-> e, dev |-> d,
                                     conf |-> eps[e].presets[i]]}
                   /\ pend' = pend \cup {[op |-> "setconf", ep |-> e, dev |-> d]}
                   /\ setups' = Append(setups,
                                  [dev |-> d, ep |-> e,
                                   preset |-> eps[e].presets[i],
                                   shared |-> TRUE])
                   /\ discovering' = discovering \ {d}
                   /\ UNCHANGED <<devVars, eps, transPending, shutdownReq,
                                  openRsp, fault>>

-----------------------------------------------------------------------------
(* Audio IPC.                                                              *)

\* Mutant: register_endpoint computing the id in a wider integer.
AudioOpenWideId(cmd) ==
    /\ Running
    /\ Len(eps) < MaxEndpoints
    /\ eps' = Append(eps, [id |-> Len(eps) + 1, codec |-> cmd.codec,
                           caps |-> Head(cmd.presets),
                           presets |-> Tail(cmd.presets), st |-> "live"])
    /\ UNCHANGED <<devVars, setups, engVars, openRsp, fault>>

\* bt_audio_open with a well-formed command (codec, presets), and
\* register_endpoint:
\* id = g_slist_length(endpoints) + 1 as a uint8_t; the SEP is registered
\* and the endpoint appended before the id is tested.  An id of 0 makes
\* bt_audio_open free the presets the endpoint now points to.  Commands
\* without presets or with a malformed list are refused without a change.
AudioOpen(cmd) ==
    /\ Running
    /\ Len(eps) < MaxEndpoints
    /\ LET id == (Len(eps) + 1) % IdMod IN
       eps' = Append(eps, [id |-> id, codec |-> cmd.codec,
                           caps |-> Head(cmd.presets),
                           presets |-> Tail(cmd.presets),
                           st |-> IF id = 0 THEN "unowned" ELSE "live"])
    /\ UNCHANGED <<devVars, setups, engVars, openRsp, fault>>

\* bt_audio_close and unregister_endpoint: the SEP is unregistered (the
\* engine drops its stream and requests) and the endpoint, its
\* capabilities and presets are freed; the endpoint stays in the list.
\* On an unowned endpoint preset_free(endpoint->caps) first reads the
\* data pointer of the capabilities bt_audio_open already freed.
AudioClose(id) ==
    LET e == FindEndpoint(id) IN
    /\ Running
    /\ \/ /\ FindEndpointReadsFreed(id)
          /\ Crash("use_after_free")
       \/ /\ ~FindEndpointReadsFreed(id)
          /\ e # 0
          /\ eps[e].st = "unowned"
          /\ Crash("use_after_free")
       \/ /\ ~FindEndpointReadsFreed(id)
          /\ e # 0
          /\ eps[e].st = "live"
          /\ eps' = [eps EXCEPT ![e].st = "closed"]
          /\ streams' = {s \in streams : s.ep # e}
          /\ pend' = {p \in pend : p.ep # e}
          /\ UNCHANGED <<devVars, setups, discovering, transPending, shutdownReq,
                         openRsp, fault>>

\* A handler's call of find_setup(id) when it reads a freed endpoint.
LookupCrash(id) ==
    /\ FindSetupReadsFreed(id)
    /\ Crash("use_after_free")

\* bt_stream_open: reply with the preset of the endpoint's first setup.
StreamOpen(id) ==
    LET i == FindSetup(id) IN
    /\ Running
    /\ \/ LookupCrash(id)
       \/ /\ ~FindSetupReadsFreed(id)
          /\ i # 0
          /\ openRsp' = [id |-> id, preset |-> setups[i].preset]
          /\ UNCHANGED <<devVars, eps, setups, engVars, fault>>

\* bt_stream_close / bt_stream_resume / bt_stream_suspend: the request op
\* on the first setup's stream through setup->dev->session.  The engine
\* refuses a stream it no longer has; a refusal changes nothing.
StreamRequest(id, op) ==
    LET i == FindSetup(id) IN
    /\ Running
    /\ \/ LookupCrash(id)
       \/ /\ ~FindSetupReadsFreed(id)
          /\ i # 0
          /\ ~IsLive(setups[i].dev)
          /\ Crash("use_after_free")
       \/ /\ ~FindSetupReadsFreed(id)
          /\ i # 0
          /\ IsLive(setups[i].dev)
          /\ \E s \in streams : s.ep = setups[i].ep /\ s.dev = setups[i].dev
          /\ pend' = pend \cup {[op |-> op, ep |-> setups[i].ep,
                                  dev |-> setups[i].dev]}
          /\ UNCHANGED <<devVars, eps, setups, streams, discovering,
                         transPending, shutdownReq, openRsp, fault>>

StreamClose(id) == StreamRequest(id, "close")
StreamResume(id) == StreamRequest(id, "start")
StreamSuspend(id) == StreamRequest(id, "suspend")

-----------------------------------------------------------------------------
(* AVDTP indications: the peer, on the session of live device d, on the  *)
(* local SEP of endpoint e (registered, so not closed).                   *)

PeerOn(e, d) ==
    /\ IsLive(d)
    /\ session[d[1]]
    /\ e \in 1..Len(eps)
    /\ eps[e].st # "closed"

HasStream(e, d) == \E s \in streams : s.ep = e /\ s.dev = d

\* sep_getcap_ind copies endpoint->caps.
GetCapInd(e, d) ==
    /\ Running
    /\ PeerOn(e, d)
    /\ eps[e].st = "unowned"
    /\ Crash("use_after_free")

\* Mutant: sep_setconf_ind ignoring the result of check_config.
SetConfIndUnchecked(e, d, prop) ==
    LET codecs == {k \in 1..Len(prop) : prop[k].cat = "codec"}
        last == CHOOSE k \in codecs : \A j \in codecs : j <= k
    IN
    /\ Running
    /\ PeerOn(e, d)
    /\ ~\E s \in streams : s.ep = e
    /\ eps[e].st = "live"
    /\ \A k \in 1..Len(prop) :
          prop[k].cat # "delay" /\ (k \in codecs => prop[k].codec = eps[e].codec)
    /\ codecs # {}
    /\ streams' = streams \cup {[ep |-> e, dev |-> d, conf |-> prop[last].conf]}
    /\ setups' = Append(setups, [dev |-> d, ep |-> e, preset |-> prop[last].conf,
                                 shared |-> FALSE])
    /\ UNCHANGED <<devVars, eps, pend, discovering, transPending,
                   shutdownReq, openRsp, fault>>

\* sep_setconf_ind on a SEP the engine has free.  The loop stops at a
\* DELAY_REPORTING entry, at a codec entry of another codec and at one
\* check_config refuses; the setup takes the last codec entry's
\* configuration in a preset of its own.  Refusals change nothing.  Each
\* codec entry is first copied with g_memdup(data, preset->len), the
\* int8_t length converted to a guint: a negative one is a copy of some
\* 4 GiB that aborts the daemon or reads past the packet.  On an unowned
\* endpoint check_config then reads the freed presets.
SetConfInd(e, d, prop) ==
    LET ep == eps[e]
        IsCodec(k) == prop[k].cat = "codec"
        Stops(k) == \/ prop[k].cat = "delay"
                    \/ /\ IsCodec(k)
                       /\ \/ prop[k].codec # ep.codec
                          \/ ~CheckConfig(ep.codec, ep.caps, ep.presets,
                                          prop[k].conf)
        Reached(k) == \A j \in 1..(k - 1) : ~Stops(j)
        Copied(k) == IsCodec(k) /\ prop[k].codec = ep.codec
        Negative(k) == Int8(prop[k].conf.len) < 0
        codecs == {k \in 1..Len(prop) : IsCodec(k)}
        last == CHOOSE k \in codecs : \A j \in codecs : j <= k
    IN
    /\ Running
    /\ PeerOn(e, d)
    /\ ~\E s \in streams : s.ep = e
    /\ \/ \E k \in 1..Len(prop) :
          /\ Reached(k) /\ Copied(k)
          /\ Negative(k) \/ ep.st = "unowned"
          /\ ep.st = "unowned" => \A j \in 1..(k - 1) : ~Copied(j)
          /\ Crash(IF Negative(k) THEN "oversized_copy" ELSE "use_after_free")
       \/ /\ ep.st = "live"
          /\ \A k \in 1..Len(prop) : ~Stops(k) /\ ~(Copied(k) /\ Negative(k))
          /\ codecs # {}
          /\ streams' = streams \cup
                          {[ep |-> e, dev |-> d, conf |-> prop[last].conf]}
          /\ setups' = Append(setups, [dev |-> d, ep |-> e,
                                       preset |-> prop[last].conf,
                                       shared |-> FALSE])
          /\ UNCHANGED <<devVars, eps, pend, discovering, transPending,
                         shutdownReq, openRsp, fault>>

\* sep_open_ind, sep_start_ind, sep_suspend_ind: accept when find_setup
\* finds a setup for the endpoint's id; no state changes.
StreamInd(e, d) ==
    /\ Running
    /\ PeerOn(e, d)
    /\ HasStream(e, d)
    /\ LookupCrash(eps[e].id)

\* sep_close_ind: remove the first setup with the endpoint's id; the
\* engine then closes the stream.
CloseInd(e, d) ==
    LET i == FindSetup(eps[e].id) IN
    /\ Running
    /\ PeerOn(e, d)
    /\ HasStream(e, d)
    /\ \/ LookupCrash(eps[e].id)
       \/ /\ ~FindSetupReadsFreed(eps[e].id)
          /\ i # 0
          /\ SetupRemove(i)
          /\ streams' = {s \in streams : ~(s.ep = e /\ s.dev = d)}
          /\ UNCHANGED <<devVars, eps, pend, discovering, transPending,
                         shutdownReq, openRsp, fault>>

-----------------------------------------------------------------------------
(* AVDTP confirmations of the requests in `pend`.                         *)

\* setup_remove_by_id(id), in a handler after which the engine's requests
\* are pd and its streams strm.
RemoveById(id, pd, strm) ==
    LET i == FindSetup(id) IN
    \/ LookupCrash(id)
    \/ /\ ~FindSetupReadsFreed(id)
       /\ setups' = IF i = 0 THEN setups ELSE DropAt(setups, i)
       /\ pend' = pd
       /\ streams' = strm
       /\ UNCHANGED <<devVars, eps, discovering, transPending, shutdownReq,
                      openRsp, fault>>

\* A confirmation that only consumes its request.
Consume(p) ==
    /\ pend' = pend \ {p}
    /\ UNCHANGED <<devVars, eps, setups, streams, discovering, transPending,
                   shutdownReq, openRsp, fault>>

WithoutStream(p) == {s \in streams : ~(s.ep = p.ep /\ s.dev = p.dev)}

\* sep_setconf_cfm: on error the setup goes (and the engine frees the
\* stream); on success avdtp_open is issued, and the setup goes if that
\* fails.  Without a setup for the id the callback returns.
SetConfCfm(p) ==
    LET id == eps[p.ep].id
        i == FindSetup(id)
    IN
    /\ Running
    /\ p \in pend
    /\ p.op = "setconf"
    /\ \/ LookupCrash(id)
       \/ /\ ~FindSetupReadsFreed(id)
          /\ i = 0
          /\ Consume(p)
       \/ /\ ~FindSetupReadsFreed(id)
          /\ i # 0
          /\ \/ RemoveById(id, pend \ {p}, WithoutStream(p))
             \/ RemoveById(id, pend \ {p}, streams)
             \/ /\ pend' = (pend \ {p}) \cup {[p EXCEPT !.op = "open"]}
                /\ UNCHANGED <<devVars, eps, setups, streams, discovering,
                               transPending, shutdownReq, openRsp, fault>>

\* sep_open_cfm: on error the setup goes; on success a second L2CAP
\* connect (the transport channel) is started and overwrites dev->io,
\* with NULL when bt_io_connect fails.
OpenCfm(p) ==
    /\ Running
    /\ p \in pend
    /\ p.op = "open"
    /\ \/ RemoveById(eps[p.ep].id, pend \ {p}, streams)
       \/ /\ pend' = pend \ {p}
          /\ \/ /\ io' = [io EXCEPT ![p.dev[1]] = "trans"]
                /\ transPending' = transPending \cup {p.dev}
             \/ /\ io' = [io EXCEPT ![p.dev[1]] = "none"]
                /\ UNCHANGED transPending
          /\ UNCHANGED <<tracked, devState, session, gen, halState, eps,
                         setups, streams, discovering, shutdownReq, openRsp,
                         fault>>

\* sep_start_cfm, sep_suspend_cfm: on error the setup goes.
StartSuspendCfm(p) ==
    /\ Running
    /\ p \in pend
    /\ p.op \in {"start", "suspend"}
    /\ \/ Consume(p)
       \/ RemoveById(eps[p.ep].id, pend \ {p}, streams)

\* sep_close_cfm: on success the setup goes with the stream.
CloseCfm(p) ==
    /\ Running
    /\ p \in pend
    /\ p.op = "close"
    /\ \/ Consume(p)
       \/ RemoveById(eps[p.ep].id, pend \ {p}, WithoutStream(p))

\* sep_abort_cfm: the engine aborted stream (e, d) (on a request timeout)
\* and the setup goes.
AbortCfm(e, d) ==
    /\ Running
    /\ PeerOn(e, d)
    /\ HasStream(e, d)
    /\ RemoveById(eps[e].id, {q \in pend : ~(q.ep = e /\ q.dev = d)},
                  {s \in streams : ~(s.ep = e /\ s.dev = d)})

-----------------------------------------------------------------------------
(* Teardown.                                                               *)

\* bt_a2dp_unregister, after which the lists are empty as for a fresh
\* bt_a2dp_register.  setup_free reads setup->endpoint->presets and
\* unregister_endpoint reads endpoint->sep and frees endpoint->caps: both
\* read freed memory when an endpoint is closed or unowned.  Otherwise the
\* SEPs are unregistered (the engine drops every stream and request), and
\* bt_a2dp_notify_state(dev, DISCONNECTED) reports and frees each record
\* not yet DISCONNECTED; a record already DISCONNECTED returns early and is
\* leaked when the list is dropped.
Unregister ==
    LET freed == {a \in tracked : devState[a] # "DISCONNECTED"}
        fd == {Dev(a) : a \in freed}
    IN
    /\ Running
    /\ \/ /\ \E e \in 1..Len(eps) : eps[e].st # "live"
          /\ Crash("use_after_free")
       \/ /\ \A e \in 1..Len(eps) : eps[e].st = "live"
          /\ tracked' = {}
          /\ devState' = [a \in Addr |-> IF a \in freed THEN "DISCONNECTED"
                                                     ELSE devState[a]]
          /\ halState' = [a \in Addr |-> IF a \in freed THEN "DISCONNECTED"
                                                     ELSE halState[a]]
          /\ io' = [a \in Addr |-> IF a \in freed THEN "none" ELSE io[a]]
          /\ session' = [a \in Addr |-> IF a \in freed THEN FALSE ELSE session[a]]
          /\ eps' = <<>>
          /\ setups' = <<>>
          /\ streams' = {}
          /\ pend' = {}
          /\ discovering' = discovering \ fd
          /\ transPending' = transPending \ {Dev(a) : a \in {b \in freed : io[b] = "trans"}}
          /\ shutdownReq' = shutdownReq \ fd
          /\ UNCHANGED <<gen, openRsp, fault>>

-----------------------------------------------------------------------------
(* The specification.                                                      *)

Init ==
    /\ tracked = {}
    /\ devState = [a \in Addr |-> "DISCONNECTED"]
    /\ io = [a \in Addr |-> "none"]
    /\ session = [a \in Addr |-> FALSE]
    /\ gen = [a \in Addr |-> 0]
    /\ halState = [a \in Addr |-> "DISCONNECTED"]
    /\ eps = <<>>
    /\ setups = <<>>
    /\ streams = {}
    /\ pend = {}
    /\ discovering = {}
    /\ transPending = {}
    /\ shutdownReq = {}
    /\ openRsp = NoRsp
    /\ fault = "none"

Step ==
    \/ \E a \in Addr :
          \/ HalConnect(a)
          \/ HalDisconnect(a)
          \/ SignalingConnectCb(a)
          \/ IncomingSignaling(a)
          \/ IncomingTransport(a)
          \/ DisconnectCb(a)
    \/ \E d \in DevId :
          \/ DiscoverCb(d)
          \/ TransportConnectCb(d)
    \/ \E cmd \in Opens : AudioOpen(cmd)
    \/ \E id \in AudioIds :
          \/ AudioClose(id)
          \/ StreamOpen(id)
          \/ StreamClose(id)
          \/ StreamResume(id)
          \/ StreamSuspend(id)
    \/ \E e \in EpIdx, d \in DevId :
          \/ GetCapInd(e, d)
          \/ \E prop \in Proposals : SetConfInd(e, d, prop)
          \/ StreamInd(e, d)
          \/ CloseInd(e, d)
          \/ AbortCfm(e, d)
    \/ Unregister
    \/ \E p \in PendRec :
          \/ SetConfCfm(p)
          \/ OpenCfm(p)
          \/ StartSuspendCfm(p)
          \/ CloseCfm(p)

\* After undefined behaviour the daemon takes no further step.
Halted ==
    /\ fault # "none"
    /\ UNCHANGED vars

Next == Step \/ Halted

(***************************************************************************)
(* Fairness.  The kernel completes or fails every L2CAP connect; the      *)
(* AVDTP engine answers or times out every DISCOVER, and closes a session *)
(* after avdtp_shutdown.  The HAL, the audio client and the peer owe      *)
(* nothing; no liveness property waits on a stream request, so their     *)
(* confirmations carry no fairness.                                       *)
(***************************************************************************)
Fairness ==
    /\ \A a \in Addr : WF_vars(SignalingConnectCb(a))
    /\ \A a \in Addr :
          WF_vars(Dev(a) \in shutdownReq /\ DisconnectCb(a))
    /\ \A d \in DevId : WF_vars(DiscoverCb(d))
    /\ \A d \in DevId : WF_vars(TransportConnectCb(d))

Spec == Init /\ [][Next]_vars /\ Fairness

-----------------------------------------------------------------------------
(* Properties.                                                             *)

TypeOK ==
    /\ tracked \subseteq Addr
    /\ devState \in [Addr -> States]
    /\ io \in [Addr -> {"none", "sig", "trans"}]
    /\ session \in [Addr -> BOOLEAN]
    /\ gen \in [Addr -> 0..MaxGen]
    /\ halState \in [Addr -> States]
    /\ eps \in Seq(EpRec)
    /\ Len(eps) <= MaxEndpoints
    /\ setups \in Seq(SetupRec)
    /\ streams \subseteq StreamRec
    /\ pend \subseteq PendRec
    /\ discovering \subseteq DevId
    /\ transPending \subseteq DevId
    /\ shutdownReq \subseteq DevId
    /\ openRsp \in [id : 0..IdMod, preset : Blob]
    /\ fault \in Faults

(***************************************************************************)
(* The state a record reports agrees with the channels it holds, whatever *)
(* the order of HAL commands, BtIO callbacks and AVDTP callbacks: a       *)
(* device is CONNECTING exactly while its outbound signaling channel is   *)
(* in dev->io, has an AVDTP session exactly while CONNECTED or            *)
(* DISCONNECTING (spec section 3), holds the transport channel in        *)
(* dev->io only with a session, and an address without a record holds    *)
(* nothing.  It is about signaling_connect_cb handing the channel to the  *)
(* session, bt_a2dp_disconnect choosing its path on dev->io, and          *)
(* sep_open_cfm reusing dev->io for the transport channel.                *)
(***************************************************************************)
ConnectingHoldsSignaling ==
    \A a \in tracked : devState[a] = "CONNECTING" <=> io[a] = "sig"
SessionWhileConnected ==
    \A a \in tracked :
        session[a] <=> devState[a] \in {"CONNECTED", "DISCONNECTING"}
UntrackedHoldsNothing ==
    \A a \in Addr \ tracked :
        devState[a] = "DISCONNECTED" /\ io[a] = "none" /\ ~session[a]
TransportWithSession ==
    \A a \in tracked : io[a] = "trans" => session[a]
SessionInv ==
    /\ ConnectingHoldsSignaling
    /\ SessionWhileConnected
    /\ UntrackedHoldsNothing
    /\ TransportWithSession

(***************************************************************************)
(* Spec section 3 and scenario S5: a setup lives only while its device    *)
(* does; a remote drop destroys the setups, then the device.  It is about *)
(* disconnect_cb and a2dp_device_free, which leave the setups list alone. *)
(***************************************************************************)
SetupDeviceLive ==
    \A i \in 1..Len(setups) : IsLive(setups[i].dev)

(***************************************************************************)
(* Spec 8.5: a device that reaches DISCONNECTED has no record any more.   *)
(* It is about the record connect_cb creates for an incoming channel with *)
(* state 0 and signaling_connect_cb's failure path.                       *)
(***************************************************************************)
DisconnectedRecordFreed ==
    \A a \in tracked : devState[a] # "DISCONNECTED"

(***************************************************************************)
(* Spec 4.1, 4.5 and 8.7: the configuration of every setup of a live      *)
(* endpoint is one the endpoint supports: one of its presets, or one the  *)
(* SBC validator of the spec admits against its capabilities.  It is      *)
(* about sep_setconf_ind accepting a peer's proposal through check_config *)
(* and sbc_check_config, which skips the subbands field.                  *)
(***************************************************************************)
SetupConfigSupported ==
    \A i \in 1..Len(setups) :
        LET ep == eps[setups[i].ep] IN
        ep.st = "live" =>
            \/ \E k \in 1..Len(ep.presets) : ep.presets[k] = setups[i].preset
            \/ ep.codec = SBC /\ SbcSpecCheckConfig(ep.caps, setups[i].preset)

(***************************************************************************)
(* Spec 8.2: no two endpoints in use share an id.  It is about             *)
(* register_endpoint numbering an endpoint g_slist_length(endpoints) + 1  *)
(* in a uint8_t, while bt_audio_close leaves closed endpoints in the list. *)
(***************************************************************************)
EndpointIdUnique ==
    \A e, f \in 1..Len(eps) :
        (e # f /\ eps[e].st = "live" /\ eps[f].st = "live") => eps[e].id # eps[f].id

(***************************************************************************)
(* Spec sections 3 and 4.5: a setup binds its device, endpoint and AVDTP  *)
(* stream, and goes when that stream is closed or aborted; so a setup of  *)
(* a live device on a live endpoint has its stream in the engine.  It is  *)
(* about find_setup and setup_remove_by_id choosing the setup to destroy  *)
(* by endpoint id alone.                                                   *)
(***************************************************************************)
SetupHasStream ==
    \A i \in 1..Len(setups) :
        (IsLive(setups[i].dev) /\ eps[setups[i].ep].st = "live")
            => HasStream(setups[i].ep, setups[i].dev)

(***************************************************************************)
(* Spec sections 3 and 7: the engine's stream of a live device on a live  *)
(* endpoint belongs to a setup; a failure destroys the setup and its       *)
(* stream, not only the setup.  It is about sep_setconf_cfm removing the   *)
(* setup when avdtp_open fails, and the open, start and suspend            *)
(* confirmations removing it on error, without releasing the stream.      *)
(***************************************************************************)
StreamHasSetup ==
    \A s \in streams :
        (IsLive(s.dev) /\ eps[s.ep].st = "live")
            => \E i \in 1..Len(setups) : setups[i].ep = s.ep /\ setups[i].dev = s.dev

(***************************************************************************)
(* Every setup, and every stream the engine configured, names an endpoint *)
(* of the list and carries a configuration check_config admits for that  *)
(* endpoint: select_configuration takes one of the endpoint's presets,    *)
(* sep_setconf_ind keeps the last codec entry after check_config accepted *)
(* every one.  It stays true while bt_audio_open appends endpoints,       *)
(* bt_audio_close frees one in place and setups are removed by position, *)
(* for as long as the setup or stream lives.                               *)
(***************************************************************************)
Accepted(e, conf) ==
    /\ e \in 1..Len(eps)
    /\ CheckConfig(eps[e].codec, eps[e].caps, eps[e].presets, conf)
SetupConfigAccepted ==
    /\ \A i \in 1..Len(setups) : Accepted(setups[i].ep, setups[i].preset)
    /\ \A s \in streams : Accepted(s.ep, s.conf)

(***************************************************************************)
(* Spec section 9: a callback or command that names a destroyed object is *)
(* a no-op; the daemon never reads freed memory.  It is about             *)
(* bt_audio_close leaving the freed endpoint in the list, and about the   *)
(* setups that outlive their device or endpoint.                          *)
(***************************************************************************)
NoUseAfterFree == fault # "use_after_free"

(***************************************************************************)
(* Spec section 7: a peer-proposed capability that fails the codec or     *)
(* length checks is rejected (InvalidConfig) with no state change, so no  *)
(* SET_CONFIGURATION a peer sends stops the daemon.  It is about          *)
(* sep_setconf_ind storing the capability length in an int8_t and        *)
(* copying that many bytes before check_config looks at it.               *)
(***************************************************************************)
InvalidConfigRejected == fault # "oversized_copy"

(***************************************************************************)
(* Spec section 5: a HAL disconnect of a device whose session is up shuts *)
(* the session down and enters DISCONNECTING; DISCONNECTED comes only     *)
(* with the engine's disconnect callback.  It is about bt_a2dp_disconnect *)
(* choosing its path on dev->io, which sep_open_cfm also sets.            *)
(***************************************************************************)
DisconnectGoesThroughShutdown ==
    [][\A a \in Addr :
         (HalDisconnect(a) /\ session[a]) => devState'[a] = "DISCONNECTING"
      ]_vars

(***************************************************************************)
(* The HAL sees a legal CONN_STATE sequence for every address (HalConn):  *)
(* no event repeats the current state and none skips the state machine,   *)
(* across local connects, incoming channels, failures, local disconnects, *)
(* the transport-channel path of bt_a2dp_disconnect and remote drops.     *)
(***************************************************************************)
HAL == INSTANCE HalConn WITH hal <- halState
HalRefinement == HAL!Spec

(***************************************************************************)
(* Every outbound connect is resolved: signaling_connect_cb fires and the *)
(* device leaves CONNECTING (unless the daemon has crashed).              *)
(***************************************************************************)
ConnectingResolves ==
    \A a \in Addr :
        devState[a] = "CONNECTING" ~> (devState[a] # "CONNECTING" \/ fault # "none")

(***************************************************************************)
(* A device the HAL disconnected does not stay DISCONNECTING: once the    *)
(* engine closes the session, disconnect_cb frees the record.             *)
(***************************************************************************)
ShutdownCompletes ==
    \A a \in Addr :
        devState[a] = "DISCONNECTING" ~> (a \notin tracked \/ fault # "none")

=============================================================================
