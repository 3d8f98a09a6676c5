------------------------------ MODULE A2dpProofs ------------------------------
(***************************************************************************)
(* Proofs about the device side of A2dp, for every value of the constants: *)
(* the agreement of a device's state with the channels it holds           *)
(* (SessionInv) and that the HAL sees a legal CONN_STATE sequence         *)
(* (HalRefinement).                                                       *)
(*                                                                         *)
(* SessionInv is not inductive by itself.  transport_connect_cb and        *)
(* sep_open_cfm rewrite dev->io of the device a stream or a request       *)
(* belongs to, and bt_a2dp_disconnect's paths depend on dev->io; that is  *)
(* harmless only because the engine's streams, requests and DISCOVERs     *)
(* all belong to the current record of a tracked address with a session, *)
(* which is CONNECTED or DISCONNECTING.  EngineInv states that, and        *)
(* a2dp_device_free keeps it by taking the session's streams with it.     *)
(***************************************************************************)
EXTENDS A2dp, TLAPS

\* The current record of a tracked address, with its AVDTP session up.
LiveSession(d) == \E a \in tracked : d = Dev(a) /\ session[a]

DevTypeOK ==
    /\ tracked \subseteq Addr
    /\ devState \in [Addr -> States]
    /\ io \in [Addr -> {"none", "sig", "trans"}]
    /\ session \in [Addr -> BOOLEAN]
    /\ gen \in [Addr -> Nat]
    /\ halState \in [Addr -> States]

EngineInv ==
    /\ \A s \in streams : LiveSession(s.dev)
    /\ \A p \in pend : LiveSession(p.dev)
    /\ \A d \in discovering : LiveSession(d)

IInv ==
    /\ DevTypeOK
    /\ SessionInv
    /\ halState = devState
    /\ EngineInv

-----------------------------------------------------------------------------
(* The initial state: no record, every address DISCONNECTED, the engine   *)
(* idle.                                                                   *)
LEMMA InitIInv == Init => IInv
BY DEF Init, IInv, DevTypeOK, SessionInv, ConnectingHoldsSignaling,
       SessionWhileConnected, UntrackedHoldsNothing, TransportWithSession, EngineInv, States

(* A step that leaves the device table alone preserves IInv as soon as    *)
(* the engine's entries still belong to live sessions.                    *)
LEMMA DevFrame ==
    ASSUME IInv, UNCHANGED devVars,
           \A s \in streams' : LiveSession(s.dev),
           \A p \in pend' : LiveSession(p.dev),
           \A d \in discovering' : LiveSession(d)
    PROVE  IInv'
BY DEF IInv, devVars, DevTypeOK, SessionInv, ConnectingHoldsSignaling,
       SessionWhileConnected, UntrackedHoldsNothing, TransportWithSession, EngineInv, LiveSession,
       Dev

(* The same when the engine only loses entries.                           *)
LEMMA DevFrameShrink ==
    ASSUME IInv, UNCHANGED devVars,
           streams' \subseteq streams, pend' \subseteq pend,
           discovering' \subseteq discovering
    PROVE  IInv'
BY DevFrame DEF IInv, EngineInv

(* a2dp_device_free of a tracked record, after DISCONNECTED: the address *)
(* holds nothing any more and the engine forgets the session's entries,   *)
(* so every remaining entry is still another address's live session.      *)
LEMMA NotifyDisconnectedIInv ==
    ASSUME IInv, NEW a \in tracked, NotifyDisconnected(a)
    PROVE  IInv'
<1>1. DevTypeOK' /\ halState' = devState'
  BY DEF IInv, DevTypeOK, NotifyDisconnected, Notify, States
<1>2. SessionInv'
  BY DEF IInv, DevTypeOK, SessionInv, ConnectingHoldsSignaling,
         SessionWhileConnected, UntrackedHoldsNothing, TransportWithSession, NotifyDisconnected,
         Notify
<1>3. ASSUME NEW d, LiveSession(d), d # Dev(a) PROVE LiveSession(d)'
  BY <1>3 DEF IInv, DevTypeOK, LiveSession, Dev, NotifyDisconnected
<1>4. EngineInv'
  BY <1>3 DEF IInv, EngineInv, NotifyDisconnected
<1>5. QED
  BY <1>1, <1>2, <1>4 DEF IInv

(* Undefined behaviour changes no variable the invariant reads.           *)
LEMMA CrashIInv ==
    ASSUME IInv, NEW kind, Crash(kind)
    PROVE  IInv'
BY DevFrameShrink DEF Crash, devVars, engVars

(* A new record for an untracked address takes a fresh incarnation, so no *)
(* engine entry can belong to it.                                          *)
LEMMA NewRecordKeepsEngine ==
    ASSUME IInv, NEW a \in Addr, a \notin tracked,
           tracked' = tracked \cup {a}, gen' = [gen EXCEPT ![a] = @ + 1],
           session' = session \/ session' = [session EXCEPT ![a] = TRUE],
           UNCHANGED engVars
    PROVE  EngineInv'
<1>1. ASSUME NEW d, LiveSession(d) PROVE LiveSession(d)'
  BY <1>1 DEF IInv, DevTypeOK, LiveSession, Dev
<1>2. QED
  BY <1>1 DEF IInv, EngineInv, engVars

(* bt_a2dp_connect.                                                        *)
LEMMA HalConnectIInv ==
    ASSUME IInv, NEW a \in Addr, HalConnect(a)
    PROVE  IInv'
<1>1. DevTypeOK' /\ halState' = devState'
  BY DEF IInv, DevTypeOK, HalConnect, Notify, States
<1>2. SessionInv'
  BY DEF IInv, DevTypeOK, SessionInv, ConnectingHoldsSignaling,
         SessionWhileConnected, UntrackedHoldsNothing, TransportWithSession, HalConnect, Notify
<1>3. EngineInv'
  BY NewRecordKeepsEngine DEF HalConnect
<1>4. QED
  BY <1>1, <1>2, <1>3 DEF IInv

(* connect_cb for an address without a record, then signaling_connect_cb. *)
LEMMA IncomingSignalingIInv ==
    ASSUME IInv, NEW a \in Addr, IncomingSignaling(a)
    PROVE  IInv'
<1>1. EngineInv'
  BY NewRecordKeepsEngine DEF IncomingSignaling
<1>2. CASE UNCHANGED <<devState, halState, session>>
  \* the channel failed: a DISCONNECTED record without a session
  <2>1. DevTypeOK' /\ halState' = devState'
    BY <1>2 DEF IInv, DevTypeOK, IncomingSignaling
  <2>2. SessionInv'
    BY <1>2 DEF IInv, DevTypeOK, SessionInv, ConnectingHoldsSignaling,
              SessionWhileConnected, UntrackedHoldsNothing, TransportWithSession, IncomingSignaling
  <2>3. QED
    BY <1>1, <2>1, <2>2 DEF IInv
<1>3. CASE /\ session' = [session EXCEPT ![a] = TRUE]
           /\ Notify(a, "CONNECTED")
  \* the session is up: CONNECTED
  <2>1. DevTypeOK' /\ halState' = devState'
    BY <1>3 DEF IInv, DevTypeOK, IncomingSignaling, Notify, States
  <2>2. SessionInv'
    BY <1>3 DEF IInv, DevTypeOK, SessionInv, ConnectingHoldsSignaling,
              SessionWhileConnected, UntrackedHoldsNothing, TransportWithSession, IncomingSignaling,
              Notify
  <2>3. QED
    BY <1>1, <2>1, <2>2 DEF IInv
<1>4. QED
  BY <1>2, <1>3 DEF IncomingSignaling

(* bt_a2dp_disconnect: with dev->io set the record goes at once; without *)
(* it the session is shut down and the device is DISCONNECTING.          *)
LEMMA HalDisconnectIInv ==
    ASSUME IInv, NEW a \in Addr, HalDisconnect(a)
    PROVE  IInv'
<1>1. CASE NotifyDisconnected(a)
  BY <1>1, NotifyDisconnectedIInv DEF HalDisconnect
<1>2. CASE Crash("null_deref")
  BY <1>2, CrashIInv
<1>3. CASE /\ io[a] = "none"
           /\ session[a]
           /\ Notify(a, "DISCONNECTING")
           /\ UNCHANGED <<tracked, io, session, gen, streams, pend,
                          discovering>>
  <2>1. DevTypeOK' /\ halState' = devState'
    BY <1>3 DEF IInv, DevTypeOK, Notify, States
  <2>2. SessionInv'
    BY <1>3 DEF HalDisconnect, IInv, DevTypeOK, SessionInv,
              ConnectingHoldsSignaling, SessionWhileConnected,
              UntrackedHoldsNothing, TransportWithSession, Notify
  <2>3. EngineInv'
    BY <1>3 DEF IInv, EngineInv, LiveSession, Dev
  <2>4. QED
    BY <2>1, <2>2, <2>3 DEF IInv
<1>4. QED
  BY <1>1, <1>2, <1>3 DEF HalDisconnect

(* signaling_connect_cb: a failure frees the record; success hands the    *)
(* channel to the session and reports CONNECTED, with a DISCOVER issued   *)
(* on the new session when the device was CONNECTING.                    *)
LEMMA SignalingConnectCbIInv ==
    ASSUME IInv, NEW a \in Addr, SignalingConnectCb(a)
    PROVE  IInv'
<1>1. a \in tracked
  BY DEF SignalingConnectCb, IInv, SessionInv, UntrackedHoldsNothing, TransportWithSession
<1>2. CASE NotifyDisconnected(a)
  BY <1>1, <1>2, NotifyDisconnectedIInv
<1>3. CASE /\ session' = [session EXCEPT ![a] = TRUE]
           /\ io' = [io EXCEPT ![a] = "none"]
           /\ discovering' = IF devState[a] = "CONNECTING"
                              THEN discovering \cup {Dev(a)}
                              ELSE discovering
           /\ Notify(a, "CONNECTED")
           /\ UNCHANGED <<tracked, gen, streams, pend>>
  <2>1. DevTypeOK' /\ halState' = devState'
    BY <1>3 DEF IInv, DevTypeOK, Notify, States
  <2>2. SessionInv'
    BY <1>1, <1>3 DEF IInv, DevTypeOK, SessionInv, ConnectingHoldsSignaling,
                    SessionWhileConnected, UntrackedHoldsNothing, TransportWithSession, Notify
  <2>3. ASSUME NEW d, LiveSession(d) PROVE LiveSession(d)'
    BY <1>3, <2>3 DEF IInv, DevTypeOK, LiveSession, Dev
  <2>4. LiveSession(Dev(a))'
    BY <1>1, <1>3 DEF IInv, DevTypeOK, LiveSession, Dev
  <2>5. \A d \in discovering' : d \in discovering \/ d = Dev(a)
    BY <1>3
  <2>6. EngineInv'
    BY <1>3, <2>3, <2>4, <2>5 DEF IInv, EngineInv, Dev
  <2>7. QED
    BY <2>1, <2>2, <2>6 DEF IInv
<1>4. QED
  BY <1>2, <1>3 DEF SignalingConnectCb

(* disconnect_cb: the engine tore the session down.                       *)
LEMMA DisconnectCbIInv ==
    ASSUME IInv, NEW a \in Addr, DisconnectCb(a)
    PROVE  IInv'
BY NotifyDisconnectedIInv DEF DisconnectCb

(* dev->io of a device with a session may take the transport channel or  *)
(* be cleared: such a device is CONNECTED or DISCONNECTING, whatever it   *)
(* holds in dev->io.                                                       *)
LEMMA SessionIoIInv ==
    ASSUME IInv, NEW b \in tracked, session[b],
           NEW v \in {"none", "trans"}, io' = [io EXCEPT ![b] = v],
           UNCHANGED <<tracked, devState, session, gen, halState>>,
           streams' \subseteq streams, pend' \subseteq pend,
           discovering' \subseteq discovering
    PROVE  IInv'
<1>1. DevTypeOK' /\ halState' = devState'
  BY DEF IInv, DevTypeOK
<1>2. SessionInv'
  BY DEF IInv, DevTypeOK, SessionInv, ConnectingHoldsSignaling,
         SessionWhileConnected, UntrackedHoldsNothing, TransportWithSession
<1>3. EngineInv'
  BY DEF IInv, EngineInv, LiveSession, Dev
<1>4. QED
  BY <1>1, <1>2, <1>3 DEF IInv

(* An engine stream or request names a live session.                       *)
LEMMA StreamOwner ==
    ASSUME IInv, NEW d, LiveSession(d)
    PROVE  /\ d[1] \in tracked
           /\ session[d[1]]
           /\ d = Dev(d[1])
BY DEF LiveSession, Dev

(* transport_connect_cb once the channel is up.                            *)
LEMMA TransportBindIInv ==
    ASSUME IInv, NEW d, NEW tp, TransportBind(d, tp)
    PROVE  IInv'
<1>1. CASE Crash("use_after_free")
  BY <1>1, CrashIInv
<1>2. CASE /\ \E s \in streams : s.dev = d
           /\ io' = [io EXCEPT ![d[1]] = "none"]
           /\ UNCHANGED <<tracked, devState, session, gen, halState, streams,
                          pend, discovering>>
  <2>1. LiveSession(d)
    BY <1>2 DEF IInv, EngineInv
  <2>2. QED
    BY <1>2, <2>1, StreamOwner, SessionIoIInv
<1>3. QED
  BY <1>1, <1>2 DEF TransportBind

(* connect_cb for an address with a record.                                *)
LEMMA IncomingTransportIInv ==
    ASSUME IInv, NEW a \in Addr, IncomingTransport(a)
    PROVE  IInv'
BY TransportBindIInv DEF IncomingTransport

(* transport_connect_cb on the outbound transport channel.                 *)
LEMMA TransportConnectCbIInv ==
    ASSUME IInv, NEW d, TransportConnectCb(d)
    PROVE  IInv'
<1>1. CASE /\ transPending' = transPending \ {d}
           /\ UNCHANGED <<devVars, eps, setups, streams, pend, discovering,
                          shutdownReq, openRsp, fault>>
  BY <1>1, DevFrameShrink
<1>2. CASE TransportBind(d, transPending \ {d})
  BY <1>2, TransportBindIInv
<1>3. QED
  BY <1>1, <1>2 DEF TransportConnectCb

(* A handler that only reads the lists or crashes on a freed endpoint.    *)
LEMMA LookupCrashIInv ==
    ASSUME IInv, NEW id, LookupCrash(id)
    PROVE  IInv'
BY CrashIInv DEF LookupCrash

(* setup_remove_by_id, after which the engine keeps part of its entries.  *)
LEMMA RemoveByIdIInv ==
    ASSUME IInv, NEW id, NEW pd, NEW strm, pd \subseteq pend,
           strm \subseteq streams, RemoveById(id, pd, strm)
    PROVE  IInv'
<1>1. CASE LookupCrash(id)
  BY <1>1, LookupCrashIInv
<1>2. CASE /\ pend' = pd
           /\ streams' = strm
           /\ UNCHANGED <<devVars, discovering>>
  BY <1>2, DevFrameShrink
<1>3. QED
  BY <1>1, <1>2 DEF RemoveById

(* A confirmation that only consumes its request.                          *)
LEMMA ConsumeIInv ==
    ASSUME IInv, NEW p, Consume(p)
    PROVE  IInv'
BY DevFrameShrink DEF Consume

(* bt_audio_open and register_endpoint.                                    *)
LEMMA AudioOpenIInv ==
    ASSUME IInv, NEW cmd, AudioOpen(cmd)
    PROVE  IInv'
BY DevFrameShrink DEF AudioOpen, engVars

(* bt_audio_close: the engine drops the endpoint's streams and requests.   *)
LEMMA AudioCloseIInv ==
    ASSUME IInv, NEW id, AudioClose(id)
    PROVE  IInv'
<1>1. CASE Crash("use_after_free")
  BY <1>1, CrashIInv
<1>2. CASE /\ streams' \subseteq streams
           /\ pend' \subseteq pend
           /\ UNCHANGED <<devVars, discovering>>
  BY <1>2, DevFrameShrink
<1>3. QED
  BY <1>1, <1>2 DEF AudioClose

(* bt_stream_open.                                                         *)
LEMMA StreamOpenIInv ==
    ASSUME IInv, NEW id, StreamOpen(id)
    PROVE  IInv'
<1>1. CASE LookupCrash(id)
  BY <1>1, LookupCrashIInv
<1>2. CASE UNCHANGED <<devVars, engVars>>
  BY <1>2, DevFrameShrink DEF engVars
<1>3. QED
  BY <1>1, <1>2 DEF StreamOpen

(* bt_stream_close, bt_stream_resume, bt_stream_suspend: a request on a    *)
(* stream the engine has, so on its live session.                          *)
LEMMA StreamRequestIInv ==
    ASSUME IInv, NEW id, NEW op, StreamRequest(id, op)
    PROVE  IInv'
<1>1. CASE LookupCrash(id) \/ Crash("use_after_free")
  BY <1>1, LookupCrashIInv, CrashIInv
<1>2. CASE \E d : /\ \E s \in streams : s.dev = d
                  /\ \E e : pend' = pend \cup {[op |-> op, ep |-> e, dev |-> d]}
                  /\ UNCHANGED <<devVars, streams, discovering>>
  <2>1. PICK d : /\ \E s \in streams : s.dev = d
                 /\ \E e : pend' = pend \cup {[op |-> op, ep |-> e, dev |-> d]}
                 /\ UNCHANGED <<devVars, streams, discovering>>
    BY <1>2
  <2>2. LiveSession(d)
    BY <2>1 DEF IInv, EngineInv
  <2>3. \A p \in pend' : p \in pend \/ p.dev = d
    BY <2>1
  <2>4. QED
    BY <2>1, <2>2, <2>3, DevFrame DEF IInv, EngineInv, devVars, LiveSession,
       Dev
<1>3. QED
  BY <1>1, <1>2 DEF StreamRequest

(* The peer's indications are only received on a live session.           *)
LEMMA PeerOnLive ==
    ASSUME NEW e, NEW d \in DevId, PeerOn(e, d)
    PROVE  LiveSession(d)
BY DEF PeerOn, IsLive, LiveSession, Dev, DevId

(* sep_getcap_ind.                                                         *)
LEMMA GetCapIndIInv ==
    ASSUME IInv, NEW e, NEW d, GetCapInd(e, d)
    PROVE  IInv'
BY CrashIInv DEF GetCapInd

(* sep_open_ind, sep_start_ind, sep_suspend_ind.                           *)
LEMMA StreamIndIInv ==
    ASSUME IInv, NEW e, NEW d, StreamInd(e, d)
    PROVE  IInv'
BY LookupCrashIInv DEF StreamInd

(* sep_close_ind.                                                          *)
LEMMA CloseIndIInv ==
    ASSUME IInv, NEW e, NEW d, CloseInd(e, d)
    PROVE  IInv'
<1>1. CASE LookupCrash(eps[e].id)
  BY <1>1, LookupCrashIInv
<1>2. CASE /\ streams' \subseteq streams
           /\ UNCHANGED <<devVars, pend, discovering>>
  BY <1>2, DevFrameShrink
<1>3. QED
  BY <1>1, <1>2 DEF CloseInd

(* sep_setconf_ind: the new stream belongs to the session it came on.     *)
LEMMA SetConfIndIInv ==
    ASSUME IInv, NEW e, NEW d \in DevId, NEW prop, SetConfInd(e, d, prop)
    PROVE  IInv'
<1>1. LiveSession(d)
  BY PeerOnLive DEF SetConfInd
<1>2. CASE \E kind : Crash(kind)
  BY <1>2, CrashIInv
<1>3. CASE /\ \E c : streams' = streams \cup {[ep |-> e, dev |-> d, conf |-> c]}
           /\ UNCHANGED <<devVars, pend, discovering>>
  <2>1. \A s \in streams' : s \in streams \/ s.dev = d
    BY <1>3
  <2>2. QED
    BY <1>1, <1>3, <2>1, DevFrame DEF IInv, EngineInv, devVars, LiveSession,
       Dev
<1>4. QED
  BY <1>2, <1>3 DEF SetConfInd

(* sep_setconf_cfm: the OPEN request is on the same stream.               *)
LEMMA SetConfCfmIInv ==
    ASSUME IInv, NEW p \in PendRec, SetConfCfm(p)
    PROVE  IInv'
<1>1. CASE LookupCrash(eps[p.ep].id)
  BY <1>1, LookupCrashIInv
<1>2. CASE Consume(p)
  BY <1>2, ConsumeIInv
<1>3. CASE \E id, strm : /\ strm \subseteq streams
                        /\ RemoveById(id, pend \ {p}, strm)
  BY <1>3, RemoveByIdIInv
<1>4. CASE /\ p \in pend
           /\ pend' = (pend \ {p}) \cup {[p EXCEPT !.op = "open"]}
           /\ UNCHANGED <<devVars, streams, discovering>>
  <2>1. \A q \in pend' : q \in pend \/ q.dev = p.dev
    BY <1>4 DEF PendRec
  <2>2. LiveSession(p.dev)
    BY <1>4 DEF IInv, EngineInv
  <2>3. QED
    BY <1>4, <2>1, <2>2, DevFrame DEF IInv, EngineInv, devVars, LiveSession,
       Dev
<1>5. QED
  <2>1. \A strm \in {streams, WithoutStream(p)} : strm \subseteq streams
    BY DEF WithoutStream
  <2>2. QED
    BY <1>1, <1>2, <1>3, <1>4, <2>1 DEF SetConfCfm

(* sep_open_cfm: the transport connect rewrites dev->io of the request's  *)
(* device, which has a session.                                            *)
LEMMA OpenCfmIInv ==
    ASSUME IInv, NEW p \in PendRec, OpenCfm(p)
    PROVE  IInv'
<1>1. CASE RemoveById(eps[p.ep].id, pend \ {p}, streams)
  BY <1>1, RemoveByIdIInv
<1>2. CASE /\ p \in pend
           /\ pend' = pend \ {p}
           /\ \E v \in {"none", "trans"} : io' = [io EXCEPT ![p.dev[1]] = v]
           /\ UNCHANGED <<tracked, devState, session, gen, halState, streams,
                          discovering>>
  <2>1. LiveSession(p.dev)
    BY <1>2 DEF IInv, EngineInv
  <2>2. QED
    BY <1>2, <2>1, StreamOwner, SessionIoIInv
<1>3. QED
  BY <1>1, <1>2 DEF OpenCfm

(* sep_start_cfm, sep_suspend_cfm.                                         *)
LEMMA StartSuspendCfmIInv ==
    ASSUME IInv, NEW p \in PendRec, StartSuspendCfm(p)
    PROVE  IInv'
BY ConsumeIInv, RemoveByIdIInv DEF StartSuspendCfm

(* sep_close_cfm.                                                          *)
LEMMA CloseCfmIInv ==
    ASSUME IInv, NEW p \in PendRec, CloseCfm(p)
    PROVE  IInv'
<1>1. WithoutStream(p) \subseteq streams
  BY DEF WithoutStream
<1>2. QED
  BY <1>1, ConsumeIInv, RemoveByIdIInv DEF CloseCfm

(* sep_abort_cfm.                                                          *)
LEMMA AbortCfmIInv ==
    ASSUME IInv, NEW e, NEW d, AbortCfm(e, d)
    PROVE  IInv'
BY RemoveByIdIInv DEF AbortCfm

(* discover_cb: a SET_CONFIGURATION on the session that discovered.        *)
LEMMA DiscoverCbIInv ==
    ASSUME IInv, NEW d, DiscoverCb(d)
    PROVE  IInv'
<1>1. LiveSession(d)
  BY DEF DiscoverCb, IInv, EngineInv
<1>2. CASE Crash("use_after_free")
  BY <1>2, CrashIInv
<1>3. CASE DiscoverShutdown(d)
  BY <1>3, DevFrameShrink DEF DiscoverShutdown
<1>4. CASE /\ \E e, c : streams' = streams \cup {[ep |-> e, dev |-> d, conf |-> c]}
           /\ \E e : pend' = pend \cup {[op |-> "setconf", ep |-> e, dev |-> d]}
           /\ discovering' = discovering \ {d}
           /\ UNCHANGED devVars
  <2>1. \A s \in streams' : s \in streams \/ s.dev = d
    BY <1>4
  <2>2. \A q \in pend' : q \in pend \/ q.dev = d
    BY <1>4
  <2>3. QED
    BY <1>1, <1>4, <2>1, <2>2, DevFrame DEF IInv, EngineInv, devVars,
       LiveSession, Dev
<1>5. QED
  BY <1>2, <1>3, <1>4 DEF DiscoverCb

(* bt_a2dp_unregister: every record with a session is reported and freed, *)
(* so no engine entry survives, and the records it leaks are DISCONNECTED *)
(* ones, which hold nothing.                                               *)
LEMMA UnregisterIInv ==
    ASSUME IInv, Unregister
    PROVE  IInv'
<1> DEFINE freed == {a \in tracked : devState[a] # "DISCONNECTED"}
<1>1. CASE Crash("use_after_free")
  BY <1>1, CrashIInv
<1>2. CASE /\ tracked' = {}
           /\ devState' = [a \in Addr |-> IF a \in freed THEN "DISCONNECTED"
                                                      ELSE devState[a]]
           /\ halState' = [a \in Addr |-> IF a \in freed THEN "DISCONNECTED"
                                                      ELSE halState[a]]
           /\ io' = [a \in Addr |-> IF a \in freed THEN "none" ELSE io[a]]
           /\ session' = [a \in Addr |-> IF a \in freed THEN FALSE
                                                     ELSE session[a]]
           /\ streams' = {}
           /\ pend' = {}
           /\ discovering' = discovering \ {Dev(a) : a \in freed}
           /\ UNCHANGED gen
  <2>1. DevTypeOK' /\ halState' = devState'
    BY <1>2 DEF IInv, DevTypeOK, States
  <2>2. ASSUME NEW a \in Addr
        PROVE  devState'[a] = "DISCONNECTED" /\ io'[a] = "none" /\ ~session'[a]
    BY <1>2 DEF IInv, DevTypeOK, SessionInv, ConnectingHoldsSignaling,
                SessionWhileConnected, UntrackedHoldsNothing,
                TransportWithSession
  <2>3. SessionInv'
    BY <1>2, <2>2 DEF SessionInv, ConnectingHoldsSignaling,
                      SessionWhileConnected, UntrackedHoldsNothing,
                      TransportWithSession
  <2>4. discovering' = {}
    <3>1. ASSUME NEW d \in discovering PROVE \E a \in freed : d = Dev(a)
      BY <3>1 DEF IInv, EngineInv, LiveSession, DevTypeOK, SessionInv,
                  SessionWhileConnected
    <3>2. QED
      BY <1>2, <3>1
  <2>5. EngineInv'
    BY <1>2, <2>4 DEF EngineInv
  <2>6. QED
    BY <2>1, <2>3, <2>5 DEF IInv
<1>3. QED
  BY <1>1, <1>2 DEF Unregister


-----------------------------------------------------------------------------
(* Every step of the daemon preserves IInv: one case per handler.          *)
LEMMA NextIInv == IInv /\ [Next]_vars => IInv'
<1> SUFFICES ASSUME IInv, [Next]_vars PROVE IInv'
  OBVIOUS
<1>1. CASE UNCHANGED vars
  BY <1>1, DevFrameShrink DEF vars, engVars
<1>2. CASE Halted
  BY <1>2, DevFrameShrink DEF Halted, vars, engVars
<1>3. ASSUME NEW a \in Addr,
             \/ HalConnect(a)
             \/ HalDisconnect(a)
             \/ SignalingConnectCb(a)
             \/ IncomingSignaling(a)
             \/ IncomingTransport(a)
             \/ DisconnectCb(a)
      PROVE  IInv'
  BY <1>3, HalConnectIInv, HalDisconnectIInv, SignalingConnectCbIInv,
     IncomingSignalingIInv, IncomingTransportIInv, DisconnectCbIInv
<1>4. ASSUME NEW d \in DevId, DiscoverCb(d) \/ TransportConnectCb(d)
      PROVE  IInv'
  BY <1>4, DiscoverCbIInv, TransportConnectCbIInv
<1>5. ASSUME NEW cmd \in Opens, AudioOpen(cmd)
      PROVE  IInv'
  BY <1>5, AudioOpenIInv
<1>6. ASSUME NEW id \in AudioIds,
             \/ AudioClose(id)
             \/ StreamOpen(id)
             \/ StreamClose(id)
             \/ StreamResume(id)
             \/ StreamSuspend(id)
      PROVE  IInv'
  BY <1>6, AudioCloseIInv, StreamOpenIInv, StreamRequestIInv
  DEF StreamClose, StreamResume, StreamSuspend
<1>7. ASSUME NEW e \in EpIdx, NEW d \in DevId,
             \/ GetCapInd(e, d)
             \/ \E prop \in Proposals : SetConfInd(e, d, prop)
             \/ StreamInd(e, d)
             \/ CloseInd(e, d)
             \/ AbortCfm(e, d)
      PROVE  IInv'
  BY <1>7, GetCapIndIInv, SetConfIndIInv, StreamIndIInv, CloseIndIInv,
     AbortCfmIInv
<1>8. ASSUME NEW p \in PendRec,
             \/ SetConfCfm(p)
             \/ OpenCfm(p)
             \/ StartSuspendCfm(p)
             \/ CloseCfm(p)
      PROVE  IInv'
  BY <1>8, SetConfCfmIInv, OpenCfmIInv, StartSuspendCfmIInv, CloseCfmIInv
<1>9. CASE Unregister
  BY <1>9, UnregisterIInv
<1>10. QED
  BY <1>1, <1>2, <1>3, <1>4, <1>5, <1>6, <1>7, <1>8, <1>9 DEF Next, Step

(* IInv holds in every reachable state, for all values of the constants.   *)
THEOREM IInvInvariant == Spec => []IInv
BY InitIInv, NextIInv, PTL DEF Spec

(***************************************************************************)
(* SessionInv, checked by the single_peer, two_peers and endpoints runs,   *)
(* holds for every number of peers, incarnations and endpoints: a device  *)
(* is CONNECTING exactly while signaling_connect_cb still owns dev->io,   *)
(* has a session exactly while CONNECTED or DISCONNECTING, and an address *)
(* without a record holds nothing, whatever the order of the HAL, BtIO    *)
(* and AVDTP callbacks.                                                    *)
(***************************************************************************)
THEOREM SessionInvariant == Spec => []SessionInv
<1>1. IInv => SessionInv
  BY DEF IInv
<1>2. QED
  BY <1>1, IInvInvariant, PTL

-----------------------------------------------------------------------------
(* The HAL view.  A CONN_STATE event for a is a step of HalConn when it    *)
(* follows an edge of the state machine, and a stutter when it repeats    *)
(* the state (bt_a2dp_notify_state sends nothing then).                    *)
LEMMA HalEvent ==
    ASSUME NEW a \in Addr, NEW s \in States, halState \in [Addr -> States],
           halState' = [halState EXCEPT ![a] = s],
           <<halState[a], s>> \in HAL!Edges \/ halState[a] = s
    PROVE  [HAL!Next]_halState
BY DEF HAL!Next, HAL!Event, HAL!States, States

(* a2dp_device_free after DISCONNECTED from any other state.              *)
LEMMA NotifyDisconnectedHal ==
    ASSUME IInv, NEW a \in Addr, devState[a] # "DISCONNECTED",
           NotifyDisconnected(a)
    PROVE  [HAL!Next]_halState
BY HalEvent DEF IInv, DevTypeOK, NotifyDisconnected, Notify, HAL!Edges,
   States

(* bt_a2dp_connect: DISCONNECTED to CONNECTING.                            *)
LEMMA HalConnectHal ==
    ASSUME IInv, NEW a \in Addr, HalConnect(a)
    PROVE  [HAL!Next]_halState
BY HalEvent DEF IInv, DevTypeOK, SessionInv, UntrackedHoldsNothing, TransportWithSession,
   HalConnect, Notify, HAL!Edges, States

(* bt_a2dp_disconnect: to DISCONNECTED from a state with a channel, or to *)
(* DISCONNECTING from CONNECTED.                                           *)
LEMMA HalDisconnectHal ==
    ASSUME IInv, NEW a \in Addr, HalDisconnect(a)
    PROVE  [HAL!Next]_halState
<1>1. CASE devState[a] # "DISCONNECTED" /\ NotifyDisconnected(a)
  BY <1>1, NotifyDisconnectedHal
<1>2. CASE Crash("null_deref")
  BY <1>2 DEF Crash, devVars
<1>3. CASE /\ a \in tracked
           /\ session[a]
           /\ Notify(a, "DISCONNECTING")
  BY <1>3, HalEvent DEF IInv, DevTypeOK, SessionInv, SessionWhileConnected,
                        Notify, HAL!Edges, States
<1>4. QED
  BY <1>1, <1>2, <1>3 DEF HalDisconnect

(* signaling_connect_cb: CONNECTING to DISCONNECTED or CONNECTED.          *)
LEMMA SignalingConnectCbHal ==
    ASSUME IInv, NEW a \in Addr, SignalingConnectCb(a)
    PROVE  [HAL!Next]_halState
<1>1. devState[a] = "CONNECTING"
  BY DEF SignalingConnectCb, IInv, SessionInv, ConnectingHoldsSignaling,
         UntrackedHoldsNothing, TransportWithSession
<1>2. CASE NotifyDisconnected(a)
  BY <1>1, <1>2, NotifyDisconnectedHal
<1>3. CASE Notify(a, "CONNECTED")
  BY <1>1, <1>3, HalEvent DEF IInv, DevTypeOK, Notify, HAL!Edges, States
<1>4. QED
  BY <1>2, <1>3 DEF SignalingConnectCb

(* connect_cb for a new peer: DISCONNECTED to CONNECTED, or no event.      *)
LEMMA IncomingSignalingHal ==
    ASSUME IInv, NEW a \in Addr, IncomingSignaling(a)
    PROVE  [HAL!Next]_halState
<1>1. devState[a] = "DISCONNECTED"
  BY DEF IncomingSignaling, IInv, SessionInv, UntrackedHoldsNothing, TransportWithSession
<1>2. CASE UNCHANGED <<devState, halState, session>>
  BY <1>2
<1>3. CASE Notify(a, "CONNECTED")
  BY <1>1, <1>3, HalEvent DEF IInv, DevTypeOK, Notify, HAL!Edges, States
<1>4. QED
  BY <1>2, <1>3 DEF IncomingSignaling

(* disconnect_cb: from CONNECTED or DISCONNECTING to DISCONNECTED.         *)
LEMMA DisconnectCbHal ==
    ASSUME IInv, NEW a \in Addr, DisconnectCb(a)
    PROVE  [HAL!Next]_halState
<1>1. devState[a] # "DISCONNECTED"
  BY DEF DisconnectCb, IInv, SessionInv, SessionWhileConnected
<1>2. QED
  BY <1>1, NotifyDisconnectedHal DEF DisconnectCb

(* bt_a2dp_unregister: one DISCONNECTED event for each record it frees,   *)
(* none of which was DISCONNECTED.                                          *)
LEMMA UnregisterHal ==
    ASSUME IInv, Unregister
    PROVE  [HAL!Next]_halState
<1> DEFINE freed == {a \in tracked : devState[a] # "DISCONNECTED"}
           t == [a \in freed |-> "DISCONNECTED"]
<1>1. CASE Crash("use_after_free")
  BY <1>1 DEF Crash, devVars
<1>2. CASE halState' = [a \in Addr |-> IF a \in freed THEN "DISCONNECTED"
                                                   ELSE halState[a]]
  <2>1. freed \in SUBSET Addr /\ t \in [freed -> HAL!States]
    BY DEF IInv, DevTypeOK, HAL!States
  <2>2. \A a \in DOMAIN t : <<halState[a], t[a]>> \in HAL!Edges
    BY DEF IInv, DevTypeOK, HAL!Edges, States
  <2>3. halState' = [a \in Addr |-> IF a \in DOMAIN t THEN t[a] ELSE halState[a]]
    BY <1>2
  <2>4. HAL!Burst(t)
    BY <2>2, <2>3 DEF HAL!Burst
  <2>5. QED
    BY <2>1, <2>4 DEF HAL!Next
<1>3. QED
  BY <1>1, <1>2 DEF Unregister

(* Every step is a HalConn step or leaves halState alone: the handlers    *)
(* other than the five above send no CONN_STATE event.                     *)
LEMMA NextHal == IInv /\ [Next]_vars => [HAL!Next]_halState
<1> SUFFICES ASSUME IInv, [Next]_vars PROVE [HAL!Next]_halState
  OBVIOUS
<1>1. CASE UNCHANGED vars \/ Halted
  BY <1>1 DEF vars, devVars, Halted
<1>2. ASSUME NEW a \in Addr,
             \/ HalConnect(a)
             \/ HalDisconnect(a)
             \/ SignalingConnectCb(a)
             \/ IncomingSignaling(a)
             \/ DisconnectCb(a)
      PROVE  [HAL!Next]_halState
  BY <1>2, HalConnectHal, HalDisconnectHal, SignalingConnectCbHal,
     IncomingSignalingHal, DisconnectCbHal
<1>3. ASSUME NEW a \in Addr, IncomingTransport(a)
      PROVE  UNCHANGED halState
  BY <1>3 DEF IncomingTransport, TransportBind, Crash, devVars
<1>4. ASSUME NEW d \in DevId, TransportConnectCb(d)
      PROVE  UNCHANGED halState
  BY <1>4 DEF TransportConnectCb, TransportBind, Crash, devVars
<1>5. ASSUME NEW d \in DevId, DiscoverCb(d)
      PROVE  UNCHANGED halState
  BY <1>5 DEF DiscoverCb, DiscoverShutdown, Crash, devVars
<1>6. ASSUME NEW cmd \in Opens, AudioOpen(cmd)
      PROVE  UNCHANGED halState
  BY <1>6 DEF AudioOpen, devVars
<1>7. ASSUME NEW id \in AudioIds,
             \/ AudioClose(id)
             \/ StreamOpen(id)
             \/ StreamClose(id)
             \/ StreamResume(id)
             \/ StreamSuspend(id)
      PROVE  UNCHANGED halState
  BY <1>7 DEF AudioClose, StreamOpen, StreamClose, StreamResume,
              StreamSuspend, StreamRequest, LookupCrash, Crash, devVars
<1>8. ASSUME NEW e \in EpIdx, NEW d \in DevId,
             \/ GetCapInd(e, d)
             \/ \E prop \in Proposals : SetConfInd(e, d, prop)
             \/ StreamInd(e, d)
             \/ CloseInd(e, d)
             \/ AbortCfm(e, d)
      PROVE  UNCHANGED halState
  BY <1>8 DEF GetCapInd, SetConfInd, StreamInd, CloseInd, AbortCfm,
              RemoveById, LookupCrash, Crash, devVars
<1>9. ASSUME NEW p \in PendRec,
             \/ SetConfCfm(p)
             \/ OpenCfm(p)
             \/ StartSuspendCfm(p)
             \/ CloseCfm(p)
      PROVE  UNCHANGED halState
  BY <1>9 DEF SetConfCfm, OpenCfm, StartSuspendCfm, CloseCfm, Consume,
              RemoveById, LookupCrash, Crash, devVars
<1>10. CASE Unregister
  BY <1>10, UnregisterHal
<1>11. QED
  BY <1>1, <1>2, <1>3, <1>4, <1>5, <1>6, <1>7, <1>8, <1>9, <1>10
  DEF Next, Step

(***************************************************************************)
(* HalRefinement, checked by the single_peer and two_peers runs, holds    *)
(* for all constants: the CONN_STATE events bt_a2dp_notify_state sends    *)
(* for each address follow the state machine of HalConn, across local    *)
(* and incoming connects, failures, both paths of bt_a2dp_disconnect and  *)
(* remote drops.                                                           *)
(***************************************************************************)
THEOREM HalRefinementThm == Spec => HalRefinement
<1>1. Init => HAL!Init
  BY DEF Init, HAL!Init
<1>2. IInv /\ [Next]_vars => [HAL!Next]_halState
  BY NextHal
<1>3. QED
  BY <1>1, <1>2, IInvInvariant, PTL DEF Spec, HalRefinement, HAL!Spec

=============================================================================
