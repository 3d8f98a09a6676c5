--------------------------- MODULE A2dpSetupProofs ---------------------------
(***************************************************************************)
(* Every setup and every configured stream carries a configuration        *)
(* check_config admits for an endpoint of the list (SetupConfigAccepted), *)
(* for every value of the constants.                                       *)
(*                                                                         *)
(* The argument: a setup is created only by select_configuration (one of *)
(* the endpoint's presets) or sep_setconf_ind (a codec entry check_config *)
(* accepted); setups are removed by position, so the others keep their    *)
(* values; and the endpoint list only grows, an endpoint's codec,          *)
(* capabilities and presets never change while it is listed               *)
(* (bt_audio_close only marks it freed), until bt_a2dp_unregister empties *)
(* both lists.  The step is proved under TypeInv.                          *)
(***************************************************************************)
EXTENDS A2dpTypeProofs

\* The endpoints listed before the step are still listed after it, with
\* the same codec, capabilities and presets.
EpsKept ==
    /\ Len(eps) <= Len(eps')
    /\ \A e \in 1..Len(eps) :
          /\ eps'[e].codec = eps[e].codec
          /\ eps'[e].caps = eps[e].caps
          /\ eps'[e].presets = eps[e].presets

\* The step leaves both lists alone and at most drops streams.
ListsKept == UNCHANGED <<eps, setups>> /\ streams' \subseteq streams

\* Accepted(e, conf) after the step.
AcceptedNext(e, conf) ==
    /\ e \in 1..Len(eps')
    /\ CheckConfig(eps'[e].codec, eps'[e].caps, eps'[e].presets, conf)

-----------------------------------------------------------------------------
(* An element of DropAt(s, i) is an element of s.                          *)
LEMMA DropAtElement ==
    ASSUME NEW T, NEW s \in Seq(T), NEW i \in 1..Len(s),
           NEW j \in 1..Len(DropAt(s, i))
    PROVE  \E k \in 1..Len(s) : DropAt(s, i)[j] = s[k]
<1>1. Len(DropAt(s, i)) = Len(s) - 1 /\ j \in 1..(Len(s) - 1)
  BY DropAtType DEF DropAt
<1>2. CASE j < i
  BY <1>1, <1>2 DEF DropAt
<1>3. CASE ~(j < i)
  BY <1>1, <1>3 DEF DropAt
<1>4. QED
  BY <1>2, <1>3

(* The int8_t that sep_setconf_ind stores a capability length in: a      *)
(* length octet reads back unchanged below 128 and negative from 128 on,  *)
(* so g_memdup's length is a wrapped guint exactly for those lengths.    *)
LEMMA Int8Length ==
    ASSUME NEW n \in 0..255
    PROVE  /\ Int8(n) \in -128..127
           /\ n < 128 => Int8(n) = n
           /\ Int8(n) < 0 <=> n >= 128
<1>1. CASE n < 128
  <2>1. (n + 128) % 256 = n + 128
    BY <1>1
  <2>2. QED
    BY <1>1, <2>1 DEF Int8
<1>2. CASE n >= 128
  <2>1. (n + 128) % 256 = n - 128
    BY <1>2
  <2>2. QED
    BY <1>2, <2>1 DEF Int8
<1>3. QED
  BY <1>1, <1>2

(* A configuration accepted for a listed endpoint stays accepted when the *)
(* step keeps the listed endpoints.                                        *)
LEMMA AcceptedKept ==
    ASSUME TypeInv, EpsKept, NEW e, NEW conf, Accepted(e, conf)
    PROVE  AcceptedNext(e, conf)
<1>1. Len(eps) \in Nat
  BY DEF TypeInv, TypeOK
<1>2. e \in 1..Len(eps)
  BY DEF Accepted
<1>3. e \in 1..Len(eps')
  BY <1>1, <1>2 DEF EpsKept
<1>4. QED
  BY <1>2, <1>3 DEF EpsKept, Accepted, AcceptedNext

(* The step keeps SetupConfigAccepted when it keeps the listed endpoints   *)
(* and every setup and stream after it was accepted before it.            *)
LEMMA AcceptedStep ==
    ASSUME TypeInv, EpsKept,
           \A i \in 1..Len(setups') : Accepted(setups'[i].ep, setups'[i].preset),
           \A s \in streams' : Accepted(s.ep, s.conf)
    PROVE  SetupConfigAccepted'
<1>1. \A i \in 1..Len(setups') : AcceptedNext(setups'[i].ep, setups'[i].preset)
  BY AcceptedKept
<1>2. \A s \in streams' : AcceptedNext(s.ep, s.conf)
  BY AcceptedKept
<1>3. QED
  BY <1>1, <1>2 DEF SetupConfigAccepted, Accepted, AcceptedNext

(* A step that leaves both lists alone and drops streams.                  *)
LEMMA AcceptedFrame ==
    ASSUME SetupConfigAccepted, ListsKept
    PROVE  SetupConfigAccepted'
BY DEF SetupConfigAccepted, Accepted, ListsKept

-----------------------------------------------------------------------------
(* The handlers that touch neither list.                                  *)

LEMMA CrashKeeps ==
    ASSUME NEW kind, Crash(kind)
    PROVE  ListsKept
BY DEF Crash, ListsKept, engVars

LEMMA NotifyDisconnectedKeeps ==
    ASSUME NEW a, NotifyDisconnected(a)
    PROVE  ListsKept
BY DEF NotifyDisconnected, ListsKept

LEMMA TransportBindKeeps ==
    ASSUME NEW d, NEW tp, TransportBind(d, tp)
    PROVE  ListsKept
BY CrashKeeps DEF TransportBind, ListsKept

(* HAL commands, BtIO callbacks and disconnect_cb.                         *)
LEMMA DeviceKeeps ==
    ASSUME NEW a,
           \/ HalConnect(a) \/ HalDisconnect(a) \/ SignalingConnectCb(a)
           \/ IncomingSignaling(a) \/ IncomingTransport(a) \/ DisconnectCb(a)
           \/ TransportConnectCb(a)
    PROVE  ListsKept
<1>1. CASE HalConnect(a) \/ IncomingSignaling(a)
  BY <1>1 DEF HalConnect, IncomingSignaling, ListsKept, engVars
<1>2. CASE HalDisconnect(a)
  BY <1>2, NotifyDisconnectedKeeps, CrashKeeps DEF HalDisconnect, ListsKept
<1>3. CASE SignalingConnectCb(a) \/ DisconnectCb(a)
  BY <1>3, NotifyDisconnectedKeeps DEF SignalingConnectCb, DisconnectCb,
                                      ListsKept
<1>4. CASE IncomingTransport(a) \/ TransportConnectCb(a)
  BY <1>4, TransportBindKeeps DEF IncomingTransport, TransportConnectCb,
                                 ListsKept
<1>5. QED
  BY <1>1, <1>2, <1>3, <1>4

(* OPEN_STREAM and the stream commands, and the indications that only    *)
(* look a setup up.                                                        *)
LEMMA LookupKeeps ==
    ASSUME NEW id, NEW op, NEW e, NEW d,
           \/ StreamOpen(id) \/ StreamRequest(id, op)
           \/ GetCapInd(e, d) \/ StreamInd(e, d)
    PROVE  ListsKept
BY CrashKeeps DEF StreamOpen, StreamRequest, GetCapInd, StreamInd,
                  LookupCrash, ListsKept, engVars

-----------------------------------------------------------------------------
(* Steps that keep the endpoint list and remove setups or add one.        *)

(* Setups removed by position and streams dropped.                         *)
LEMMA ShrinkAccepted ==
    ASSUME SetupConfigAccepted, UNCHANGED eps, streams' \subseteq streams,
           \A i \in 1..Len(setups') : \E k \in 1..Len(setups) : setups'[i] = setups[k]
    PROVE  SetupConfigAccepted'
BY DEF SetupConfigAccepted, Accepted

(* One setup appended, with the stream it stands for.                      *)
LEMMA GrowAccepted ==
    ASSUME TypeInv, SetupConfigAccepted, UNCHANGED eps,
           NEW e, NEW d, NEW c, NEW sh, Accepted(e, c),
           setups' = Append(setups, [dev |-> d, ep |-> e, preset |-> c,
                                     shared |-> sh]),
           streams' = streams \cup {[ep |-> e, dev |-> d, conf |-> c]}
    PROVE  SetupConfigAccepted'
<1> DEFINE new == [dev |-> d, ep |-> e, preset |-> c, shared |-> sh]
<1>1. setups \in Seq(SetupRec)
  BY DEF TypeInv, TypeOK
<1>2. /\ Len(setups') = Len(setups) + 1
      /\ \A i \in 1..Len(setups) : setups'[i] = setups[i]
      /\ setups'[Len(setups) + 1] = new
  BY <1>1, AppendProperties
<1>3. ASSUME NEW i \in 1..Len(setups')
      PROVE  AcceptedNext(setups'[i].ep, setups'[i].preset)
  <2>1. CASE i \in 1..Len(setups)
    <3>1. setups'[i] = setups[i]
      BY <1>2, <2>1
    <3>2. Accepted(setups[i].ep, setups[i].preset)
      BY <2>1 DEF SetupConfigAccepted
    <3>3. QED
      BY <3>1, <3>2 DEF Accepted, AcceptedNext
  <2>2. CASE i = Len(setups) + 1
    BY <1>2, <2>2 DEF Accepted, AcceptedNext
  <2>3. QED
    BY <1>1, <1>2, <2>1, <2>2
<1>4. \A s \in streams' : AcceptedNext(s.ep, s.conf)
  BY DEF SetupConfigAccepted, Accepted, AcceptedNext
<1>5. QED
  BY <1>3, <1>4 DEF SetupConfigAccepted, Accepted, AcceptedNext

-----------------------------------------------------------------------------
(* The handlers that change the endpoint list.                             *)

(* register_endpoint appends an endpoint; the listed ones are untouched.   *)
LEMMA AudioOpenAccepted ==
    ASSUME TypeInv, SetupConfigAccepted, NEW cmd, AudioOpen(cmd)
    PROVE  SetupConfigAccepted'
<1> DEFINE id == (Len(eps) + 1) % IdMod
           rec == [id |-> id, codec |-> cmd.codec, caps |-> Head(cmd.presets),
                   presets |-> Tail(cmd.presets),
                   st |-> IF id = 0 THEN "unowned" ELSE "live"]
<1>1. eps' = Append(eps, rec) /\ UNCHANGED <<setups, streams>>
  BY DEF AudioOpen, engVars
<1>2. eps \in Seq(EpRec)
  BY DEF TypeInv, TypeOK
<1>3. /\ Len(eps') = Len(eps) + 1
      /\ \A k \in 1..Len(eps) : eps'[k] = eps[k]
  BY <1>1, <1>2, AppendProperties
<1>4. EpsKept
  BY <1>2, <1>3 DEF EpsKept
<1>5. QED
  BY <1>1, <1>4, AcceptedStep DEF SetupConfigAccepted

(* unregister_endpoint marks the endpoint closed in place and the engine *)
(* drops its streams.                                                      *)
LEMMA AudioCloseAccepted ==
    ASSUME TypeInv, SetupConfigAccepted, NEW id, AudioClose(id)
    PROVE  SetupConfigAccepted'
<1> DEFINE e == FindEndpoint(id)
<1>1. e \in 0..Len(eps) /\ eps \in Seq(EpRec)
  BY LookupType DEF TypeInv, TypeOK
<1>2. CASE Crash("use_after_free")
  BY <1>2, CrashKeeps, AcceptedFrame
<1>3. CASE /\ e # 0
           /\ eps' = [eps EXCEPT ![e].st = "closed"]
           /\ streams' = {s \in streams : s.ep # e}
           /\ UNCHANGED setups
  <2>1. e \in 1..Len(eps)
    BY <1>1, <1>3
  <2>2. eps[e] \in EpRec
    BY <1>1, <2>1, ElementOfSeq
  <2>3. eps' = [eps EXCEPT ![e] = [eps[e] EXCEPT !.st = "closed"]]
    BY <1>3, <2>1
  <2>4. EpsKept
    BY <1>1, <2>1, <2>2, <2>3 DEF EpsKept, EpRec
  <2>5. QED
    BY <1>3, <2>4, AcceptedStep DEF SetupConfigAccepted
<1>4. QED
  BY <1>2, <1>3 DEF AudioClose

(* discover_cb records a setup, and a stream, holding one of the          *)
(* endpoint's own presets, which check_config admits.                      *)
LEMMA DiscoverCbAccepted ==
    ASSUME TypeInv, SetupConfigAccepted, NEW d \in DevId, DiscoverCb(d)
    PROVE  SetupConfigAccepted'
<1>1. CASE Crash("use_after_free")
  BY <1>1, CrashKeeps, AcceptedFrame
<1>2. CASE DiscoverShutdown(d)
  BY <1>2, AcceptedFrame DEF DiscoverShutdown, ListsKept
<1>3. CASE DiscoverSetup(d)
  <2>1. PICK e \in 1..Len(eps) :
          \E i \in 1..Len(eps[e].presets) :
             /\ streams' = streams \cup {[ep |-> e, dev |-> d, conf |-> eps[e].presets[i]]}
             /\ setups' = Append(setups, [dev |-> d, ep |-> e,
                                          preset |-> eps[e].presets[i],
                                          shared |-> TRUE])
             /\ UNCHANGED eps
    BY <1>3 DEF DiscoverSetup
  <2>2. PICK i \in 1..Len(eps[e].presets) :
             /\ streams' = streams \cup {[ep |-> e, dev |-> d, conf |-> eps[e].presets[i]]}
             /\ setups' = Append(setups, [dev |-> d, ep |-> e,
                                          preset |-> eps[e].presets[i],
                                          shared |-> TRUE])
             /\ UNCHANGED eps
    BY <2>1
  <2>3. Accepted(e, eps[e].presets[i])
    BY DEF Accepted, CheckConfig
  <2>4. QED
    BY <2>2, <2>3, GrowAccepted
<1>4. QED
  BY <1>1, <1>2, <1>3, DiscoverCbCases

(* sep_setconf_ind keeps the last codec entry of a proposal whose every   *)
(* codec entry names the endpoint's codec and passed check_config.        *)
LEMMA SetConfIndAccepted ==
    ASSUME TypeInv, SetupConfigAccepted, NEW e, NEW d, NEW prop \in Proposals,
           SetConfInd(e, d, prop)
    PROVE  SetupConfigAccepted'
<1> DEFINE codecs == {k \in 1..Len(prop) : prop[k].cat = "codec"}
           last == CHOOSE k \in codecs : \A j \in codecs : j <= k
<1>1. prop \in Seq(Entry)
  BY ConstAssumption
<1>2. CASE \E kind : Crash(kind)
  BY <1>2, CrashKeeps, AcceptedFrame
<1>3. CASE /\ e \in 1..Len(eps)
           /\ \A k \in codecs :
                 CheckConfig(eps[e].codec, eps[e].caps, eps[e].presets,
                             prop[k].conf)
           /\ codecs # {}
           /\ streams' = streams \cup {[ep |-> e, dev |-> d, conf |-> prop[last].conf]}
           /\ setups' = Append(setups, [dev |-> d, ep |-> e,
                                        preset |-> prop[last].conf,
                                        shared |-> FALSE])
           /\ UNCHANGED eps
  <2>1. Len(prop) \in Nat /\ codecs \in SUBSET (0..Len(prop))
    BY <1>1
  <2>2. \E m \in codecs : \A k \in codecs : k <= m
    BY <2>1, <1>3, GreatestElement
  <2>3. last \in codecs
    BY <2>2
  <2>4. Accepted(e, prop[last].conf)
    BY <1>3, <2>3 DEF Accepted
  <2>5. QED
    BY <1>3, <2>4, GrowAccepted
<1>4. QED
  BY <1>2, <1>3 DEF SetConfInd, PeerOn

(* setup_remove_by_id removes the setup at the index find_setup returns,  *)
(* and the engine at most drops streams.                                   *)
LEMMA RemoveByIdAccepted ==
    ASSUME TypeInv, SetupConfigAccepted, NEW id, NEW pd,
           NEW strm \in SUBSET streams, RemoveById(id, pd, strm)
    PROVE  SetupConfigAccepted'
<1> DEFINE i == FindSetup(id)
<1>1. CASE LookupCrash(id)
  BY <1>1, CrashKeeps, AcceptedFrame DEF LookupCrash
<1>2. CASE /\ setups' = IF i = 0 THEN setups ELSE DropAt(setups, i)
           /\ streams' = strm
           /\ UNCHANGED eps
  <2>1. i \in 0..Len(setups) /\ setups \in Seq(SetupRec)
    BY LookupType DEF TypeInv, TypeOK
  <2>2. CASE i = 0
    BY <1>2, <2>2, ShrinkAccepted
  <2>3. CASE i # 0
    <3>1. i \in 1..Len(setups)
      BY <2>1, <2>3
    <3>2. \A j \in 1..Len(setups') : \E k \in 1..Len(setups) : setups'[j] = setups[k]
      BY <1>2, <2>1, <2>3, <3>1, DropAtElement
    <3>3. QED
      BY <1>2, <3>2, ShrinkAccepted
  <2>4. QED
    BY <2>2, <2>3
<1>3. QED
  BY <1>1, <1>2 DEF RemoveById

(* sep_close_ind removes the first setup of the endpoint's id.            *)
LEMMA CloseIndAccepted ==
    ASSUME TypeInv, SetupConfigAccepted, NEW e, NEW d, CloseInd(e, d)
    PROVE  SetupConfigAccepted'
<1> DEFINE i == FindSetup(eps[e].id)
<1>1. CASE LookupCrash(eps[e].id)
  BY <1>1, CrashKeeps, AcceptedFrame DEF LookupCrash
<1>2. CASE /\ i # 0
           /\ SetupRemove(i)
           /\ streams' = {s \in streams : ~(s.ep = e /\ s.dev = d)}
           /\ UNCHANGED eps
  <2>1. i \in 1..Len(setups) /\ setups \in Seq(SetupRec)
    BY <1>2, LookupType DEF TypeInv, TypeOK
  <2>2. \A j \in 1..Len(setups') : \E k \in 1..Len(setups) : setups'[j] = setups[k]
    BY <1>2, <2>1, DropAtElement DEF SetupRemove
  <2>3. QED
    BY <1>2, <2>2, ShrinkAccepted
<1>3. QED
  BY <1>1, <1>2 DEF CloseInd

(* The AVDTP confirmations consume their request, remove a setup or issue *)
(* the next request.                                                       *)
LEMMA CfmAccepted ==
    ASSUME TypeInv, SetupConfigAccepted, NEW p, NEW e, NEW d,
           \/ SetConfCfm(p) \/ OpenCfm(p) \/ StartSuspendCfm(p) \/ CloseCfm(p)
           \/ AbortCfm(e, d)
    PROVE  SetupConfigAccepted'
<1>1. WithoutStream(p) \in SUBSET streams
      /\ {s \in streams : ~(s.ep = e /\ s.dev = d)} \in SUBSET streams
      /\ streams \in SUBSET streams
  BY DEF WithoutStream
<1>2. ASSUME NEW id, NEW pd,
             \/ RemoveById(id, pd, WithoutStream(p))
             \/ RemoveById(id, pd, streams)
             \/ RemoveById(id, pd, {s \in streams : ~(s.ep = e /\ s.dev = d)})
      PROVE  SetupConfigAccepted'
  BY <1>1, <1>2, RemoveByIdAccepted
<1>3. Consume(p) => SetupConfigAccepted'
  BY AcceptedFrame DEF Consume, ListsKept
<1>4. LookupCrash(eps[p.ep].id) => SetupConfigAccepted'
  BY CrashKeeps, AcceptedFrame DEF LookupCrash
<1>5. UNCHANGED <<eps, setups, streams>> => SetupConfigAccepted'
  BY DEF SetupConfigAccepted, Accepted
<1>6. QED
  BY <1>2, <1>3, <1>4, <1>5 DEF SetConfCfm, OpenCfm, StartSuspendCfm,
                                CloseCfm, AbortCfm

(* bt_a2dp_unregister crashes or empties both lists.                      *)
LEMMA UnregisterAccepted ==
    ASSUME SetupConfigAccepted, Unregister
    PROVE  SetupConfigAccepted'
<1>1. CASE Crash("use_after_free")
  BY <1>1, CrashKeeps, AcceptedFrame
<1>2. CASE setups' = <<>> /\ streams' = {}
  BY <1>2 DEF SetupConfigAccepted
<1>3. QED
  BY <1>1, <1>2 DEF Unregister

-----------------------------------------------------------------------------
(* The initial state and the step.                                         *)

LEMMA InitAccepted == Init => SetupConfigAccepted
BY DEF Init, SetupConfigAccepted

LEMMA NextAccepted ==
    ASSUME TypeInv, SetupConfigAccepted, [Next]_vars
    PROVE  SetupConfigAccepted'
<1>1. CASE UNCHANGED vars \/ Halted
  <2>1. UNCHANGED <<eps, setups, streams>>
    BY <1>1 DEF vars, Halted, engVars
  <2>2. QED
    BY <2>1 DEF SetupConfigAccepted, Accepted
<1>2. ASSUME NEW a \in Addr,
             \/ HalConnect(a) \/ HalDisconnect(a) \/ SignalingConnectCb(a)
             \/ IncomingSignaling(a) \/ IncomingTransport(a) \/ DisconnectCb(a)
      PROVE  SetupConfigAccepted'
  BY <1>2, DeviceKeeps, AcceptedFrame
<1>3. ASSUME NEW d \in DevId, DiscoverCb(d) \/ TransportConnectCb(d)
      PROVE  SetupConfigAccepted'
  BY <1>3, DiscoverCbAccepted, DeviceKeeps, AcceptedFrame
<1>4. ASSUME NEW id \in AudioIds,
             \/ AudioClose(id) \/ StreamOpen(id) \/ StreamClose(id)
             \/ StreamResume(id) \/ StreamSuspend(id)
      PROVE  SetupConfigAccepted'
  <2>1. CASE AudioClose(id)
    BY <2>1, AudioCloseAccepted
  <2>2. CASE StreamOpen(id) \/ StreamClose(id) \/ StreamResume(id)
             \/ StreamSuspend(id)
    BY <2>2, LookupKeeps, AcceptedFrame DEF StreamClose, StreamResume,
                                           StreamSuspend
  <2>3. QED
    BY <1>4, <2>1, <2>2
<1>5. ASSUME NEW e \in EpIdx, NEW d \in DevId,
             \/ GetCapInd(e, d)
             \/ \E prop \in Proposals : SetConfInd(e, d, prop)
             \/ StreamInd(e, d) \/ CloseInd(e, d) \/ AbortCfm(e, d)
      PROVE  SetupConfigAccepted'
  BY <1>5, LookupKeeps, AcceptedFrame, SetConfIndAccepted, CloseIndAccepted,
     CfmAccepted
<1>6. ASSUME NEW p \in PendRec,
             \/ SetConfCfm(p) \/ OpenCfm(p) \/ StartSuspendCfm(p) \/ CloseCfm(p)
      PROVE  SetupConfigAccepted'
  BY <1>6, CfmAccepted
<1>7. CASE \E cmd \in Opens : AudioOpen(cmd)
  BY <1>7, AudioOpenAccepted
<1>8. CASE Unregister
  BY <1>8, UnregisterAccepted
<1>9. QED
  BY <1>1, <1>2, <1>3, <1>4, <1>5, <1>6, <1>7, <1>8 DEF Next, Step

(***************************************************************************)
(* SetupConfigAccepted, checked by run endpoints, holds for every          *)
(* number of peers, endpoints and proposals: every setup that             *)
(* select_configuration or sep_setconf_ind records, and every stream the *)
(* engine holds for it, carries a configuration check_config admits for  *)
(* a listed endpoint, through any interleaving of bt_audio_open,          *)
(* bt_audio_close, the AVDTP indications and confirmations and            *)
(* bt_a2dp_unregister.                                                     *)
(***************************************************************************)
THEOREM SetupConfigAcceptedInvariant == Spec => []SetupConfigAccepted
<1>1. Spec => []TypeInv
  BY TypeInvInvariant
<1>2. TypeInv /\ SetupConfigAccepted /\ [Next]_vars => SetupConfigAccepted'
  BY NextAccepted
<1>3. QED
  BY <1>1, <1>2, InitAccepted, PTL DEF Spec

=============================================================================
