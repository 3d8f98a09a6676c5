---------------------------- MODULE A2dpTypeProofs ----------------------------
(***************************************************************************)
(* Type correctness of A2dp for every value of the constants: the lists   *)
(* and the engine's sets keep their shapes, every record names a device   *)
(* incarnation and an endpoint slot that exist, and every list index a    *)
(* handler computes is within the list.                                    *)
(*                                                                         *)
(* TypeOK is not inductive by itself: a handler that records Dev(a) needs *)
(* a record of a to exist, so that gen[a] is an incarnation 1..MaxGen.    *)
(* TypeInv adds that, and the proof uses IInv (A2dpProofs) to know which *)
(* addresses a callback can name.                                          *)
(***************************************************************************)
EXTENDS A2dpProofs, WellFoundedInduction, SequenceTheorems

\* Every address with a record has had one created, so gen[a] >= 1.
GenInv == \A a \in tracked : gen[a] \in 1..MaxGen

TypeInv == TypeOK /\ GenInv

-----------------------------------------------------------------------------
(* The least-number principle for a set of naturals, from the well-       *)
(* foundedness of < on Nat.                                                *)
LEMMA LeastElement ==
    ASSUME NEW S \in SUBSET Nat, S # {}
    PROVE  \E m \in S : \A k \in S : m <= k
<1> DEFINE R == OpToRel(<, Nat)
<1>1. \E x \in S : \A y \in S : ~(<<y, x>> \in R)
  BY NatLessThanWellFounded, WFMin
<1>2. \A x, y \in Nat : y < x => <<y, x>> \in R
  BY Zenon DEF OpToRel
<1> HIDE DEF R
<1>3. PICK x \in S : \A y \in S : ~(<<y, x>> \in R)
  BY <1>1
<1>4. \A k \in S : x <= k
  <2> TAKE k \in S
  <2>1. ~(<<k, x>> \in R)
    BY <1>3
  <2>2. ~(k < x)
    BY <2>1, <1>2
  <2>3. QED
    BY <2>2
<1>5. QED
  BY <1>4

(* A non-empty set of naturals bounded by n has a greatest element.        *)
LEMMA GreatestElement ==
    ASSUME NEW n \in Nat, NEW S \in SUBSET (0..n), S # {}
    PROVE  \E m \in S : \A k \in S : k <= m
<1> DEFINE T == {n - x : x \in S}
<1>1. T \in SUBSET Nat /\ T # {}
  OBVIOUS
<1>2. PICK t \in T : \A k \in T : t <= k
  BY <1>1, LeastElement
<1>3. PICK x \in S : t = n - x
  OBVIOUS
<1>4. \A k \in S : k <= x
  <2> TAKE k \in S
  <2>1. n - k \in T
    OBVIOUS
  <2>2. t <= n - k
    BY <1>2, <2>1
  <2>3. QED
    BY <1>3, <2>2
<1>5. QED
  BY <1>4

(* FirstOf(I), the loops' "first match", is 0 or the least member of I.    *)
LEMMA FirstOfType ==
    ASSUME NEW n \in Nat, NEW I \in SUBSET (1..n)
    PROVE  /\ FirstOf(I) \in 0..n
           /\ FirstOf(I) = 0 <=> I = {}
           /\ I # {} => FirstOf(I) \in I
<1>1. CASE I = {}
  BY <1>1 DEF FirstOf
<1>2. CASE I # {}
  <2>1. \E m \in I : \A k \in I : m <= k
    BY <1>2, LeastElement
  <2>2. FirstOf(I) \in I
    BY <1>2, <2>1, Zenon DEF FirstOf
  <2>3. FirstOf(I) \in 1..n
    BY <2>2
  <2>4. QED
    BY <1>2, <2>2, <2>3
<1>3. QED
  BY <1>1, <1>2

(* Dropping the i-th element of a sequence keeps its element type.         *)
LEMMA DropAtType ==
    ASSUME NEW T, NEW s \in Seq(T), NEW i \in 1..Len(s)
    PROVE  DropAt(s, i) \in Seq(T)
BY DEF DropAt

(* find_setup, find_setup_by_device and find_endpoint return 0 or an index *)
(* of the list they walk.                                                   *)
LEMMA LookupType ==
    ASSUME TypeOK
    PROVE  /\ \A id : FindSetup(id) \in 0..Len(setups)
           /\ \A d : FindSetupByDevice(d) \in 0..Len(setups)
           /\ \A id : FindEndpoint(id) \in 0..Len(eps)
<1>1. Len(setups) \in Nat /\ Len(eps) \in Nat
  BY DEF TypeOK
<1>2. ASSUME NEW id PROVE FindSetup(id) \in 0..Len(setups)
  BY <1>1, FirstOfType DEF FindSetup, FirstIndex
<1>3. ASSUME NEW d PROVE FindSetupByDevice(d) \in 0..Len(setups)
  BY <1>1, FirstOfType DEF FindSetupByDevice, FirstIndex
<1>4. ASSUME NEW id PROVE FindEndpoint(id) \in 0..Len(eps)
  BY <1>1, FirstOfType DEF FindEndpoint, FirstIndex
<1>5. QED
  BY <1>2, <1>3, <1>4

-----------------------------------------------------------------------------
(* The initial state.                                                      *)
LEMMA InitType == Init => TypeInv
BY ConstAssumption DEF Init, TypeInv, TypeOK, GenInv, States, NoRsp, NoBlob,
                       Blob, Mask, Faults

(* The current record of a tracked address is a device incarnation.        *)
LEMMA DevType ==
    ASSUME TypeInv, NEW a \in tracked
    PROVE  Dev(a) \in DevId
BY DEF TypeInv, TypeOK, GenInv, Dev, DevId

(* Undefined behaviour only sets fault.                                    *)
LEMMA CrashType ==
    ASSUME TypeInv, NEW kind \in Faults, Crash(kind)
    PROVE  TypeInv'
BY DEF Crash, TypeInv, TypeOK, GenInv, devVars, engVars

(* A record freed after DISCONNECTED: every set only loses members.        *)
LEMMA NotifyDisconnectedType ==
    ASSUME TypeInv, NEW a \in Addr, NotifyDisconnected(a)
    PROVE  TypeInv'
BY DEF NotifyDisconnected, Notify, TypeInv, TypeOK, GenInv, States

LEMMA HalConnectType ==
    ASSUME TypeInv, NEW a \in Addr, HalConnect(a)
    PROVE  TypeInv'
BY ConstAssumption DEF HalConnect, Notify, TypeInv, TypeOK, GenInv, States,
                       engVars

LEMMA HalDisconnectType ==
    ASSUME TypeInv, NEW a \in Addr, HalDisconnect(a)
    PROVE  TypeInv'
<1>1. CASE NotifyDisconnected(a)
  BY <1>1, NotifyDisconnectedType
<1>2. CASE Crash("null_deref")
  BY <1>2, CrashType DEF Faults
<1>3. CASE /\ a \in tracked
           /\ shutdownReq' = shutdownReq \cup {Dev(a)}
           /\ Notify(a, "DISCONNECTING")
           /\ UNCHANGED <<tracked, io, session, gen, eps, setups, streams,
                          pend, discovering, transPending, openRsp, fault>>
  <2>1. Dev(a) \in DevId
    BY <1>3, DevType
  <2>2. QED
    BY <1>3, <2>1 DEF TypeInv, TypeOK, GenInv, Notify, States
<1>4. QED
  BY <1>1, <1>2, <1>3 DEF HalDisconnect

(* signaling_connect_cb runs for a tracked address: only a record holds  *)
(* the outbound channel.                                                   *)
LEMMA SignalingConnectCbType ==
    ASSUME TypeInv, IInv, NEW a \in Addr, SignalingConnectCb(a)
    PROVE  TypeInv'
<1>1. a \in tracked
  BY DEF SignalingConnectCb, IInv, SessionInv, UntrackedHoldsNothing
<1>2. Dev(a) \in DevId
  BY <1>1, DevType
<1>3. CASE NotifyDisconnected(a)
  BY <1>3, NotifyDisconnectedType
<1>4. CASE /\ session' = [session EXCEPT ![a] = TRUE]
           /\ io' = [io EXCEPT ![a] = "none"]
           /\ discovering' = IF devState[a] = "CONNECTING"
                             THEN discovering \cup {Dev(a)}
                             ELSE discovering
           /\ Notify(a, "CONNECTED")
           /\ UNCHANGED <<tracked, gen, eps, setups, streams, pend,
                          transPending, shutdownReq, openRsp, fault>>
  BY <1>2, <1>4 DEF TypeInv, TypeOK, GenInv, Notify, States
<1>5. QED
  BY <1>3, <1>4 DEF SignalingConnectCb

LEMMA IncomingSignalingType ==
    ASSUME TypeInv, NEW a \in Addr, IncomingSignaling(a)
    PROVE  TypeInv'
<1>1. /\ tracked' = tracked \cup {a}
      /\ gen' = [gen EXCEPT ![a] = @ + 1]
      /\ gen[a] < MaxGen
      /\ UNCHANGED <<io, eps, setups, engVars, openRsp, fault>>
  BY DEF IncomingSignaling
<1>2. (TypeOK /\ GenInv)' = (/\ devState' \in [Addr -> States]
                            /\ session' \in [Addr -> BOOLEAN]
                            /\ halState' \in [Addr -> States])
  BY <1>1, ConstAssumption DEF TypeInv, TypeOK, GenInv, engVars
<1>3. CASE UNCHANGED <<devState, halState, session>>
  BY <1>2, <1>3 DEF TypeInv, TypeOK
<1>4. CASE /\ session' = [session EXCEPT ![a] = TRUE]
           /\ Notify(a, "CONNECTED")
  BY <1>2, <1>4 DEF TypeInv, TypeOK, Notify, States
<1>5. QED
  BY <1>3, <1>4 DEF IncomingSignaling, TypeInv

(* transport_connect_cb binds the channel of a device incarnation.        *)
LEMMA TransportBindType ==
    ASSUME TypeInv, NEW d \in DevId, NEW tp \in SUBSET DevId,
           TransportBind(d, tp)
    PROVE  TypeInv'
<1>1. CASE Crash("use_after_free")
  BY <1>1, CrashType DEF Faults
<1>2. CASE /\ io' = [io EXCEPT ![d[1]] = "none"]
           /\ transPending' = tp
           /\ UNCHANGED <<tracked, devState, session, gen, halState, eps,
                          setups, streams, pend, discovering, shutdownReq,
                          openRsp, fault>>
  BY <1>2 DEF TypeInv, TypeOK, GenInv, DevId
<1>3. QED
  BY <1>1, <1>2 DEF TransportBind

LEMMA TransportType ==
    ASSUME TypeInv, \/ \E a \in Addr : IncomingTransport(a)
                    \/ \E d \in DevId : TransportConnectCb(d)
    PROVE  TypeInv'
<1>1. ASSUME NEW a \in Addr, IncomingTransport(a) PROVE TypeInv'
  <2>1. Dev(a) \in DevId /\ transPending \in SUBSET DevId
    BY <1>1, DevType DEF IncomingTransport, TypeInv, TypeOK
  <2>2. QED
    BY <1>1, <2>1, TransportBindType DEF IncomingTransport
<1>2. ASSUME NEW d \in DevId, TransportConnectCb(d) PROVE TypeInv'
  <2>1. transPending \ {d} \in SUBSET DevId
    BY DEF TypeInv, TypeOK
  <2>2. CASE TransportBind(d, transPending \ {d})
    BY <2>1, <2>2, TransportBindType
  <2>3. CASE /\ transPending' = transPending \ {d}
             /\ UNCHANGED <<devVars, eps, setups, streams, pend, discovering,
                            shutdownReq, openRsp, fault>>
    BY <2>3 DEF TypeInv, TypeOK, GenInv, devVars
  <2>4. QED
    BY <1>2, <2>2, <2>3 DEF TransportConnectCb
<1>3. QED
  BY <1>1, <1>2

(* The index of the first local endpoint whose codec one of the remote   *)
(* SEPs R offers, as discover_cb computes it (0: none).                   *)
DiscoverMatch(R) == FirstIndex(eps, LAMBDA ep : \E r \in R : r.codec = ep.codec)

(* The setup select_configuration adds for device d: one of the presets  *)
(* of a listed endpoint e, with SET_CONFIGURATION issued on e.             *)
DiscoverSetup(d) ==
    \E e \in 1..Len(eps) : \E i \in 1..Len(eps[e].presets) :
       /\ streams' = streams \cup {[ep |-> e, dev |-> d, conf |-> eps[e].presets[i]]}
       /\ pend' = pend \cup {[op |-> "setconf", ep |-> e, dev |-> d]}
       /\ setups' = Append(setups, [dev |-> d, ep |-> e,
                                    preset |-> eps[e].presets[i], shared |-> TRUE])
       /\ discovering' = discovering \ {d}
       /\ UNCHANGED <<devVars, eps, transPending, shutdownReq, openRsp, fault>>

(* DISCOVER's answer: discover_cb crashes on a freed endpoint, shuts the  *)
(* session down, or records a setup of a listed endpoint with one of its *)
(* presets.                                                                *)
LEMMA DiscoverCbCases ==
    ASSUME TypeInv, NEW d \in DevId, DiscoverCb(d)
    PROVE  \/ Crash("use_after_free")
           \/ DiscoverShutdown(d)
           \/ DiscoverSetup(d)
<1>1. Len(eps) \in Nat /\ Len(eps) <= MaxEndpoints /\ eps \in Seq(EpRec)
  BY DEF TypeInv, TypeOK
<1>2. ASSUME NEW R PROVE DiscoverMatch(R) \in 0..Len(eps)
  BY <1>1, FirstOfType DEF DiscoverMatch, FirstIndex
<1>3. ASSUME NEW e \in 1..Len(eps), NEW r \in RemoteSeps
      PROVE  SelectPreset(eps[e].presets, r.codec, r.caps)
                \in 0..Len(eps[e].presets)
  <2>0. eps[e] \in EpRec
    BY <1>1
  <2>1. eps[e].presets \in Seq(Blob)
    BY <2>0 DEF EpRec
  <2>2. QED
    BY <2>1, FirstOfType DEF SelectPreset, FirstIndex
<1>4. QED
  <2>1. PICK R \in SUBSET RemoteSeps :
          LET e == DiscoverMatch(R)
              passed == IF e = 0 THEN 1..Len(eps) ELSE 1..e
          IN
          \/ /\ \E k \in passed : eps[k].st = "closed"
             /\ Crash("use_after_free")
          \/ /\ \A k \in passed : eps[k].st # "closed"
             /\ e = 0
             /\ DiscoverShutdown(d)
          \/ /\ \A k \in passed : eps[k].st # "closed"
             /\ e # 0
             /\ eps[e].st = "unowned"
             /\ Crash("use_after_free")
          \/ /\ \A k \in passed : eps[k].st # "closed"
             /\ e # 0
             /\ eps[e].st = "live"
             /\ \E r \in R :
                LET i == SelectPreset(eps[e].presets, r.codec, r.caps) IN
                /\ r.codec = eps[e].codec
                /\ \/ /\ i = 0
                      /\ DiscoverShutdown(d)
                   \/ /\ i # 0
                      /\ DiscoverShutdown(d)
                   \/ /\ i # 0
                      /\ ~\E s \in streams : s.ep = e
                      /\ streams' = streams \cup
                                      {[ep |-> e, dev |-> d,
                                        conf |-> eps[e].presets[i]]}
                      /\ pend' = pend \cup {[op |-> "setconf", ep |-> e, dev |-> d]}
                      /\ setups' = Append(setups,
                                     [dev |-> d, ep |-> e,
                                      preset |-> eps[e].presets[i],
                                      shared |-> TRUE])
                      /\ discovering' = discovering \ {d}
                      /\ UNCHANGED <<devVars, eps, transPending, shutdownReq,
                                     openRsp, fault>>
    BY DEF DiscoverCb, DiscoverMatch
  <2> DEFINE e == DiscoverMatch(R)
  <2> DEFINE Chosen(r) ==
        LET i == SelectPreset(eps[e].presets, r.codec, r.caps) IN
        \/ DiscoverShutdown(d)
        \/ /\ i # 0
           /\ streams' = streams \cup
                           {[ep |-> e, dev |-> d, conf |-> eps[e].presets[i]]}
           /\ pend' = pend \cup {[op |-> "setconf", ep |-> e, dev |-> d]}
           /\ setups' = Append(setups,
                          [dev |-> d, ep |-> e,
                           preset |-> eps[e].presets[i], shared |-> TRUE])
           /\ discovering' = discovering \ {d}
           /\ UNCHANGED <<devVars, eps, transPending, shutdownReq,
                          openRsp, fault>>
  <2>2. \/ Crash("use_after_free")
        \/ DiscoverShutdown(d)
        \/ e # 0 /\ \E r \in R : Chosen(r)
    BY <2>1
  <2>3. CASE Crash("use_after_free") \/ DiscoverShutdown(d)
    BY <2>3
  <2>4. CASE e # 0 /\ \E r \in R : Chosen(r)
    <3>1. e \in 1..Len(eps)
      BY <1>2, <2>4
    <3>2. PICK r \in R : Chosen(r)
      BY <2>4
    <3> DEFINE i == SelectPreset(eps[e].presets, r.codec, r.caps)
    <3>3. R \subseteq RemoteSeps
      OBVIOUS
    <3>4. i \in 0..Len(eps[e].presets)
      BY <3>1, <3>3, <1>3
    <3>5. CASE DiscoverShutdown(d)
      BY <3>5
    <3>6. CASE ~DiscoverShutdown(d)
      <4>1. i # 0
            /\ streams' = streams \cup
                            {[ep |-> e, dev |-> d, conf |-> eps[e].presets[i]]}
            /\ pend' = pend \cup {[op |-> "setconf", ep |-> e, dev |-> d]}
            /\ setups' = Append(setups,
                           [dev |-> d, ep |-> e,
                            preset |-> eps[e].presets[i], shared |-> TRUE])
            /\ discovering' = discovering \ {d}
            /\ UNCHANGED <<devVars, eps, transPending, shutdownReq,
                           openRsp, fault>>
        BY <3>2, <3>6
      <4>2. i \in 1..Len(eps[e].presets)
        BY <3>4, <4>1
      <4>3. DiscoverSetup(d)
        BY <3>1, <4>1, <4>2 DEF DiscoverSetup
      <4>4. QED
        BY <4>3
    <3>7. QED
      BY <3>5, <3>6
  <2>5. QED
    BY <2>2, <2>3, <2>4

(* DISCOVER's answer: select_configuration records a setup of an endpoint *)
(* of the list with one of that endpoint's presets.                       *)
LEMMA DiscoverCbType ==
    ASSUME TypeInv, NEW d \in DevId, DiscoverCb(d)
    PROVE  TypeInv'
<1>1. Len(eps) \in Nat /\ eps \in Seq(EpRec)
  BY DEF TypeInv, TypeOK
<1>2. CASE Crash("use_after_free")
  BY <1>2, CrashType DEF Faults
<1>3. CASE DiscoverShutdown(d)
  BY <1>3 DEF DiscoverShutdown, TypeInv, TypeOK, GenInv, devVars
<1>4. CASE DiscoverSetup(d)
  <2>0. PICK e \in 1..Len(eps) : \E i \in 1..Len(eps[e].presets) :
          /\ streams' = streams \cup {[ep |-> e, dev |-> d, conf |-> eps[e].presets[i]]}
          /\ pend' = pend \cup {[op |-> "setconf", ep |-> e, dev |-> d]}
          /\ setups' = Append(setups, [dev |-> d, ep |-> e,
                                       preset |-> eps[e].presets[i], shared |-> TRUE])
          /\ discovering' = discovering \ {d}
          /\ UNCHANGED <<devVars, eps, transPending, shutdownReq, openRsp, fault>>
    BY <1>4 DEF DiscoverSetup
  <2>1. PICK i \in 1..Len(eps[e].presets) :
          /\ streams' = streams \cup {[ep |-> e, dev |-> d, conf |-> eps[e].presets[i]]}
          /\ pend' = pend \cup {[op |-> "setconf", ep |-> e, dev |-> d]}
          /\ setups' = Append(setups, [dev |-> d, ep |-> e,
                                       preset |-> eps[e].presets[i], shared |-> TRUE])
          /\ discovering' = discovering \ {d}
          /\ UNCHANGED <<devVars, eps, transPending, shutdownReq, openRsp, fault>>
    BY <2>0
  <2>2. eps[e] \in EpRec
    BY <1>1, ElementOfSeq
  <2>3. eps[e].presets \in Seq(Blob)
    BY <2>2 DEF EpRec
  <2>4. e \in EpIdx
    BY ConstAssumption DEF TypeInv, TypeOK, EpIdx
  <2>5. eps[e].presets[i] \in Blob
    BY <2>3, ElementOfSeq
  <2>6. QED
    BY <2>1, <2>4, <2>5 DEF TypeInv, TypeOK, GenInv, devVars, SetupRec,
                            StreamRec, PendRec, Ops
<1>5. QED
  BY <1>2, <1>3, <1>4, DiscoverCbCases

(* register_endpoint appends an endpoint whose id is a uint8_t; the       *)
(* command's first preset is its capabilities, the rest its presets.      *)
LEMMA AudioOpenType ==
    ASSUME TypeInv, NEW cmd \in Opens, AudioOpen(cmd)
    PROVE  TypeInv'
<1> DEFINE id == (Len(eps) + 1) % IdMod
           rec == [id |-> id, codec |-> cmd.codec, caps |-> Head(cmd.presets),
                   presets |-> Tail(cmd.presets),
                   st |-> IF id = 0 THEN "unowned" ELSE "live"]
<1>1. cmd.presets \in Seq(Blob) /\ cmd.presets # <<>> /\ cmd.codec \in Codecs
  BY ConstAssumption
<1>2. Head(cmd.presets) \in Blob /\ Tail(cmd.presets) \in Seq(Blob)
  BY <1>1, HeadTailProperties
<1>3. id \in 0..(IdMod - 1)
  BY ConstAssumption DEF TypeInv, TypeOK
<1>4. rec \in EpRec
  BY <1>1, <1>2, <1>3 DEF EpRec
<1>5. eps' = Append(eps, rec) /\ Len(eps) < MaxEndpoints
  BY DEF AudioOpen
<1>6. eps' \in Seq(EpRec) /\ Len(eps') <= MaxEndpoints
  <2>1. eps \in Seq(EpRec)
    BY DEF TypeInv, TypeOK
  <2>2. Append(eps, rec) \in Seq(EpRec) /\ Len(Append(eps, rec)) = Len(eps) + 1
    BY <2>1, <1>4, AppendProperties
  <2>3. QED
    BY <1>5, <2>1, <2>2, ConstAssumption
<1>7. QED
  BY <1>6 DEF AudioOpen, TypeInv, TypeOK, GenInv, devVars, engVars

(* unregister_endpoint marks the endpoint closed in place.                *)
LEMMA AudioCloseType ==
    ASSUME TypeInv, NEW id, AudioClose(id)
    PROVE  TypeInv'
<1> DEFINE e == FindEndpoint(id)
<1>1. e \in 0..Len(eps)
  BY LookupType DEF TypeInv
<1>2. CASE Crash("use_after_free")
  BY <1>2, CrashType DEF Faults
<1>3. CASE /\ e # 0
           /\ eps' = [eps EXCEPT ![e].st = "closed"]
           /\ streams' = {s \in streams : s.ep # e}
           /\ pend' = {p \in pend : p.ep # e}
           /\ UNCHANGED <<devVars, setups, discovering, transPending,
                          shutdownReq, openRsp, fault>>
  <2>1. e \in 1..Len(eps) /\ eps \in Seq(EpRec)
    BY <1>1, <1>3 DEF TypeInv, TypeOK
  <2>2. [eps[e] EXCEPT !.st = "closed"] \in EpRec
    <3>1. eps[e] \in EpRec
      BY <2>1, ElementOfSeq
    <3>2. QED
      BY <3>1 DEF EpRec
  <2>3. eps' = [eps EXCEPT ![e] = [eps[e] EXCEPT !.st = "closed"]]
    BY <1>3, <2>1
  <2>4. eps' \in Seq(EpRec) /\ Len(eps') = Len(eps)
    BY <2>1, <2>2, <2>3, ExceptSeq
  <2>5. QED
    BY <1>3, <2>4 DEF TypeInv, TypeOK, GenInv, devVars
<1>4. QED
  BY <1>2, <1>3 DEF AudioClose

(* A handler whose find_setup reads a freed endpoint.                     *)
LEMMA LookupCrashType ==
    ASSUME TypeInv, NEW id, LookupCrash(id)
    PROVE  TypeInv'
BY CrashType DEF LookupCrash, Faults

(* bt_stream_open replies with a setup's preset and the command's id.     *)
LEMMA StreamOpenType ==
    ASSUME TypeInv, NEW id \in AudioIds, StreamOpen(id)
    PROVE  TypeInv'
<1> DEFINE i == FindSetup(id)
<1>1. CASE LookupCrash(id)
  BY <1>1, LookupCrashType
<1>2. CASE /\ i # 0
           /\ openRsp' = [id |-> id, preset |-> setups[i].preset]
           /\ UNCHANGED <<devVars, eps, setups, engVars, fault>>
  <2>1. i \in 1..Len(setups) /\ setups \in Seq(SetupRec)
    BY <1>2, LookupType DEF TypeInv, TypeOK
  <2>2. setups[i] \in SetupRec
    BY <2>1, ElementOfSeq
  <2>3. setups[i].preset \in Blob /\ id \in 0..IdMod
    BY <2>2, ConstAssumption DEF SetupRec
  <2>4. QED
    BY <1>2, <2>3 DEF TypeInv, TypeOK, GenInv, devVars, engVars
<1>3. QED
  BY <1>1, <1>2 DEF StreamOpen

(* bt_stream_close/resume/suspend issue a request on a setup's stream.    *)
LEMMA StreamRequestType ==
    ASSUME TypeInv, NEW id, NEW op \in Ops, StreamRequest(id, op)
    PROVE  TypeInv'
<1> DEFINE i == FindSetup(id)
<1>1. CASE LookupCrash(id) \/ Crash("use_after_free")
  BY <1>1, LookupCrashType, CrashType DEF Faults
<1>2. CASE /\ i # 0
           /\ pend' = pend \cup {[op |-> op, ep |-> setups[i].ep,
                                   dev |-> setups[i].dev]}
           /\ UNCHANGED <<devVars, eps, setups, streams, discovering,
                          transPending, shutdownReq, openRsp, fault>>
  <2>1. i \in 1..Len(setups) /\ setups \in Seq(SetupRec)
    BY <1>2, LookupType DEF TypeInv, TypeOK
  <2>2. setups[i] \in SetupRec
    BY <2>1, ElementOfSeq
  <2>3. [op |-> op, ep |-> setups[i].ep, dev |-> setups[i].dev] \in PendRec
    BY <2>2 DEF SetupRec, PendRec
  <2>4. QED
    BY <1>2, <2>3 DEF TypeInv, TypeOK, GenInv, devVars
<1>3. QED
  BY <1>1, <1>2 DEF StreamRequest

(* sep_getcap_ind and the indications that only look a setup up.          *)
LEMMA IndicationCrashType ==
    ASSUME TypeInv, NEW e, NEW d, GetCapInd(e, d) \/ StreamInd(e, d)
    PROVE  TypeInv'
BY LookupCrashType, CrashType DEF GetCapInd, StreamInd, Faults

(* sep_setconf_ind records a setup with the last codec entry's            *)
(* configuration of the proposal.                                          *)
LEMMA SetConfIndType ==
    ASSUME TypeInv, NEW e \in EpIdx, NEW d \in DevId, NEW prop \in Proposals,
           SetConfInd(e, d, prop)
    PROVE  TypeInv'
<1> DEFINE codecs == {k \in 1..Len(prop) : prop[k].cat = "codec"}
           last == CHOOSE k \in codecs : \A j \in codecs : j <= k
<1>1. prop \in Seq(Entry)
  BY ConstAssumption
<1>2. CASE \E kind \in Faults : Crash(kind)
  BY <1>2, CrashType
<1>3. CASE /\ codecs # {}
           /\ streams' = streams \cup {[ep |-> e, dev |-> d, conf |-> prop[last].conf]}
           /\ setups' = Append(setups, [dev |-> d, ep |-> e,
                                        preset |-> prop[last].conf,
                                        shared |-> FALSE])
           /\ UNCHANGED <<devVars, eps, pend, discovering, transPending,
                          shutdownReq, openRsp, fault>>
  <2>0. Len(prop) \in Nat /\ codecs \in SUBSET (0..Len(prop))
    BY <1>1
  <2>1. \E m \in codecs : \A k \in codecs : k <= m
    BY <2>0, <1>3, GreatestElement
  <2>2. last \in 1..Len(prop)
    BY <2>1
  <2>3. prop[last] \in Entry
    BY <1>1, <2>2, ElementOfSeq
  <2>4. prop[last].conf \in Blob
    BY <2>3 DEF Entry
  <2>5. [dev |-> d, ep |-> e, preset |-> prop[last].conf, shared |-> FALSE]
          \in SetupRec
    BY <2>4 DEF SetupRec
  <2>6. setups' \in Seq(SetupRec)
    <3>1. setups \in Seq(SetupRec)
      BY DEF TypeInv, TypeOK
    <3>2. QED
      BY <1>3, <2>5, <3>1, AppendProperties
  <2>7. streams' \subseteq StreamRec
    <3>1. \A c \in Blob : streams \cup {[ep |-> e, dev |-> d, conf |-> c]}
                          \subseteq StreamRec
      BY DEF TypeInv, TypeOK, StreamRec
    <3>2. QED
      BY <1>3, <2>4, <3>1, Zenon
  <2>8. QED
    BY <1>3, <2>6, <2>7 DEF TypeInv, TypeOK, GenInv, devVars
<1>4. \A k : (IF Int8(prop[k].conf.len) < 0 THEN "oversized_copy"
                                            ELSE "use_after_free") \in Faults
  BY DEF Faults
<1>5. QED
  BY <1>2, <1>3, <1>4 DEF SetConfInd

(* setup_remove_by_id after a confirmation, with the engine's requests    *)
(* and streams afterwards pd and strm.                                    *)
LEMMA RemoveByIdType ==
    ASSUME TypeInv, NEW id, NEW pd \in SUBSET PendRec,
           NEW strm \in SUBSET StreamRec, RemoveById(id, pd, strm)
    PROVE  TypeInv'
<1> DEFINE i == FindSetup(id)
<1>1. CASE LookupCrash(id)
  BY <1>1, LookupCrashType
<1>2. CASE /\ setups' = IF i = 0 THEN setups ELSE DropAt(setups, i)
           /\ pend' = pd
           /\ streams' = strm
           /\ UNCHANGED <<devVars, eps, discovering, transPending, shutdownReq,
                          openRsp, fault>>
  <2>1. i \in 0..Len(setups) /\ setups \in Seq(SetupRec)
    BY LookupType DEF TypeInv, TypeOK
  <2>2. setups' \in Seq(SetupRec)
    BY <1>2, <2>1, DropAtType
  <2>3. QED
    BY <1>2, <2>2 DEF TypeInv, TypeOK, GenInv, devVars
<1>3. QED
  BY <1>1, <1>2 DEF RemoveById

(* sep_close_ind removes the first setup of the endpoint's id.            *)
LEMMA CloseIndType ==
    ASSUME TypeInv, NEW e, NEW d, CloseInd(e, d)
    PROVE  TypeInv'
<1> DEFINE i == FindSetup(eps[e].id)
<1>1. CASE LookupCrash(eps[e].id)
  BY <1>1, LookupCrashType
<1>2. CASE /\ i # 0
           /\ SetupRemove(i)
           /\ streams' = {s \in streams : ~(s.ep = e /\ s.dev = d)}
           /\ UNCHANGED <<devVars, eps, pend, discovering, transPending,
                          shutdownReq, openRsp, fault>>
  <2>1. i \in 1..Len(setups) /\ setups \in Seq(SetupRec)
    BY <1>2, LookupType DEF TypeInv, TypeOK
  <2>2. setups' \in Seq(SetupRec)
    BY <1>2, <2>1, DropAtType DEF SetupRemove
  <2>3. QED
    BY <1>2, <2>2 DEF TypeInv, TypeOK, GenInv, devVars
<1>3. QED
  BY <1>1, <1>2 DEF CloseInd

(* A confirmation that only consumes its request.                         *)
LEMMA ConsumeType ==
    ASSUME TypeInv, NEW p, Consume(p)
    PROVE  TypeInv'
BY DEF Consume, TypeInv, TypeOK, GenInv, devVars

(* sep_setconf_cfm: the request is consumed, the setup removed, or        *)
(* avdtp_open issued on the same stream.                                   *)
LEMMA SetConfCfmType ==
    ASSUME TypeInv, NEW p \in PendRec, SetConfCfm(p)
    PROVE  TypeInv'
<1> DEFINE id == eps[p.ep].id
<1>1. pend \ {p} \in SUBSET PendRec /\ WithoutStream(p) \in SUBSET StreamRec
      /\ streams \in SUBSET StreamRec
  BY DEF TypeInv, TypeOK, WithoutStream
<1>2. CASE LookupCrash(id) \/ Consume(p)
  BY <1>2, LookupCrashType, ConsumeType
<1>3. CASE RemoveById(id, pend \ {p}, WithoutStream(p))
           \/ RemoveById(id, pend \ {p}, streams)
  BY <1>1, <1>3, RemoveByIdType
<1>4. CASE /\ pend' = (pend \ {p}) \cup {[p EXCEPT !.op = "open"]}
           /\ UNCHANGED <<devVars, eps, setups, streams, discovering,
                          transPending, shutdownReq, openRsp, fault>>
  <2>1. [p EXCEPT !.op = "open"] \in PendRec
    BY DEF PendRec, Ops
  <2>2. QED
    BY <1>4, <2>1 DEF TypeInv, TypeOK, GenInv, devVars
<1>5. QED
  BY <1>2, <1>3, <1>4 DEF SetConfCfm

(* sep_open_cfm: the setup removed, or the transport connect started and  *)
(* its channel (or NULL) stored in dev->io.                               *)
LEMMA OpenCfmType ==
    ASSUME TypeInv, NEW p \in PendRec, OpenCfm(p)
    PROVE  TypeInv'
<1>1. CASE RemoveById(eps[p.ep].id, pend \ {p}, streams)
  BY <1>1, RemoveByIdType DEF TypeInv, TypeOK
<1>2. CASE /\ pend' = pend \ {p}
           /\ \/ /\ io' = [io EXCEPT ![p.dev[1]] = "trans"]
                 /\ transPending' = transPending \cup {p.dev}
              \/ /\ io' = [io EXCEPT ![p.dev[1]] = "none"]
                 /\ UNCHANGED transPending
           /\ UNCHANGED <<tracked, devState, session, gen, halState, eps,
                          setups, streams, discovering, shutdownReq, openRsp,
                          fault>>
  <2>1. p.dev \in DevId /\ p.dev[1] \in Addr
    BY DEF PendRec, DevId
  <2>2. QED
    BY <1>2, <2>1 DEF TypeInv, TypeOK, GenInv
<1>3. QED
  BY <1>1, <1>2 DEF OpenCfm

(* sep_start_cfm, sep_suspend_cfm, sep_close_cfm.                         *)
LEMMA OtherCfmType ==
    ASSUME TypeInv, NEW p \in PendRec, StartSuspendCfm(p) \/ CloseCfm(p)
    PROVE  TypeInv'
<1>1. pend \ {p} \in SUBSET PendRec /\ WithoutStream(p) \in SUBSET StreamRec
      /\ streams \in SUBSET StreamRec
  BY DEF TypeInv, TypeOK, WithoutStream
<1>2. \/ Consume(p)
      \/ RemoveById(eps[p.ep].id, pend \ {p}, streams)
      \/ RemoveById(eps[p.ep].id, pend \ {p}, WithoutStream(p))
  BY DEF StartSuspendCfm, CloseCfm
<1>3. QED
  BY <1>1, <1>2, ConsumeType, RemoveByIdType

(* sep_abort_cfm: the engine drops the aborted stream and its requests.   *)
LEMMA AbortCfmType ==
    ASSUME TypeInv, NEW e, NEW d, AbortCfm(e, d)
    PROVE  TypeInv'
<1>1. /\ {q \in pend : ~(q.ep = e /\ q.dev = d)} \in SUBSET PendRec
      /\ {s \in streams : ~(s.ep = e /\ s.dev = d)} \in SUBSET StreamRec
  BY DEF TypeInv, TypeOK
<1>2. QED
  BY <1>1, RemoveByIdType DEF AbortCfm

(* bt_a2dp_unregister empties the lists and frees the records.            *)
LEMMA UnregisterType ==
    ASSUME TypeInv, Unregister
    PROVE  TypeInv'
<1>1. CASE Crash("use_after_free")
  BY <1>1, CrashType DEF Faults
<1> DEFINE freed == {a \in tracked : devState[a] # "DISCONNECTED"}
<1>2. CASE /\ tracked' = {}
           /\ devState' = [a \in Addr |-> IF a \in freed THEN "DISCONNECTED"
                                                      ELSE devState[a]]
           /\ halState' = [a \in Addr |-> IF a \in freed THEN "DISCONNECTED"
                                                      ELSE halState[a]]
           /\ io' = [a \in Addr |-> IF a \in freed THEN "none" ELSE io[a]]
           /\ session' = [a \in Addr |-> IF a \in freed THEN FALSE ELSE session[a]]
           /\ eps' = <<>> /\ setups' = <<>> /\ streams' = {} /\ pend' = {}
           /\ discovering' \subseteq discovering
           /\ transPending' \subseteq transPending
           /\ shutdownReq' \subseteq shutdownReq
           /\ UNCHANGED <<gen, openRsp, fault>>
  <2>1. <<>> \in Seq(EpRec) /\ <<>> \in Seq(SetupRec) /\ Len(<<>>) = 0
    BY EmptySeq
  <2>2. devState' \in [Addr -> States] /\ halState' \in [Addr -> States]
    BY <1>2 DEF TypeInv, TypeOK, States
  <2>3. io' \in [Addr -> {"none", "sig", "trans"}] /\ session' \in [Addr -> BOOLEAN]
    BY <1>2 DEF TypeInv, TypeOK
  <2>4. Len(eps') <= MaxEndpoints
    <3>1. Len(eps') = 0
      BY <1>2, <2>1
    <3>2. MaxEndpoints \in Nat
      BY ConstAssumption
    <3>3. QED
      BY <3>1, <3>2
  <2>5. QED
    BY <1>2, <2>1, <2>2, <2>3, <2>4 DEF TypeInv, TypeOK, GenInv
<1>3. QED
  BY <1>1, <1>2 DEF Unregister

(* disconnect_cb reports DISCONNECTED and frees the record.               *)
LEMMA DisconnectCbType ==
    ASSUME TypeInv, NEW a \in Addr, DisconnectCb(a)
    PROVE  TypeInv'
BY NotifyDisconnectedType DEF DisconnectCb

(* After undefined behaviour nothing changes.                             *)
LEMMA HaltedType ==
    ASSUME TypeInv, Halted
    PROVE  TypeInv'
BY DEF Halted, vars, devVars, engVars, TypeInv, TypeOK, GenInv

-----------------------------------------------------------------------------
(* Every step of the daemon preserves TypeInv, in the reachable states    *)
(* IInv describes.                                                         *)
LEMMA NextType ==
    ASSUME TypeInv, IInv, [Next]_vars
    PROVE  TypeInv'
<1>1. CASE UNCHANGED vars
  BY <1>1 DEF vars, devVars, engVars, TypeInv, TypeOK, GenInv
<1>2. CASE Halted
  BY <1>2, HaltedType
<1>3. ASSUME NEW a \in Addr,
             \/ HalConnect(a) \/ HalDisconnect(a) \/ SignalingConnectCb(a)
             \/ IncomingSignaling(a) \/ IncomingTransport(a) \/ DisconnectCb(a)
      PROVE  TypeInv'
  BY <1>3, HalConnectType, HalDisconnectType, SignalingConnectCbType,
     IncomingSignalingType, TransportType, DisconnectCbType
<1>4. ASSUME NEW d \in DevId, DiscoverCb(d) \/ TransportConnectCb(d)
      PROVE  TypeInv'
  BY <1>4, DiscoverCbType, TransportType
<1>5. ASSUME NEW id \in AudioIds,
             \/ AudioClose(id) \/ StreamOpen(id) \/ StreamClose(id)
             \/ StreamResume(id) \/ StreamSuspend(id)
      PROVE  TypeInv'
  <2>1. CASE AudioClose(id) \/ StreamOpen(id)
    BY <2>1, AudioCloseType, StreamOpenType
  <2>2. CASE StreamClose(id) \/ StreamResume(id) \/ StreamSuspend(id)
    <3>1. \E op \in Ops : StreamRequest(id, op)
      BY <2>2 DEF StreamClose, StreamResume, StreamSuspend, Ops
    <3>2. QED
      BY <3>1, StreamRequestType
  <2>3. QED
    BY <1>5, <2>1, <2>2
<1>6. ASSUME NEW e \in EpIdx, NEW d \in DevId,
             \/ GetCapInd(e, d)
             \/ \E prop \in Proposals : SetConfInd(e, d, prop)
             \/ StreamInd(e, d) \/ CloseInd(e, d) \/ AbortCfm(e, d)
      PROVE  TypeInv'
  BY <1>6, IndicationCrashType, SetConfIndType, CloseIndType, AbortCfmType
<1>7. ASSUME NEW p \in PendRec,
             \/ SetConfCfm(p) \/ OpenCfm(p) \/ StartSuspendCfm(p) \/ CloseCfm(p)
      PROVE  TypeInv'
  BY <1>7, SetConfCfmType, OpenCfmType, OtherCfmType
<1>8. CASE \E cmd \in Opens : AudioOpen(cmd)
  BY <1>8, AudioOpenType
<1>9. CASE Unregister
  BY <1>9, UnregisterType
<1>10. QED
  BY <1>1, <1>2, <1>3, <1>4, <1>5, <1>6, <1>7, <1>8, <1>9 DEF Next, Step

(* TypeInv is an invariant of the daemon.                                   *)
LEMMA TypeInvInvariant == Spec => []TypeInv
BY InitType, NextType, IInvInvariant, PTL DEF Spec

(***************************************************************************)
(* TypeOK, checked by every run, holds for every number of peers,          *)
(* incarnations, endpoints and id width: whatever the order of the HAL,   *)
(* audio IPC, BtIO and AVDTP callbacks, the endpoint and setup lists stay *)
(* lists of well-formed records no longer than the endpoints registered,  *)
(* every index find_setup and find_endpoint return lies within its list,  *)
(* and every request and stream the engine holds names a device           *)
(* incarnation that existed.                                               *)
(***************************************************************************)
THEOREM TypeCorrect == Spec => []TypeOK
<1>1. Spec => []TypeInv
  BY TypeInvInvariant
<1>2. QED
  BY <1>1, PTL DEF TypeInv

=============================================================================
