----------------------------- MODULE A2dpCodec -----------------------------
(***************************************************************************)
(* The codec side of android/a2dp.c: the SBC configuration validator      *)
(* (sbc_check_config), the dispatch on codec type (check_capabilities,    *)
(* check_config) and the first-match preset selection (select_preset).   *)
(*                                                                         *)
(* A preset is an opaque byte blob that only the SBC validator looks      *)
(* into.  A blob is abstracted to its length and the five mask fields of  *)
(* a2dp_sbc_t; a mask is the set of bit positions it has set, so the C    *)
(* test (cap->f & config->f) != 0 is a non-empty intersection.  The       *)
(* bitpool bytes are left out: no line of a2dp.c reads them.              *)
(***************************************************************************)
EXTENDS Naturals, Sequences

CONSTANTS
    SBC,        \* A2DP_CODEC_SBC
    Codecs,     \* the codec type bytes the audio client and the peers use
    SbcLen,     \* sizeof(a2dp_sbc_t)
    FieldBits   \* bit positions of one a2dp_sbc_t mask field

ASSUME CodecAssumption == SBC \in Codecs
ASSUME SbcLenAssumption == SbcLen \in Nat \ {0}

Mask == SUBSET FieldBits

Blob == [len : Nat, frequency : Mask, channel_mode : Mask,
         block_length : Mask, subbands : Mask, allocation_method : Mask]

\* A length stored in the int8_t len of struct a2dp_preset: two's
\* complement narrowing, so 128..255 become -128..-1.
Int8(n) == ((n + 128) % 256) - 128

(***************************************************************************)
(* sbc_check_config(caps, caps_len, conf, conf_len) == 0: the sizes agree  *)
(* and are those of a2dp_sbc_t, and frequency, channel mode, block length *)
(* and allocation method each share a bit with the capabilities.  The     *)
(* subbands field is not compared.                                        *)
(***************************************************************************)
SbcCheckConfig(caps, conf) ==
    /\ conf.len = caps.len
    /\ conf.len = SbcLen
    /\ caps.frequency \cap conf.frequency # {}
    /\ caps.channel_mode \cap conf.channel_mode # {}
    /\ caps.block_length \cap conf.block_length # {}
    /\ caps.allocation_method \cap conf.allocation_method # {}

(***************************************************************************)
(* check_capabilities(preset, codec, len) == 0: the remote SEP's codec    *)
(* capability, of type codecType and payload rcaps, admits the preset.    *)
(* Every codec type but SBC is refused with -EINVAL.                      *)
(***************************************************************************)
CheckCapabilities(preset, codecType, rcaps) ==
    /\ codecType = SBC
    /\ SbcCheckConfig(rcaps, preset)

(***************************************************************************)
(* The index of the first element of s satisfying P, 0 if there is none:  *)
(* the "for (l = list; l; l = l->next) if (...) return" loops of a2dp.c,  *)
(* as the least of the indices that satisfy P.                             *)
(***************************************************************************)
FirstOf(I) == IF I = {} THEN 0 ELSE CHOOSE i \in I : \A j \in I : i <= j
FirstIndex(s, P(_)) == FirstOf({i \in 1..Len(s) : P(s[i])})

(***************************************************************************)
(* select_preset(endpoint, rsep): the index in the endpoint's preferred   *)
(* presets of the first one the remote capability admits, 0 for NULL.     *)
(***************************************************************************)
SelectPreset(presets, codecType, rcaps) ==
    FirstIndex(presets, LAMBDA p : CheckCapabilities(p, codecType, rcaps))

(***************************************************************************)
(* check_config(endpoint, config) == 0: the proposed configuration equals *)
(* one of the endpoint's preferred presets (same length, same bytes), or  *)
(* the endpoint's codec is SBC and the validator admits it against the    *)
(* endpoint's capabilities preset.                                        *)
(***************************************************************************)
CheckConfig(codec, caps, presets, config) ==
    \/ \E i \in 1..Len(presets) : presets[i] = config
    \/ /\ codec = SBC
       /\ SbcCheckConfig(caps, config)

(***************************************************************************)
(* The SBC validator as spec sections 4.1 and 8.7 state it: lengths equal *)
(* and those of the SBC structure, and a shared bit in every mask field,  *)
(* subbands included.  It is the reference the setups are checked         *)
(* against, not a model of code.                                          *)
(***************************************************************************)
SbcSpecCheckConfig(caps, conf) ==
    /\ SbcCheckConfig(caps, conf)
    /\ caps.subbands \cap conf.subbands # {}

=============================================================================
