# TLA+ models of the Android A2DP source coordinator

This directory holds a verification project for `src/android/a2dp.c`. That file is
the A2DP source profile of the BlueZ Android daemon: it keeps the peer devices, the
local stream endpoints published by the audio plug-in, and the stream setups that
bind them. It is driven by three inputs:

- the HAL IPC commands `A2DP_CONNECT` and `A2DP_DISCONNECT`, answered with `CONN_STATE` events;
- the audio IPC commands `OPEN`, `CLOSE`, `OPEN_STREAM`, `CLOSE_STREAM`, `RESUME_STREAM` and `SUSPEND_STREAM`;
- the callbacks of BtIO (L2CAP connects) and of the AVDTP engine (`android/avdtp.c`):
  `discover_cb`, the `sep_*_ind` indications, the `sep_*_cfm` confirmations and `disconnect_cb`.

Everything runs on one GLib main loop. Each handler therefore runs to completion, and
the only concurrency is the order in which these inputs arrive. The models make every
handler one atomic action and let the inputs come in any order.

## Modules

| Module | Models |
|---|---|
| `A2dpCodec` | `sbc_check_config`, `check_capabilities`, `select_preset`, `check_config`. It also holds `SbcSpecCheckConfig`, the validator as spec 4.1 states it, used only as a reference. |
| `A2dp` | The coordinator: the device table and its state machine, the endpoint registry, the setup list, every HAL, audio, BtIO and AVDTP handler, and the teardown `bt_a2dp_unregister` (`Unregister`). |
| `A2dpProofs` | The TLAPS proofs of `SessionInv` and of the HAL refinement (see Proofs). |
| `A2dpTypeProofs` | The TLAPS proof of `TypeOK` (see Proofs). |
| `A2dpSetupProofs` | The TLAPS proof of `SetupConfigAccepted` (see Proofs). |
| `HalConn` | The abstract promise to the HAL: per address, `CONN_STATE` events follow the connection state machine of spec 4.4. A step sends one event, or one event for each of several addresses (`Burst`, for `bt_a2dp_unregister`). |
| `MC_A2dp` | Small constants for TLC: the blobs, the OPEN commands, the remote SEPs, the peer proposals and the symmetry set. |

### State of `A2dp` and the code it stands for

| Variable | Code |
|---|---|
| `tracked`, `gen` | The `devices` list. A record is named by `<<address, incarnation>>` (its pointer identity), so a pointer kept past `g_free` can be told from a new record of the same address. |
| `devState`, `io`, `session` | `dev->state`, what `dev->io` holds (`"sig"`, `"trans"` or nothing), `dev->session != NULL`. |
| `halState` | The last `CONN_STATE` sent to the HAL per address. |
| `eps` | The `endpoints` list. `st` is `"live"`, `"closed"` (freed by `bt_audio_close` but still in the list) or `"unowned"` (id 0: `bt_audio_open` freed its presets). |
| `setups` | The `setups` list; `shared` says whether the preset pointer is one of the endpoint's. |
| `streams`, `pend`, `discovering`, `transPending`, `shutdownReq` | The AVDTP engine and BtIO as seen from `a2dp.c`. They track configured streams, requests awaiting a confirmation, DISCOVERs in flight, transport connects in flight, and sessions `avdtp_shutdown` was called on. |
| `openRsp` | The last `OPEN_STREAM` reply. |
| `fault` | Undefined behaviour the code executed: use after free, NULL dereference, or a copy of a negative `int8_t` length (`"oversized_copy"`). After it the daemon takes no step (`Halted`). |

The data is abstracted to what the properties tell apart:

- A codec blob is its length plus the five SBC mask fields, each a set of bit positions. The bitpool bytes are dropped; no line reads them.
- Addresses are model values.
- `parse_presets` is abstracted to well-formed commands. A malformed command changes nothing.
- A blob's `len` is its byte length. Where the code stores it in the `int8_t` of `struct a2dp_preset` (`sep_setconf_ind`), `Int8` narrows it the way two's complement does.

Every early return and error path of a handler is a disjunct of its action. The
failures of calls into the engine (`bt_io_get`, `avdtp_new`, `avdtp_set_configuration`,
`avdtp_open`) are nondeterministic choices.

## Runs

| Run | Config | Result | What it shows |
|---|---|---|---|
| `single_peer` | `MC_A2dp.cfg` | pass | One address, two incarnations, one endpoint. `SessionInv`, `HalRefinement`, `ConnectingResolves` and `ShutdownCompletes` hold. |
| `two_peers` | `MC_A2dp_TwoPeers.cfg` | pass | Two addresses, symmetric. The device invariant and the HAL refinement survive interleaving two peers on one endpoint. |
| `endpoints` | `MC_A2dp_Endpoints.cfg` | pass | Three OPENs with `IdMod = 3`, so the third id wraps to 0. This reaches `sep_getcap_ind` on an endpoint whose presets were freed, and the indications reading a closed endpoint. `TypeOK` and `SessionInv` hold. The peer also proposes configurations that `check_config` refuses: a codec entry with no common frequency, alone or after an accepted one. `SetupConfigAccepted` holds: every setup and every configured stream keeps a configuration `check_config` admits for a listed endpoint. |
| `setup_device_live` | `MC_A2dp_SetupDeviceLive.cfg` | violation | `disconnect_cb` frees the device and leaves its setups. |
| `disconnected_record_freed` | `MC_A2dp_DisconnectedRecordFreed.cfg` | violation | A failed incoming signaling channel leaves a record in DISCONNECTED. |
| `no_use_after_free` | `MC_A2dp_NoUseAfterFree.cfg` | violation | `bt_audio_close` leaves the freed endpoint in the list; the next lookup reads it. |
| `disconnect_through_shutdown` | `MC_A2dp_DisconnectGoesThroughShutdown.cfg` | violation | A HAL disconnect while the transport connect is in flight bypasses `avdtp_shutdown`. |
| `setup_config_supported` | `MC_A2dp_SetupConfigSupported.cfg` | violation | A configuration with no common subbands bit is accepted (spec 4.1 and 8.7 vs `sbc_check_config`). |
| `endpoint_id_unique` | `MC_A2dp_EndpointIdUnique.cfg` | violation | With ids modulo 3, the fourth OPEN gets the id of the first live endpoint (the `uint8_t` id of `register_endpoint` wraps after 255). |
| `setup_has_stream` | `MC_A2dp_SetupHasStream.cfg` | violation | `find_setup` matches on the endpoint id only. A `sep_close_ind` from a second incarnation removes the first incarnation's setup and leaves its own, with no stream behind it. |
| `stream_has_setup` | `MC_A2dp_StreamHasSetup.cfg` | violation | When `avdtp_open` fails in `sep_setconf_cfm`, the setup is destroyed and the engine keeps the configured stream. |
| `invalid_config_rejected` | `MC_A2dp_InvalidConfigRejected.cfg` | violation | A SET_CONFIGURATION with a 200-byte SBC capability. `sep_setconf_ind` stores the length as `int8_t` -56 and hands it to `g_memdup`, which takes it as a 4 GiB `guint`. This happens before `check_config` could reject it (spec 7: InvalidConfig, no state change). |

`PROJECT.json` lists the findings these violations support, and the hazards of the
code with the properties that cover them.

### Bounds

- `MaxGen` bounds how often an address gets a new record; it is 2 with one address, so a device can reconnect after a drop.
- `MaxEndpoints` bounds the number of OPENs.
- `IdMod` stands for 2^8. It is 256 in the device runs and 3 in the `endpoints` run, which makes the uint8_t wrap of `register_endpoint` reachable with three endpoints.
- The audio client may name ids `{1, 2}`, or `{0, 1, 2}` in the `endpoints` run. These are the ids that exist, plus one that does not.
- The peer's SEPs and proposals contain a compatible and an incompatible codec, a DELAY_REPORTING entry, and a preset that needs a later preferred preset. In the `endpoints` run (`MCRefusedProposals`) they also contain codec entries that `check_config` refuses.

With these bounds every action of `A2dp` fires in some passing run.

### Fairness

`Spec` assumes weak fairness on the following:

- `SignalingConnectCb`: the kernel completes or fails every L2CAP connect.
- `TransportConnectCb`: the same, for the transport channel.
- `DiscoverCb`: the engine answers or times out every DISCOVER.
- `DisconnectCb`, for a device in `shutdownReq` only: the engine closes a session after `avdtp_shutdown`.

The HAL, the audio client and the peer owe nothing. No liveness property waits on a
stream request, so the confirmations carry no fairness. The symmetry set is used only
in safety-only configs.

## Proofs

`A2dpProofs` holds the TLAPS proofs, which cover every value of the constants: any
number of addresses, incarnations and endpoints, and any blobs, OPEN commands and
proposals that satisfy `ConstAssumption`.

- `SessionInvariant`: `Spec => []SessionInv`.
- `HalRefinementThm`: `Spec => HalRefinement`. `A2dp` implements `HalConn` under the
  mapping `hal <- halState`. The initial states match, and every step is either a
  `HalConn` event or leaves `halState` unchanged.
- `IInvInvariant`: `Spec => []IInv`, the inductive invariant both rest on.

`SessionInv` is not inductive by itself, because two handlers rewrite `dev->io`.
`transport_connect_cb` clears it and `sep_open_cfm` puts the transport channel in it,
for the device a stream or a request belongs to. This keeps `SessionInv` only if that
device is CONNECTED or DISCONNECTING. `IInv` therefore adds:

- `EngineInv`: every engine stream, pending request and DISCOVER belongs to the
  current record of a tracked address whose session is up. `a2dp_device_free` keeps
  this by dropping the session's entries, and a new record gets a new incarnation
  that no entry can name.
- `halState = devState`, which the refinement step needs to know the HAL's current
  state.
- The types of the device variables.

`SessionInv` includes `TransportWithSession`: `dev->io` holds the transport channel
only while the session is up. The `Unregister` step needs it, because that step
leaks the records that are already DISCONNECTED. `UntrackedHoldsNothing` afterwards
needs those records to hold no channel.

The proof has one lemma per handler, plus frame lemmas for the handlers that leave
the device table alone. `NextIInv` and `NextHal` combine the lemmas, and the theorems
follow by PTL.

`A2dpTypeProofs` proves `TypeCorrect`, which is `Spec => []TypeOK`. `TypeOK` is not
inductive either. A handler that records `Dev(a)` (`sep_open_cfm`,
`signaling_connect_cb`) needs `gen[a]` to be an incarnation `1..MaxGen`. That holds
only because `a` has a record, which `GenInv` states. The step also uses `IInv`, to
know which addresses a callback can name. The index arguments rest on three lemmas:

- `FirstOfType`: `FirstIndex` (through `FirstOf`, the least index satisfying the
  predicate) returns 0 or an index of the list. So `find_setup`, `find_endpoint`,
  `select_preset` and the endpoint loop of `discover_cb` never index past their list.
- `LeastElement`: the least element exists, proved by well-founded induction.
- `GreatestElement`: the last codec entry `sep_setconf_ind` keeps exists.

The other lemmas are `DropAtType`, for `setup_remove`, and one lemma per handler.

`A2dpSetupProofs` proves one more theorem and a lemma about an operator.

- `SetupConfigAcceptedInvariant`: `Spec => []SetupConfigAccepted`. The invariant
  is inductive given `TypeInv` (the proof of `TypeCorrect` shows `Spec => []TypeInv`),
  so no strengthening is needed beyond it. The argument is as follows.
  - Only two handlers add a setup. `discover_cb` adds one with one of the endpoint's
    own presets, which `check_config` admits by its first test.
  - `sep_setconf_ind` adds one with the last codec entry, which exists by
    `GreatestElement`. `check_config` passed every codec entry it reached, and the
    success path reaches all of them.
  - Setups are removed by position, and `DropAtElement` shows that every remaining
    setup was there before. Streams are only dropped.
  - The endpoint list only grows (`AppendProperties`). `bt_audio_close` rewrites only
    the `st` field of an endpoint. `bt_a2dp_unregister` empties all lists together.
  - `GrowAccepted` and `ShrinkAccepted` cover the handlers that add and remove.
    `AcceptedStep` covers the steps that change the endpoint list. `AcceptedFrame`
    covers all the rest.
- `Int8Length`, a lemma about the `int8_t` narrowing of `sep_setconf_ind`: a length
  of 0..255 reads back unchanged below 128, and negative from 128 on.

The following stay with TLC:

- the liveness properties (`ConnectingResolves`, `ShutdownCompletes`). They need
  fairness and `ENABLED`, which TLAPS's backends cannot reason about here;
- the violations, which are counterexamples, not theorems.

None of the modules declares a `RECURSIVE` operator.

## Not modelled

- `bt_a2dp_register` and `a2dp_record`: one-shot setup and constant SDP data. `Unregister` leaves the state of a freshly registered module, so the model also covers a later registration.
- Byte-level preset parsing. The `int8_t` length is modelled where a peer controls it (`sep_setconf_ind`), but not in `parse_presets`, whose input comes from the trusted audio HAL.
- The leak of an earlier codec preset when a proposal carries two codec entries (`sep_setconf_ind`). No property observes allocation.
- A NULL return of `avdtp_register_sep`. Its consequences lie in `android/avdtp.c`, which is not part of the modelled source.
- The AVDTP engine itself. It appears only as the environment described above.
