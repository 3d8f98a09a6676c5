------------------------------- MODULE MC_A2dp -------------------------------
(* Small instances of A2dp for TLC.                                        *)
EXTENDS A2dp, TLC

\* Blobs: capabilities admitting everything, two one-choice presets, and a
\* remote sink that only does the second sampling frequency.
MCCaps == [len |-> 4, frequency |-> {1, 2}, channel_mode |-> {1, 2},
           block_length |-> {1, 2}, subbands |-> {1, 2},
           allocation_method |-> {1, 2}]
MCPresetA == [MCCaps EXCEPT !.frequency = {1}, !.channel_mode = {1}]
MCPresetB == [MCCaps EXCEPT !.frequency = {2}, !.channel_mode = {2}]
MCSinkCaps == [MCCaps EXCEPT !.frequency = {2}]

MCOpens == {[codec |-> "SBC", presets |-> <<MCCaps, MCPresetA, MCPresetB>>]}
MCRemoteSeps == {[codec |-> "SBC", caps |-> MCSinkCaps],
                 [codec |-> "MPEG", caps |-> MCCaps]}

MCTransport == [cat |-> "transport", codec |-> "SBC", conf |-> NoBlob]
MCDelay == [cat |-> "delay", codec |-> "SBC", conf |-> NoBlob]
MCCodec(c, b) == [cat |-> "codec", codec |-> c, conf |-> b]
MCProposals ==
    { <<MCTransport, MCCodec("SBC", MCPresetB)>>,
      <<MCCodec("SBC", MCPresetA), MCDelay>>,
      <<MCTransport, MCCodec("MPEG", MCCaps)>> }

\* A peer proposal whose SBC capability is 200 bytes long (a length byte
\* of 202 on the wire).
MCLongProposals ==
    MCProposals \cup {<<MCTransport, MCCodec("SBC", [MCPresetA EXCEPT !.len = 200])>>}

\* A peer proposal whose subbands mask shares no bit with the capabilities.
MCNoSubbands == [MCPresetA EXCEPT !.subbands = {}]
MCSubbandProposals ==
    { <<MCTransport, MCCodec("SBC", MCPresetB)>>,
      <<MCTransport, MCCodec("SBC", MCNoSubbands)>> }

\* Proposals check_config refuses: a frequency outside the capabilities,
\* alone or after an entry it accepts.
MCNoFrequency == [MCPresetA EXCEPT !.frequency = {}]
MCRefusedProposals ==
    MCProposals \cup
    { <<MCTransport, MCCodec("SBC", MCNoFrequency)>>,
      <<MCCodec("SBC", MCPresetB), MCCodec("SBC", MCNoFrequency)>> }

MCSymmetry == Permutations(Addr)
=============================================================================
