------------------------ MODULE MCRecordingManager ------------------------
(* Two slots; spellings alice and Alice of one creator's page and bob's;   *)
(* outputs clip and clipUp share their parts directory.                    *)
EXTENDS RecordingManager, TLC

CONSTANTS room1, alice, Alice, bob, pageA, pageB,
          clip, clipUp, other, dirClip, dirOther

MCPageOf == [u \in Urls |-> IF u = bob THEN pageB ELSE pageA]
MCPartsOf == [o \in Outputs |-> IF o = other THEN dirOther ELSE dirClip]
(* Exchanging two pages, two outputs of one parts directory, or two        *)
(* directories, with all that is theirs, changes nothing.                  *)
Exchange(a, b) == a :> b @@ b :> a
Group(f, g) == {f, g, f @@ g}
ExchangePages == Exchange(alice, bob) @@ Exchange(pageA, pageB)
SharedDirectorySymmetry == Group(ExchangePages, Exchange(clip, clipUp))
TwoDirectoriesSymmetry ==
  Group(ExchangePages, Exchange(clip, other) @@ Exchange(dirClip, dirOther))

(* Nothing is explored past the call of shutdown.                          *)
BeforeShutdown == ~closed
=============================================================================
