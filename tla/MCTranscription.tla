-------------------------- MODULE MCTranscription --------------------------
(* Two documents with one recording, each transcribed, copied, corrected    *)
(* and deleted while two finishers race.                                    *)
EXTENDS Transcription, TLC

CONSTANTS d1, d2, r1, r2, r3, f1, f2

MCSiblings == {<<d1, d2>>, <<d2, d1>>}
MCSymmetry == Permutations({d1, d2}) \cup Permutations({r1, r2, r3}) \cup Permutations({f1, f2})
=============================================================================
