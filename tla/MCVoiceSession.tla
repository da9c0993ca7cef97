--------------------------- MODULE MCVoiceSession ---------------------------
(* Two sessions, one of them a voice demo, over two pools (the recogniser  *)
(* and the voice) of one engine each.                                      *)
EXTENDS VoiceSession

CONSTANTS caller, auditioner, asr, tts

MCOrder == <<asr, tts>>
=============================================================================
