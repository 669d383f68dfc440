------------------------------ MODULE MCEncoding ------------------------------
(* Values for Encoding: odd and even sizes, two frame rates and one that   *)
(* is none, sample rates with and without an ADTS index, one channel, five *)
(* and eight; packets up to the largest an ADTS header can count.          *)
EXTENDS Encoding

SomeChoices ==
  {<<"mic_sample_rate", 8000>>, <<"audio_sample_rate", 44100>>,
   <<"audio_sample_rate", 47000>>, <<"audio_channels", 1>>,
   <<"audio_channels", 5>>, <<"audio_channels", 8>>, <<"video_width", 1280>>, <<"video_width", 721>>,
   <<"video_height", 0>>, <<"video_fps", 30>>, <<"video_fps", 0>>}

SomeParamSets ==
  {<<<<103, 0, 0, 3, 1>>, <<104, 206>>>>,
   <<<<103, 31>>, <<104, 0, 0, 3, 1>>>>}

AacDelay == [audio |-> 1, video |-> 0]
=============================================================================
