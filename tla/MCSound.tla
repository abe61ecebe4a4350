-------------------------------- MODULE MCSound --------------------------------
\* Small instances of Sound: what a behaviour is about is in its setup.
EXTENDS Sound

CONSTANTS mic, mic44, phones, box

MCConfig(i, o) == [input |-> i, output |-> o, other |-> 0]
MCDefault == MCConfig(mic, phones)
MCChunkSize == [d \in {phones, box} |-> IF d = phones THEN 2 ELSE 1]

MCSetups ==
    \* recordings, straight and resampled, of a user who hears nothing
    { [file |-> MCConfig(i, phones), messages |-> {"join", "leave", "mute"},
       opens |-> {i}, buffers |-> MaxBuffers] : i \in {mic, mic44} }
    \cup
    \* notifications, of a user who has no microphone
    { [file |-> MCConfig(mic, phones),
       messages |-> {"join", "leave", "others", "mute", "output", "view"},
       opens |-> {phones, box}, buffers |-> 0],
      \* settings, with saves that fail
      [file |-> Torn, messages |-> {"input", "other", "view", "close"},
       opens |-> {mic, mic44}, buffers |-> 0],
      \* a device is selected in voice
      [file |-> MCConfig(mic, box), messages |-> {"join", "leave", "input", "view", "close"},
       opens |-> {mic, mic44}, buffers |-> 1] }
=============================================================================
